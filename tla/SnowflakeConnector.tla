-------------------------- MODULE SnowflakeConnector --------------------------
(***************************************************************************)
(* The Snowflake connector at work: map_policy runs one query of the       *)
(* views of ACCOUNT_USAGE after the other, each over a connection of its   *)
(* own (plugins/snowflake/api.py), while administrators may change the     *)
(* account, and builds the export of what they returned (SnowflakeExport). *)
(* Nothing is retried: a query that fails, and a policy that its parser    *)
(* cannot take apart, end the run.                                         *)
(***************************************************************************)
EXTENDS SnowflakeExport

CONSTANTS
    Source,         \* the accounts the source may start as
    Change,         \* pairs of accounts: what administrators may do to it
    QueriesFail     \* a query may fail

ASSUME ConnectorAssumption ==
    /\ Source \subseteq Account
    /\ Change \subseteq Account \X Account
    /\ QueriesFail \in BOOLEAN

VARIABLES
    sf,               \* the account as Snowflake has it
    pc,               \* the query to run next, or how the run ended
    todo,             \* the policies still to be taken apart
    map,              \* what was fetched
    tablesWithMasks,  \* the columns of the tables of the masks taken apart
    roleBased,        \* policy_mapping of this run
    export,           \* the policies of the export
    seen,             \* history: the accounts there were during the run
    refused           \* history: a query failed

vars == <<sf, pc, todo, map, tablesWithMasks, roleBased, export, seen, refused>>

Resting == {"ready", "exported", "failed"}

\* The order of __get_database_map__; masks and rowPolicies are followed by
\* a query for each policy that was found.
Following ==
    [users |-> "roles", roles |-> "roleGrants", roleGrants |-> "userGrants",
     userGrants |-> "grants", grants |-> "masks", masks |-> "maskColumns",
     maskColumns |-> "rowPolicies", rowPolicies |-> "rowColumns",
     rowColumns |-> "aggregation", aggregation |-> "join", join |-> "projection",
     projection |-> "export"]
PerPolicy == {"maskColumns", "rowColumns"}
Whole     == DOMAIN Following \ PerPolicy

NothingFetched ==
    [users |-> {}, roles |-> {}, roleGrants |-> {}, userGrants |-> {}, grants |-> {},
     masks |-> {}, columns |-> [t \in Table |-> {}], rowPolicies |-> {},
     aggregation |-> {}, join |-> {}, projection |-> {}]

TypeOK ==
    /\ sf \in Account
    /\ pc \in Resting \cup DOMAIN Following \cup {"export"}
    /\ todo \subseteq map.masks \cup map.rowPolicies
    /\ map \in Snapshot
    /\ DOMAIN tablesWithMasks \subseteq Table
    /\ \A t \in DOMAIN tablesWithMasks : tablesWithMasks[t] \subseteq Column
    /\ roleBased \in BOOLEAN
    /\ \A p \in export : IsPolicy(p)
    /\ seen \subseteq Account
    /\ refused \in BOOLEAN

-------------------------------------------------------------------------------
(* A run *)

MapPolicy ==
    /\ pc \in Resting
    /\ pc' = "users"
    /\ todo' = {}
    /\ map' = NothingFetched
    /\ tablesWithMasks' = [t \in {} |-> {}]
    /\ roleBased' \in BOOLEAN
    /\ export' = {}
    /\ seen' = {sf}
    /\ refused' = FALSE
    /\ UNCHANGED sf

(* The grants on tables are those on tables the configuration names. *)
Result(query) ==
    IF query = "grants" THEN {g \in sf.grants : g.on \in Table => g.on \in Wanted} ELSE sf[query]

RunQuery ==
    /\ pc \in Whole
    /\ map' = [map EXCEPT ![pc] = Result(pc)]
    /\ pc' = Following[pc]
    /\ todo' = IF pc' \in PerPolicy THEN map'[pc] ELSE {}
    /\ UNCHANGED <<sf, tablesWithMasks, roleBased, export, seen, refused>>

QueryFails ==
    /\ QueriesFail
    /\ pc \in Whole \/ todo # {}
    /\ pc' = "failed"
    /\ refused' = TRUE
    /\ UNCHANGED <<sf, todo, map, tablesWithMasks, roleBased, export, seen>>

(* The policies come in no order.  Of a table that is listed again the     *)
(* first columns count; those of the table of a row access policy are      *)
(* asked for too, and not used.                                            *)
FetchColumns ==
    /\ pc \in PerPolicy
    /\ \E p \in todo :
        /\ p.body.form # "raises"
        /\ todo' = todo \ {p}
        /\ tablesWithMasks' =
               IF pc = "rowColumns" \/ p.table \in DOMAIN tablesWithMasks THEN tablesWithMasks
               ELSE [t \in DOMAIN tablesWithMasks \cup {p.table} |->
                        IF t = p.table THEN sf.columns[t] ELSE tablesWithMasks[t]]
    /\ UNCHANGED <<sf, pc, map, roleBased, export, seen, refused>>

ParserRaises ==
    /\ pc \in PerPolicy
    /\ \E p \in todo : p.body.form = "raises"
    /\ pc' = "failed"
    /\ UNCHANGED <<sf, todo, map, tablesWithMasks, roleBased, export, seen, refused>>

PoliciesDone ==
    /\ pc \in PerPolicy
    /\ todo = {}
    /\ pc' = Following[pc]
    /\ UNCHANGED <<sf, todo, map, tablesWithMasks, roleBased, export, seen, refused>>

Export ==
    /\ pc = "export"
    /\ pc' = "exported"
    /\ export' = IF roleBased THEN BuildRoleBasedExport(map, tablesWithMasks)
                              ELSE BuildTableBasedExport(map)
    /\ UNCHANGED <<sf, todo, map, tablesWithMasks, roleBased, seen, refused>>

SourceChanges ==
    /\ \E c \in Change : sf = c[1] /\ sf' = c[2]
    /\ seen' = IF pc \in Resting THEN seen ELSE seen \cup {sf'}
    /\ UNCHANGED <<pc, todo, map, tablesWithMasks, roleBased, export, refused>>

Init ==
    /\ sf \in Source
    /\ pc = "ready"
    /\ todo = {}
    /\ map = NothingFetched
    /\ tablesWithMasks = [t \in {} |-> {}]
    /\ roleBased = TRUE
    /\ export = {}
    /\ seen = {}
    /\ refused = FALSE

Next ==
    \/ MapPolicy \/ RunQuery \/ FetchColumns \/ PoliciesDone \/ Export
    \/ QueryFails \/ ParserRaises \/ SourceChanges

Spec == Init /\ [][Next]_vars

-------------------------------------------------------------------------------
(* What a user reads in Snowflake, when the account is one of accounts     *)
(* from one moment to the next: his roles and those they inherit have      *)
(* their privileges together, and he may make any of them his current one. *)

All(field, accounts) == UNION {a[field] : a \in accounts}

Held(user, accounts) ==
    Closure(All("roleGrants", accounts), {r \in Role : <<user, r>> \in All("userGrants", accounts)})

(* What a role has when nothing but it is active, through listed roles. *)
Active(role, account) == Closure({e \in account.roleGrants : e[2] \in account.roles}, {role})

Permits(roles, object, privileges, accounts) ==
    \E g \in All("grants", accounts) :
        g.grantee \in roles /\ g.on = object /\ g.privilege \in privileges

MayRead(roles, table, accounts) ==
    /\ Permits(roles, table, Read, accounts)
    /\ Permits(roles, SchemaOf[table], Prereq, accounts)
    /\ Permits(roles, Database, Prereq, accounts)

(* Whether a mask is one of those of README.md:469-471: one role, and the   *)
(* column on one side and a text on the other.  For any other the fallback *)
(* stands, as the configuration says.                                      *)
Documented(body) ==
    /\ body.form = "case" /\ Len(body.whens) = 1
    /\ OneNamed(Head(body.whens).groups)
    /\ {Head(body.whens).then, body.otherwise} = {"column", "text"}

Shows(body, role) ==
    IF ~Documented(body) THEN ColumnFallback = "grant"
    ELSE LET when == Head(body.whens)
         IN  (IF role \in when.groups THEN when.then ELSE body.otherwise) = "column"

ColumnsInSnowflake(user, table, accounts) ==
    {c \in Column : \E a \in accounts : \A m \in a.masks :
        m.table = table /\ m.column = c => \E r \in Held(user, accounts) : Shows(m.body, r)}

(* The branch that CURRENT_ROLE() is in, as it is written. *)
FirstBranch(body, role) ==
    LET mine == {i \in DOMAIN body.whens : role \in body.whens[i].groups}
    IN  IF mine = {} THEN (IF body.default = None THEN {} ELSE Lets[body.default])
        ELSE {row \in Row : \E i \in mine :
                (\A j \in mine : i <= j) /\ row \in Lets[body.whens[i].condition]}

RowsShown(body, role) ==
    IF body.form = "odd" THEN {row \in Row : RowFallback = "grant"} ELSE FirstBranch(body, role)

UnsupportedKinds == {"aggregation", "join", "projection"}
NowAndThen(table, accounts) == \E a \in accounts, k \in UnsupportedKinds : table \in a[k]
AllAlong(table, accounts)   == \E k \in UnsupportedKinds : \A a \in accounts : table \in a[k]

RowsInSnowflake(user, table, accounts) ==
    {row \in Row :
        \/ NowAndThen(table, accounts) /\ RowFallback = "grant"
        \/ /\ ~AllAlong(table, accounts)
           /\ \E a \in accounts : \A p \in a.rowPolicies :
                p.table = table => \E r \in Held(user, accounts) : row \in RowsShown(p.body, r)}

(* What he reads under the export: what any of his policies leaves open. *)
PoliciesFor(user, table) == {p \in export : user \in p.users /\ table \in p.scopes}
ColumnsExported(user, table) == UNION {p.cols[table] : p \in PoliciesFor(user, table)}
RowsExported(user, table)    == UNION {p.rows[table] : p \in PoliciesFor(user, table)}

Settled == pc = "exported"

(* What the properties ask of accounts.  No user bears the name of a role: *)
(* a grant to one is taken for a grant to the other (client.py:241-247).   *)
NamesApart(accounts) == All("users", accounts) \cap Role = {}

(* A mask with several WHENs is read as its first WHEN and its ELSE        *)
(* (api.py:566-582), where README.md:457 promises the fallback.  Such      *)
(* masks aside, and those that name a role with blanks.                    *)
Unreadable(body) ==
    \/ body.form # "case" \/ body.whens = <<>>
    \/ ~OneNamed(Head(body.whens).groups)
    \/ Head(body.whens).then = "text" /\ body.otherwise = "text"
MasksAsDocumented(accounts) ==
    \A a \in accounts : \A m \in a.masks :
        \/ Unreadable(m.body)
        \/ Documented(m.body) /\ MaskGroups(m.body) = Head(m.body.whens).groups

(* Row access policies have one of the two forms of README.md:500-501. *)
AsDocumented(body) ==
    /\ body.form # "raises"
    /\ body.form = "in" =>
           \A i \in DOMAIN body.whens : body.whens[i].condition = "true" /\ body.default = "false"
    /\ body.form = "case" =>
           /\ \A i \in DOMAIN body.whens : OneNamed(body.whens[i].groups) /\ body.whens[i].spelled
           /\ body.default # None
FiltersAsDocumented(accounts) ==
    \A a \in accounts : \A p \in a.rowPolicies : AsDocumented(p.body)

(* And their texts let through no more for what the parser deletes of them: *)
(* see DocumentedFiltersKeepRows.                                          *)
Stands(condition) == Lets[Squeezed(condition)] \subseteq Lets[condition]
TextStands(body) ==
    /\ \A i \in DOMAIN body.whens : GroupsRead(body, i) = body.whens[i].groups
    /\ body.form = "case" =>
           /\ \A i \in DOMAIN body.whens :
                  body.whens[i].condition \in Found /\ Stands(body.whens[i].condition)
           /\ body.default # None => Stands(body.default)
TextsStand(accounts) == \A a \in accounts : \A p \in a.rowPolicies : TextStands(p.body)

(* A table with an aggregation, join or projection policy has a row access *)
(* policy too: see UnsupportedTablesFallBack.                              *)
TablesAsDocumented(accounts) ==
    \A a \in accounts : Unsupported(a) \subseteq {p.table : p \in a.rowPolicies}

(* Columns are asked for after the masks: one that is renamed in between   *)
(* is not denied.                                                          *)
ColumnsStand(accounts) == \A a, b \in accounts : a.columns = b.columns

-------------------------------------------------------------------------------
(* Properties *)

(* Whatever changes between two queries, and in both mappings, nobody is   *)
(* given a table that no combination of what was there let him read        *)
(* (client.py:83-148, 203-265).                                            *)
NoTablesGained ==
    Settled /\ NamesApart(seen) =>
        \A u \in User, t \in Table :
            PoliciesFor(u, t) # {} => MayRead(Held(u, seen), t, seen)

(* Nor rows of it; policies that are not supported deny or grant as the    *)
(* configuration says (client.py:317-386; README.md:489).                  *)
NoRowsGained ==
    /\ Settled /\ roleBased /\ RowSecurity
    /\ NamesApart(seen) /\ TablesAsDocumented(seen)
    /\ FiltersAsDocumented(seen) /\ TextsStand(seen)
    => \A u \in User, t \in Table : RowsExported(u, t) \subseteq RowsInSnowflake(u, t, seen)

(* Nor columns (client.py:268-315; README.md:463-471). *)
NoColumnsGained ==
    /\ Settled /\ roleBased /\ ColumnSecurity
    /\ NamesApart(seen) /\ MasksAsDocumented(seen) /\ ColumnsStand(seen)
    => \A u \in User, t \in Table : ColumnsExported(u, t) \subseteq ColumnsInSnowflake(u, t, seen)

(* In both mappings, when the account stays as it is, a user reads exactly *)
(* the tables he reads in Snowflake with some role of his that has the     *)
(* table by a grant of its own, or is named in a policy of it, and has the *)
(* usage of schema and database, however many roles lie between            *)
(* (README.md:41, api.py:598-670).                                         *)
TablesAtParity ==
    Settled /\ NamesApart(seen) =>
        \A a \in seen : seen = {a} =>
            \A u \in a.users \cap EmailLogin, t \in Wanted :
                PoliciesFor(u, t) # {} <=>
                    \E r \in Held(u, seen) \cap a.roles :
                        /\ Permits({r}, t, Read, seen) \/ r \in GroupsNamed(a, t)
                        /\ MayRead(Active(r, a), t, seen)

(* Whoever has a role that a supported row access policy names, and that   *)
(* reads the table on its own or through a role it inherits, sees at least *)
(* the rows that every policy of the table leaves to what it has: the      *)
(* special grants (client.py:150-201).                                     *)
GroupsAreServed ==
    Settled /\ roleBased /\ NamesApart(seen) =>
        \A a \in seen : seen = {a} =>
            \A p \in {p \in a.rowPolicies : p.body.form \in {"in", "case"}
                                           /\ p.table \in Wanted \ Unsupported(a)} :
                \A i \in BranchesFound(p.body) : \A r \in GroupsRead(p.body, i) \cap a.roles :
                    MayRead(Active(r, a), p.table, seen) =>
                        \A u \in {u \in a.users \cap EmailLogin : r \in Held(u, seen)},
                           row \in Row :
                            (\A q \in a.rowPolicies : q.table = p.table
                                                    => row \in RowsOf(q.body, Active(r, a)))
                            => row \in RowsExported(u, p.table)

(* README.md:489: a fallback can be configured "to either grant or deny    *)
(* access to the whole table [...] This also includes unsupported policies *)
(* like aggregation, join or projection policies in Snowflake."  (The code *)
(* does not look for them on a table without a row access policy,          *)
(* client.py:333.)                                                         *)
UnsupportedTablesFallBack ==
    Settled /\ roleBased /\ RowSecurity /\ RowFallback = "deny" =>
        \A a \in seen : seen = {a} =>
            \A u \in User, t \in Unsupported(a) : RowsExported(u, t) = {}

(* README.md:501: a supported row access policy is "in the form of: `CASE   *)
(* WHEN current_role() in ('SENSITIVE') THEN true WHEN ... ELSE false      *)
(* END`", so that one in that form lets through under the export what it   *)
(* lets through in Snowflake.  (The parser deletes CASE, END and blanks of *)
(* its literals too, api.py:389, 469.)                                     *)
DocumentedFiltersKeepRows ==
    Settled /\ roleBased /\ RowSecurity =>
        \A a \in seen : seen = {a} /\ NamesApart(seen) /\ FiltersAsDocumented(seen) =>
            \A u \in User, t \in Table \ Unsupported(a) :
                RowsExported(u, t) \subseteq RowsInSnowflake(u, t, seen)
===============================================================================
