------------------------- MODULE DatabricksConnector -------------------------
(***************************************************************************)
(* The Databricks connector at work: map_policy lists the directory of the *)
(* account, then walks over the schemas and tables of one catalog          *)
(* (plugins/databricks/api.py), one request after the other, while         *)
(* administrators may change all of it, and builds the export of what it   *)
(* was told (DatabricksExport).  Nothing is retried.                       *)
(***************************************************************************)
EXTENDS DatabricksExport

CONSTANTS
    MaskFunction, FilterFunction,
    Source,         \* what the source may start as
    Change          \* pairs: what administrators may do to it

(* A listing of tables names the function of the mask of a column and that *)
(* of the filter of a table, each of which has one at most (api.py:640-    *)
(* 662); what a function does is asked for later.                          *)
MaskRef   == [table : Table, column : Column, function : MaskFunction]
FilterRef == [table : Table, function : FilterFunction]

Metastore ==
    {m \in [users             : SUBSET User,
            servicePrincipals : SUBSET ServicePrincipal,
            groups            : SUBSET (EntraGroup \cup Group),
            members           : SUBSET ((Identity \cup Group) \X Group),
            tables            : SUBSET Table,
            columns           : [Table -> SUBSET Column],
            masks             : SUBSET MaskRef,
            filters           : SUBSET FilterRef,
            maskBodies        : [MaskFunction -> Mask],
            filterBodies      : [FilterFunction -> RowFilter],
            grants            : SUBSET Grant] :
        /\ \A r \in m.masks : r.column \in m.columns[r.table]
        /\ \A r, q \in m.masks   : r.table = q.table /\ r.column = q.column => r = q
        /\ \A r, q \in m.filters : r.table = q.table => r = q}

ASSUME MetastoreAssumption ==
    /\ MaskFunction \cap FilterFunction = {}
    /\ Source \subseteq Metastore
    /\ Change \subseteq Metastore \X Metastore

VARIABLES
    dbx,         \* the source as Databricks has it
    pc,          \* the request to make next, or how the run ended
    schemas,     \* the schemas still to be visited
    schema,      \* the schema that is being visited
    tables,      \* its tables still to be visited
    table,       \* the table that is being visited
    functions,   \* the masks and filters of these tables still to be asked for
    workspace,   \* what was fetched
    roleBased,   \* policy_mapping of this run
    export,      \* the policies of the export
    seen         \* history: what the source was during the run

walk == <<schemas, schema, tables, table, functions>>
vars == <<dbx, pc, walk, workspace, roleBased, export, seen>>

None    == "none"
Resting == {"ready", "exported", "failed"}

(* __get_account, get_workspace_policy_map: what is asked for once. *)
Following ==
    [users |-> "servicePrincipals", servicePrincipals |-> "groups", groups |-> "catalog",
     catalog |-> "schemas", schemas |-> "nextSchema"]

NothingFetched ==
    [users |-> {}, servicePrincipals |-> {}, groups |-> {}, members |-> {}, tables |-> {},
     columns |-> [t \in Table |-> {}], masks |-> {}, filters |-> {}, grants |-> {}]

TypeOK ==
    /\ dbx \in Metastore
    /\ pc \in Resting \cup DOMAIN Following
              \cup {"nextSchema", "nextTable", "functions", "listFunctions", "export"}
    /\ schemas \subseteq Schema /\ schema \in Schema \cup {None}
    /\ tables \subseteq Wanted  /\ table \in Wanted \cup {None}
    /\ functions \subseteq MaskRef \cup FilterRef
    /\ workspace \in Workspace
    /\ roleBased \in BOOLEAN
    /\ \A p \in export : IsPolicy(p) /\ (roleBased => p.objects \subseteq Identity)
    /\ seen \subseteq Metastore

-------------------------------------------------------------------------------
(* A run *)

MapPolicy ==
    /\ pc \in Resting
    /\ pc' = "users"
    /\ schemas' = {} /\ schema' = None /\ tables' = {} /\ table' = None /\ functions' = {}
    /\ workspace' = NothingFetched
    /\ roleBased' \in BOOLEAN
    /\ export' = {}
    /\ seen' = {dbx}
    /\ UNCHANGED dbx

(* The groups come with their members. *)
FetchDirectory ==
    /\ pc \in {"users", "servicePrincipals", "groups"}
    /\ pc' = Following[pc]
    /\ workspace' = [workspace EXCEPT ![pc] = dbx[pc],
                                      !.members = IF pc = "groups" THEN dbx.members ELSE @]
    /\ UNCHANGED <<dbx, walk, roleBased, export, seen>>

(* Of the catalog only the name is used. *)
GetCatalog ==
    /\ pc = "catalog"
    /\ pc' = Following[pc]
    /\ UNCHANGED <<dbx, walk, workspace, roleBased, export, seen>>

ListSchemas ==
    /\ pc = "schemas"
    /\ pc' = Following[pc]
    /\ schemas' = {SchemaOf[t] : t \in Wanted}
    /\ UNCHANGED <<dbx, schema, tables, table, functions, workspace, roleBased, export, seen>>

(* Tables come with their columns and with the names of their masks and    *)
(* filters.                                                                *)
ListTables ==
    /\ pc = "nextSchema"
    /\ pc' = "nextTable"
    /\ \E s \in schemas :
        /\ schemas' = schemas \ {s}
        /\ schema' = s
        /\ tables' = {t \in dbx.tables \cap Wanted : SchemaOf[t] = s}
    /\ functions' = {f \in dbx.masks \cup dbx.filters : f.table \in tables'}
    /\ workspace' = [workspace EXCEPT !.columns =
                        [t \in Table |-> IF t \in tables' THEN dbx.columns[t] ELSE @[t]]]
    /\ UNCHANGED <<dbx, table, roleBased, export, seen>>

NextTable ==
    /\ pc = "nextTable"
    /\ pc' = "functions"
    /\ \E t \in tables : table' = t /\ tables' = tables \ {t}
    /\ UNCHANGED <<dbx, schemas, schema, functions, workspace, roleBased, export, seen>>

(* __get_column_mask__, __get_row_filter__: the masks of a table before    *)
(* its filter.                                                             *)
AskedFor == {f \in functions : f.table = table /\ (f \in FilterRef =>
                \A m \in functions \cap MaskRef : m.table # table)}

GetMask ==
    /\ pc = "functions"
    /\ \E m \in AskedFor \cap MaskRef :
        /\ dbx.maskBodies[m.function].form # "raises"
        /\ functions' = functions \ {m}
        /\ workspace' = [workspace EXCEPT !.masks = @ \cup
               {[table |-> table, column |-> m.column, body |-> dbx.maskBodies[m.function]]}]
    /\ UNCHANGED <<dbx, pc, schemas, schema, tables, table, roleBased, export, seen>>

GetRowFilter ==
    /\ pc = "functions"
    /\ \E f \in AskedFor \cap FilterRef :
        /\ dbx.filterBodies[f.function].form # "raises"
        /\ functions' = functions \ {f}
        /\ workspace' = [workspace EXCEPT !.filters = @ \cup
               {[table |-> table, body |-> dbx.filterBodies[f.function]]}]
    /\ UNCHANGED <<dbx, pc, schemas, schema, tables, table, roleBased, export, seen>>

ParserRaises ==
    /\ pc = "functions"
    /\ \/ \E m \in AskedFor \cap MaskRef : dbx.maskBodies[m.function].form = "raises"
       \/ \E f \in AskedFor \cap FilterRef : dbx.filterBodies[f.function].form = "raises"
    /\ pc' = "failed"
    /\ UNCHANGED <<dbx, walk, workspace, roleBased, export, seen>>

(* __get_privileges__ *)
GrantsOn(object) == {g \in dbx.grants : g.on = object}

GetTableGrants ==
    /\ pc = "functions"
    /\ AskedFor = {}
    /\ table \in dbx.tables
    /\ pc' = "nextTable"
    /\ workspace' = [workspace EXCEPT !.tables = @ \cup {table}, !.grants = @ \cup GrantsOn(table)]
    /\ UNCHANGED <<dbx, walk, roleBased, export, seen>>

GetSchemaGrants ==
    /\ pc = "nextTable"
    /\ tables = {}
    /\ pc' = "listFunctions"
    /\ workspace' = [workspace EXCEPT !.grants = @ \cup GrantsOn(schema)]
    /\ UNCHANGED <<dbx, walk, roleBased, export, seen>>

(* __get_column_mask_functions__: what it returns is not used. *)
ListFunctions ==
    /\ pc = "listFunctions"
    /\ pc' = "nextSchema"
    /\ UNCHANGED <<dbx, walk, workspace, roleBased, export, seen>>

GetCatalogGrants ==
    /\ pc = "nextSchema"
    /\ schemas = {}
    /\ pc' = "export"
    /\ workspace' = [workspace EXCEPT !.grants = @ \cup GrantsOn(Catalog)]
    /\ UNCHANGED <<dbx, walk, roleBased, export, seen>>

(* A request that is refused, or asks for what is gone, ends the run. *)
RequestFails ==
    /\ pc \notin Resting \cup {"export"}
    /\ pc' = "failed"
    /\ UNCHANGED <<dbx, walk, workspace, roleBased, export, seen>>

Export ==
    /\ pc = "export"
    /\ roleBased => SnapshotHasGroups(workspace)
    /\ pc' = "exported"
    /\ export' = IF roleBased THEN BuildRoleBasedExport(workspace)
                              ELSE BuildTableBasedExport(workspace)
    /\ UNCHANGED <<dbx, walk, workspace, roleBased, seen>>

(* A mask or a filter names a group that was not listed: KeyError. *)
ExportRaises ==
    /\ pc = "export"
    /\ roleBased /\ ~SnapshotHasGroups(workspace)
    /\ pc' = "failed"
    /\ UNCHANGED <<dbx, walk, workspace, roleBased, export, seen>>

SourceChanges ==
    /\ \E c \in Change : dbx = c[1] /\ dbx' = c[2]
    /\ seen' = IF pc \in Resting THEN seen ELSE seen \cup {dbx'}
    /\ UNCHANGED <<pc, walk, workspace, roleBased, export>>

Init ==
    /\ dbx \in Source
    /\ pc = "ready"
    /\ schemas = {} /\ schema = None /\ tables = {} /\ table = None /\ functions = {}
    /\ workspace = NothingFetched
    /\ roleBased = TRUE
    /\ export = {}
    /\ seen = {}

Next ==
    \/ MapPolicy \/ FetchDirectory \/ GetCatalog \/ ListSchemas \/ ListTables \/ NextTable
    \/ GetMask \/ GetRowFilter \/ GetTableGrants \/ GetSchemaGrants \/ ListFunctions
    \/ GetCatalogGrants \/ Export
    \/ ParserRaises \/ ExportRaises \/ RequestFails \/ SourceChanges

Spec == Init /\ [][Next]_vars

-------------------------------------------------------------------------------
(* What Unity Catalog lets an identity do, when the source is one of       *)
(* sources from one moment to the next: it has what its groups have too,   *)
(* and privileges are inherited downwards.                                 *)

All(field, sources) == UNION {m[field] : m \in sources}

Holders(x, sources) == {x, AccountUsers} \cup Containing(All("members", sources), x)

Permits(principals, objects, privileges, sources) ==
    \E g \in All("grants", sources) :
        g.grantee \in principals /\ g.on \in objects /\ g.privilege \in privileges

Uses(principals, object, sources) ==
    /\ Permits(principals, {Catalog}, UseCatalog, sources)
    /\ Permits(principals, Above(object) \cap ({Catalog} \cup Schema), UseSchema, sources)

MayRead(principals, t, sources) ==
    Uses(principals, t, sources) /\ Permits(principals, Above(t), ReadPrivileges, sources)

(* The groups the connector can know of; those of service principals it    *)
(* looks for under the wrong id (model.py:452-454).                        *)
Known(principal, m) ==
    IF principal \in ServicePrincipal THEN {} ELSE Containing(m.members, principal) \cap m.groups

(* A mask in one of the two forms of README.md:466-468, each with one WHEN *)
(* and the column on one side.  A fallback stands for what the             *)
(* configuration says of it.                                               *)
Documented(mask) ==
    /\ mask.form = "case" /\ Len(mask.whens) = 1
    /\ "column" \in {mask.whens[1].then, mask.otherwise}

Shows(mask, groups) ==
    IF Documented(mask)
    THEN (IF MaskGroup(mask) \in groups THEN mask.whens[1].then ELSE mask.otherwise) = "column"
    ELSE ColumnFallback = "grant"

(* A filter lets through what its texts say, as they are written. *)
FirstBranch(filter, groups) ==
    LET mine == {i \in DOMAIN filter.whens : filter.whens[i].group \in groups}
    IN  {row \in Row :
            \/ mine = {} /\ filter.default # NoElse /\ row \in Lets[filter.default]
            \/ \E i \in mine : (\A j \in mine : i <= j) /\ row \in Lets[filter.whens[i].condition]}

RowsShown(filter, groups) ==
    IF filter.form = "odd" THEN {row \in Row : RowFallback = "grant"} ELSE FirstBranch(filter, groups)

(* An identity and each of its groups is a role of its own in Fabric, so a *)
(* column is open to it if it is open to one of them, taken alone; a mask  *)
(* for the others than a group is the one kind where this makes a          *)
(* difference.                                                             *)
Faces(x, sources) ==
    {{p, AccountUsers} \cup Known(p, m) : p \in Holders(x, sources) \ {AccountUsers}, m \in sources}

ColumnsInDatabricks(x, t, sources) ==
    {c \in Column : \E a \in sources : \A r \in {r \in a.masks : r.table = t /\ r.column = c} :
        \E b \in sources, face \in Faces(x, sources) : Shows(b.maskBodies[r.function], face)}

RowsInDatabricks(x, t, sources) ==
    {row \in Row : \E a \in sources : \A r \in {r \in a.filters : r.table = t} :
        \E b \in sources, face \in Faces(x, sources) :
            row \in RowsShown(b.filterBodies[r.function], face)}

(* What it reads under the export: what any of its policies leaves open. *)
PoliciesFor(x, t)     == {p \in export : x \in p.objects /\ t \in p.scopes}
ColumnsExported(x, t) == UNION {p.cols[t] : p \in PoliciesFor(x, t)}
RowsExported(x, t)    == UNION {p.rows[t] : p \in PoliciesFor(x, t)}

Settled == pc = "exported"

(* What the properties ask of sources.  ALL_PRIVILEGES on a schema or a    *)
(* table is taken for usage of what contains it (client.py:813-814): who   *)
(* has it has the usage as well.                                           *)
AllWithUsage(sources) ==
    \A g \in All("grants", sources) :
        g.privilege = "ALL_PRIVILEGES" => Uses({g.grantee}, g.on, sources)

(* USE_SCHEMA on the catalog is not inherited by its grantee               *)
(* (client.py:256-262): who has it has no read access further down.        *)
UsageWhereItCounts(sources) ==
    \A g, h \in All("grants", sources) :
        /\ g.grantee = h.grantee /\ g.privilege = "USE_SCHEMA" /\ g.on = Catalog
        /\ h.privilege \in ReadPrivileges
        => h.on = Catalog

(* Masks have a documented form, or are treated as not supported: one with *)
(* several WHENs and the column after ELSE is taken for its first WHEN and *)
(* its ELSE.                                                               *)
MasksAsDocumented(sources) ==
    \A m \in sources, f \in MaskFunction :
        Documented(m.maskBodies[f]) \/ ~SupportedMask(m.maskBodies[f])

(* Row filters have one of the two forms of README.md:495-496. *)
FiltersAsDocumented(sources) ==
    \A m \in sources, f \in FilterFunction :
        DOMAIN m.filterBodies[f].whens = BranchesFound(m.filterBodies[f])

(* And their texts let through no more for what the parser deletes of them *)
(* or cuts off: see DocumentedFiltersKeepRows.                             *)
TextStands(filter) ==
    \A i \in BranchesFound(filter) : /\ RowsRead(filter, i) \subseteq Lets[filter.whens[i].condition]
                                     /\ DefaultRead(filter) \subseteq Lets[filter.default]
TextsStand(sources) == \A m \in sources, f \in FilterFunction : TextStands(m.filterBodies[f])

-------------------------------------------------------------------------------
(* Properties *)

(* Whatever changes between two requests, and in both mappings, nobody is  *)
(* given a table that no combination of what was there let it read: the    *)
(* three privileges that reading takes may come from different levels and  *)
(* groups, but all of them must (client.py:235-268, 794-888).              *)
NoTablesGained ==
    Settled /\ AllWithUsage(seen) =>
        \A x \in Identity, t \in Table :
            PoliciesFor(x, t) # {} => MayRead(Holders(x, seen), t, seen)

(* Nor columns of it, whatever becomes of a mask between the listing of    *)
(* the table and the request for its function (client.py:444-500).         *)
NoColumnsGained ==
    Settled /\ roleBased /\ ColumnSecurity /\ MasksAsDocumented(seen) =>
        \A x \in Identity, t \in Table : ColumnsExported(x, t) \subseteq ColumnsInDatabricks(x, t, seen)

(* Nor rows (client.py:502-552; README.md:484). *)
NoRowsGained ==
    Settled /\ roleBased /\ RowSecurity /\ FiltersAsDocumented(seen) /\ TextsStand(seen) =>
        \A x \in Identity, t \in Table : RowsExported(x, t) \subseteq RowsInDatabricks(x, t, seen)

(* When the source stays as it is, nobody loses a table that is his by a   *)
(* principal that has SELECT on it, or on what contains it, and with its   *)
(* own groups the usage: himself or a group of his, however many groups    *)
(* lie between (api.py:112-135; model.py:459-520).  What everybody has     *)
(* through "account users" is kept in the table-based mapping only, what a *)
(* service principal has through groups in the role-based one only.        *)
Granting(x, m) ==
    {x} \cup (IF roleBased THEN Containing(m.members, x) \cap m.groups
                           ELSE {AccountUsers} \cup Known(x, m))

TablesKept ==
    Settled /\ UsageWhereItCounts(seen) =>
        \A m \in seen : seen = {m} =>
            \A x \in Identity \cap (m.users \cup m.servicePrincipals \cup m.groups) :
                \A t \in Wanted \cap m.tables :
                    (\E p \in Granting(x, m), o \in Above(t) :
                        /\ Permits({p}, {o}, ReadPrivileges, seen)
                        /\ Uses({p, AccountUsers} \cup Known(p, m), o, seen))
                    => PoliciesFor(x, t) # {}

(* And the members of a group that a supported mask or filter names see,   *)
(* through the group, what it lets the group see, if the groups the group  *)
(* is in can read the table: the special grants (client.py:270-311).       *)
GroupsAreServed ==
    Settled /\ roleBased =>
        \A m \in seen : seen = {m} =>
            \A t \in Wanted \cap m.tables : \A g \in m.groups \cap Group :
                MayRead({AccountUsers} \cup Known(g, m), t, seen) =>
                    \A x \in (m.users \cup m.servicePrincipals) \cap {x \in Identity : g \in Containing(m.members, x)} :
                        /\ \A r \in m.masks :
                              LET mask == m.maskBodies[r.function]
                              IN  r.table = t /\ UnmaskForGroup(mask) /\ MaskGroup(mask) = g
                                  => r.column \in ColumnsExported(x, t)
                        /\ \A r \in m.filters : \A i \in BranchesFound(m.filterBodies[r.function]) :
                              r.table = t /\ m.filterBodies[r.function].whens[i].group = g
                              => FilterFor(m.filterBodies[r.function], {g, AccountUsers} \cup Known(g, m))
                                   \subseteq RowsExported(x, t)

(* README.md:495: a supported row access policy is "in the form of:        *)
(* `IF(IS_ACCOUNT_GROUP_MEMBER('admin'), true, region='US');`", so that    *)
(* one in that form lets through under the export what it lets through in  *)
(* Databricks.  (The parser deletes the blanks of its literals too,        *)
(* api.py:568.)                                                            *)
DocumentedFiltersKeepRows ==
    Settled /\ roleBased /\ RowSecurity =>
        \A m \in seen : seen = {m} /\ FiltersAsDocumented(seen) =>
            \A x \in Identity, t \in Table : RowsExported(x, t) \subseteq RowsInDatabricks(x, t, seen)
===============================================================================
