--------------------------- MODULE DatabricksExport ---------------------------
(***************************************************************************)
(* The pure half of the Databricks connector (plugins/databricks/client.py,*)
(* the parsers of api.py and the lookups of model.py): from the directory, *)
(* the tables and the grants that its requests returned to the policies of *)
(* the export, one per principal or one per object of Unity Catalog.       *)
(*                                                                         *)
(* A row filter is the set of rows it lets through, as in SnowflakeExport: *)
(* its SQL is kept as its form, the groups it names and the conditions of  *)
(* its branches, each of them a text that the parsers change on the way.   *)
(* Names are as Unity Catalog keeps them, in lower case.  A group that is  *)
(* synchronised from Entra stands for its members: the connector does not  *)
(* look inside, Fabric knows it as one member.                             *)
(***************************************************************************)
EXTENDS Integers, Sequences

CONSTANTS
    User, ServicePrincipal,
    EntraGroup,      \* the groups with an external id
    Group,           \* the others
    AccountUsers,    \* "account users": everybody, and not listed as a group
    Catalog, Schema, Table, Column, Row,
    Condition,       \* the texts of conditions, as written and as changed
    Lets,            \* the rows a condition lets through, none if it is broken
    Bare,            \* a condition without its blanks
    UpToWhen,        \* a condition up to the letters WHEN in it
    UpToEnd,         \* a condition up to the letters END in it
    NoElse,          \* no ELSE
    SchemaOf,        \* the schema of a table
    Wanted,          \* the tables the configuration names, or all of them
    ColumnSecurity, RowSecurity,    \* the switches of the configuration
    ColumnFallback, RowFallback     \* "grant" or "deny"

Identity  == User \cup ServicePrincipal \cup EntraGroup
Principal == Identity \cup Group \cup {AccountUsers}
Object    == {Catalog} \cup Schema \cup Table

ASSUME DatabricksAssumption ==
    /\ SchemaOf \in [Table -> Schema]
    /\ Wanted \subseteq Table
    /\ Catalog \notin Schema \cup Table
    /\ Schema \cap Table = {}
    /\ Group \cap Identity = {}
    /\ ServicePrincipal \cap (User \cup EntraGroup) = {}
    /\ AccountUsers \notin Identity \cup Group
    /\ Lets \in [Condition -> SUBSET Row]
    /\ {Bare, UpToWhen, UpToEnd} \subseteq [Condition -> Condition]
    /\ NoElse \notin Condition
    /\ {ColumnSecurity, RowSecurity} \subseteq BOOLEAN
    /\ {ColumnFallback, RowFallback} \subseteq {"grant", "deny"}

(* An object and what contains it: __get_key_set__. *)
Above(object) == {object, Catalog} \cup {SchemaOf[t] : t \in {object} \cap Table}

Grant == {g \in [grantee : Principal, on : Object,
                 privilege : {"SELECT", "USE_SCHEMA", "USE_CATALOG", "ALL_PRIVILEGES", "MODIFY"}] :
            /\ g.privilege = "USE_CATALOG" => g.on = Catalog
            /\ g.privilege = "USE_SCHEMA"  => g.on \notin Table}

(* CASE WHEN is_account_group_member(group) THEN then ... ELSE otherwise   *)
(* END: the column itself, a text, or anything else.  "odd" is any other   *)
(* expression, "raises" one that breaks the parser.  Groups have names     *)
(* without blanks, but for "account users": the parsers of masks and of IF *)
(* drop these (api.py:436, 568).                                           *)
Value == {"column", "text", "else"}
Mask  == {m \in [form : {"case", "odd", "raises"},
                 whens : Seq([group : EntraGroup \cup Group, then : Value]), otherwise : Value] :
             m.form = "case" => m.whens # <<>>}

(* IF(is_account_group_member(group), condition, default) and CASE WHEN    *)
(* is_account_group_member(group) THEN condition ... ELSE default END;     *)
(* read says whether the pattern for the branches of a CASE takes one.     *)
(* Tests of several groups, or with NOT, and texts with an ELSE in them    *)
(* are left out.                                                           *)
Branch    == [group : EntraGroup \cup Group \cup {AccountUsers}, condition : Condition, read : BOOLEAN]
RowFilter == {f \in [form : {"if", "case", "odd", "raises"}, whens : Seq(Branch),
                     default : Condition \cup {NoElse}] :
                /\ f.form \in {"if", "case"} => f.whens # <<>>
                /\ f.form = "if" => /\ Len(f.whens) = 1 /\ f.whens[1].group # AccountUsers
                                   /\ f.default # NoElse}

(* What a run may have fetched.  A pair <<x, g>> of members puts x into g. *)
Workspace ==
    [users             : SUBSET User,
     servicePrincipals : SUBSET ServicePrincipal,
     groups            : SUBSET (EntraGroup \cup Group),
     members           : SUBSET ((Identity \cup Group) \X Group),
     tables            : SUBSET Wanted,
     columns           : [Table -> SUBSET Column],
     masks             : SUBSET [table : Table, column : Column, body : Mask],
     filters           : SUBSET [table : Table, body : RowFilter],
     grants            : SUBSET Grant]

(* What a policy of the export opens, to whom: per table the columns and   *)
(* the rows that its constraints leave.                                    *)
IsPolicy(p) ==
    /\ p.objects \subseteq Principal /\ p.scopes \subseteq Table
    /\ p.cols \in [p.scopes -> SUBSET Column] /\ p.rows \in [p.scopes -> SUBSET Row]

-------------------------------------------------------------------------------
(* Groups *)

(* The groups x is in, directly or through groups. *)
Containing(members, x) ==
    {g \in Group : \A S \in SUBSET Group :
        /\ \A h \in Group : <<x, h>> \in members => h \in S
        /\ \A e \in members : e[1] \in S => e[2] \in S
        => g \in S}

\* Mutant: groups in groups are not followed.
DirectMembers(s, group) == {x \in Identity \cup Group : <<x, group>> \in s.members}

(* get_members, __get_account_groups__: with the members of its groups. *)
ListedMembers(s, group) == {x \in Identity \cup Group : group \in Containing(s.members, x)}

(* lookup_object_id, get_user_groups: a service principal is looked for by *)
(* its application id, which no group lists.                               *)
GroupsOf(s, principal) ==
    {g \in s.groups \cap Group : /\ principal \in s.users \cup s.groups
                                 /\ principal \in ListedMembers(s, g)}

Membership(s, principal) == GroupsOf(s, principal) \cup {AccountUsers}
Assigned(s, principal)   == {principal} \cup Membership(s, principal)

-------------------------------------------------------------------------------
(* The access model: what a principal may do with an object *)

AllPrivileges  == {"ALL_PRIVILEGES"}
ReadPrivileges == {"SELECT"} \cup AllPrivileges
UseSchema      == {"USE_SCHEMA"} \cup AllPrivileges
UseCatalog     == {"USE_CATALOG"} \cup AllPrivileges

(* __search_privileges__ *)
Has(s, principal, object, privileges) ==
    \E g \in s.grants : g.grantee = principal /\ g.on = object /\ g.privilege \in privileges

InMaps(s, principal, object) == \E g \in s.grants : g.grantee = principal /\ g.on = object

(* __apply_privilege_inheritence__: usage of the schema is looked for on   *)
(* the schema if the principal has any privilege there, else on the object.*)
SchemaKey(s, principal, object) ==
    IF object \in Table /\ InMaps(s, principal, SchemaOf[object]) THEN SchemaOf[object] ELSE object

(* __get_user_key_permissions__: which of the three a principal has at an  *)
(* object; all privileges on the catalog, the schema or, without one on    *)
(* the schema, the table count as all three.                               *)
Needed == {"catalog", "schema", "read"}
KeyPermissions(s, principal, object) ==
    LET schemaKey == SchemaKey(s, principal, object)
        cascades  == Has(s, principal, Catalog, AllPrivileges) \/ Has(s, principal, schemaKey, AllPrivileges)
    IN  {n \in Needed :
            /\ InMaps(s, principal, object)
            /\ \/ cascades
               \/ n = "catalog" /\ Has(s, principal, Catalog, UseCatalog)
               \/ n = "schema"  /\ Has(s, principal, schemaKey, UseSchema)
               \/ n = "read"    /\ Has(s, principal, object, ReadPrivileges)}

\* Mutant: usage of the catalog is not asked for.
ReadsWithoutCatalog(s, principal, object) ==
    {"schema", "read"} \subseteq
        KeyPermissions(s, principal, object)
        \cup UNION {KeyPermissions(s, g, o) : g \in Membership(s, principal), o \in Above(object)}

(* __has_read_permissions__, __coalesce_user_group_permissions__: its own  *)
(* at the object, those of its groups at what contains it too.             *)
HasReadPermissions(s, principal, object) ==
    Needed \subseteq
        KeyPermissions(s, principal, object)
        \cup UNION {KeyPermissions(s, g, o) : g \in Membership(s, principal), o \in Above(object)}

-------------------------------------------------------------------------------
(* Column masks and row filters *)

(* __extract_group_from_mask_function__: UNMASK_FOR_GROUP, MASK_FOR_GROUP  *)
(* or UNSUPPORTED.  What follows THEN is taken whole, further WHENs        *)
(* included: it is the column only where there are none.                   *)
MaskGroup(mask)      == mask.whens[1].group
UnmaskForGroup(mask) == /\ mask.form = "case" /\ mask.otherwise # "column"
                        /\ Len(mask.whens) = 1 /\ mask.whens[1].then = "column"
MaskForGroup(mask)   == mask.form = "case" /\ mask.otherwise = "column"
SupportedMask(mask)  == UnmaskForGroup(mask) \/ MaskForGroup(mask)

\* Mutant: a mask that is not supported denies nothing.
DeniesSupported(mask, assigned) ==
    \/ UnmaskForGroup(mask) /\ MaskGroup(mask) \notin assigned
    \/ MaskForGroup(mask) /\ MaskGroup(mask) \in assigned

Denies(mask, assigned) ==
    \/ UnmaskForGroup(mask) /\ MaskGroup(mask) \notin assigned
    \/ MaskForGroup(mask) /\ MaskGroup(mask) \in assigned
    \/ ~SupportedMask(mask) /\ ColumnFallback # "grant"

DeniedColumns(s, principal, table) ==
    {m.column : m \in {m \in s.masks : m.table = table /\ Denies(m.body, Assigned(s, principal))}}

(* __get_column_constraints__: all columns, and those still to come, when *)
(* none of them is denied.                                                 *)
ColumnsLeft(s, principal, table) ==
    LET denied == DeniedColumns(s, principal, table)
    IN  IF ColumnSecurity /\ s.columns[table] \cap denied # {}
        THEN s.columns[table] \ denied ELSE Column

(* __extract_logic_from_row_filter__: a CASE without an ELSE, or without a *)
(* branch that the pattern takes, is not supported.                        *)
BranchesFound(filter) ==
    {i \in DOMAIN filter.whens :
        \/ filter.form = "if"
        \/ filter.form = "case" /\ filter.whens[i].read /\ filter.default # NoElse}
SupportedFilter(filter) == BranchesFound(filter) # {}

(* The whole of an IF loses its blanks, literals included (api.py:568).    *)
(* The patterns of CASE keep them, but end a condition at the first WHEN   *)
(* and the default at the first END, in a literal or a name as well        *)
(* (api.py:489, 507).                                                      *)
RowsRead(filter, i) ==
    LET condition == filter.whens[i].condition
    IN  Lets[IF filter.form = "if" THEN Bare[condition] ELSE UpToWhen[condition]]
DefaultRead(filter) ==
    Lets[IF filter.form = "if" THEN Bare[filter.default] ELSE UpToEnd[filter.default]]

\* Mutant: any branch will do.
FilterForAny(filter, assigned) ==
    LET mine == {i \in BranchesFound(filter) : filter.whens[i].group \in assigned}
    IN  {row \in Row : \/ mine = {} /\ row \in DefaultRead(filter)
                      \/ \E i \in mine : row \in RowsRead(filter, i)}

(* The first branch found for one of the groups. *)
FilterFor(filter, assigned) ==
    LET mine == {i \in BranchesFound(filter) : filter.whens[i].group \in assigned}
    IN  {row \in Row :
            \/ mine = {} /\ row \in DefaultRead(filter)
            \/ \E i \in mine : (\A j \in mine : i <= j) /\ row \in RowsRead(filter, i)}

(* __get_row_constraints__ *)
RowsOf(filter, assigned) ==
    {row \in Row : IF SupportedFilter(filter) THEN row \in FilterFor(filter, assigned)
                                             ELSE RowFallback = "grant"}

RowsLeft(s, principal, table) ==
    {row \in Row : RowSecurity => \A f \in s.filters :
        f.table = table => row \in RowsOf(f.body, Assigned(s, principal))}

-------------------------------------------------------------------------------
(* Readers and policies *)

(* __get_read_permissions__: whom a grant of the object itself makes a     *)
(* reader of it ("direct"), and with the members of these groups.          *)
DirectReaders(s, object) ==
    {p \in Principal : Has(s, p, object, ReadPrivileges) /\ HasReadPermissions(s, p, object)}

Identities(s) == s.users \cup s.servicePrincipals \cup (s.groups \cap EntraGroup)
Readers(s, object) ==
    DirectReaders(s, object)
    \cup {x \in Identities(s) : Membership(s, x) \cap DirectReaders(s, object) # {}}

\* Mutant: groups named in row filters only.
GroupsOfFilters(s, table) ==
    UNION {{f.body.whens[i].group : i \in BranchesFound(f.body)} :
              f \in {f \in s.filters : f.table = table}}

(* The groups that a supported mask or filter of the table names. *)
GroupsNamed(s, table) ==
    {MaskGroup(m.body) : m \in {m \in s.masks : m.table = table /\ SupportedMask(m.body)}}
    \cup UNION {{f.body.whens[i].group : i \in BranchesFound(f.body)} :
                   f \in {f \in s.filters : f.table = table}}

(* Looking up one that is neither listed nor granted anything raises. *)
Snapshot(s) == s.users \cup s.servicePrincipals \cup s.groups \cup {g.grantee : g \in s.grants}
SnapshotHasGroups(s) == \A t \in Table : GroupsNamed(s, t) \subseteq Snapshot(s)

(* __build_special_grants__, __get_all_read_permissions__,                 *)
(* __get_role_based_privileges__: where a principal has a policy.          *)
Items(s, principal) ==
    {o \in Object : principal \in DirectReaders(s, o)}
    \cup {t \in s.tables : principal \in GroupsNamed(s, t) /\ HasReadPermissions(s, principal, t)}

Scopes(s, principal) == {t \in s.tables : Above(t) \cap Items(s, principal) # {}}

\* Mutant: the groups among the members too.
AllMembers(s, principal) ==
    IF principal \in s.groups \cap Group THEN ListedMembers(s, principal)
    ELSE {principal} \cap Identities(s)

(* __build_role_policy: the members of a group that Entra knows. *)
PermissionObjects(s, principal) ==
    (IF principal \in s.groups \cap Group THEN ListedMembers(s, principal) ELSE {principal})
    \cap Identities(s)

RolePolicy(s, principal) ==
    [objects |-> PermissionObjects(s, principal),
     scopes  |-> Scopes(s, principal),
     cols    |-> [t \in Scopes(s, principal) |-> ColumnsLeft(s, principal, t)],
     rows    |-> [t \in Scopes(s, principal) |-> RowsLeft(s, principal, t)]]

BuildRoleBasedExport(s) ==
    {RolePolicy(s, p) : p \in {p \in Principal : Items(s, p) # {} /\ PermissionObjects(s, p) # {}}}

(* __build_policy__: a group without an id is left out; one that is not    *)
(* listed passes for a service principal.  Fabric opens everything under   *)
(* the object.                                                             *)
TablePolicy(s, object) ==
    LET scopes == {t \in Table : object \in Above(t)}
    IN  [objects |-> Readers(s, object) \ (s.groups \cap Group),
         scopes  |-> scopes,
         cols    |-> [t \in scopes |-> Column],
         rows    |-> [t \in scopes |-> Row]]

BuildTableBasedExport(s) ==
    {TablePolicy(s, o) : o \in {o \in Object : \E g \in s.grants : g.on = o}}
===============================================================================
