---------------------------- MODULE SnowflakeExport ----------------------------
(***************************************************************************)
(* The pure half of the Snowflake connector (plugins/snowflake/client.py   *)
(* and the parsers of api.py): from the rows its queries returned to the   *)
(* policies of the export, one per role or one per table.                  *)
(*                                                                         *)
(* A row filter is the set of rows it lets through: no row for DENYALL,    *)
(* every row where there is no constraint.  The SQL of a policy is kept as *)
(* its form, the roles it names and the conditions of its branches, each   *)
(* of them a text that the parsers change on the way: they delete blanks,  *)
(* and what looks like a keyword, wherever it stands.                      *)
(***************************************************************************)
EXTENDS Integers, Sequences

CONSTANTS
    User, Role,      \* names in Snowflake: a role may bear the name of a user
    Database, Schema, Table, Column, Row,
    Condition,       \* the texts of conditions, as written and as changed
    Lets,            \* the rows a condition lets through
    Bare,            \* a name or condition without its blanks
    Cut,             \* and without the letters CASE and END
    Found,           \* the conditions of a WHEN that the pattern takes
    None,            \* no ELSE
    SchemaOf,        \* the schema of a table
    EmailLogin,      \* the users whose login name is an email address
    Wanted,          \* the tables the configuration names, or all of them
    ColumnSecurity, RowSecurity,    \* the switches of the configuration
    ColumnFallback, RowFallback     \* "grant" or "deny"

ASSUME SnowflakeAssumption ==
    /\ SchemaOf \in [Table -> Schema]
    /\ EmailLogin \subseteq User
    /\ Wanted \subseteq Table
    /\ Database \notin Schema \cup Table
    /\ Schema \cap Table = {}
    /\ Lets \in [Condition -> SUBSET Row]
    /\ {"true", "false"} \subseteq Condition /\ Lets["true"] = Row /\ Lets["false"] = {}
    /\ \A change \in {Bare, Cut} :
           /\ DOMAIN change = Role \cup Condition
           /\ \A r \in Role : change[r] \in Role
           /\ \A c \in Condition : change[c] \in Condition
    /\ Found \subseteq Condition
    /\ None \notin Condition
    /\ {ColumnSecurity, RowSecurity} \subseteq BOOLEAN
    /\ {ColumnFallback, RowFallback} \subseteq {"grant", "deny"}

Grant == [grantee : Role, on : {Database} \cup Schema \cup Table,
          privilege : {"SELECT", "USAGE", "OWNERSHIP"}]

(* CASE WHEN CURRENT_ROLE() IN (groups) THEN then ... ELSE otherwise END.   *)
(* What is shown is the column itself, a text, or anything else, NULL for  *)
(* one.  "odd" is any other expression, "raises" one that breaks the       *)
(* parser.                                                                 *)
Value == {"column", "text", "else"}
Mask  == [form : {"case", "odd", "raises"},
          whens : Seq([groups : SUBSET Role, then : Value]), otherwise : Value]

(* "case" is CASE WHEN current_role() in (groups) THEN condition ... ELSE   *)
(* default END, in the letters of README.md:501; "spelled" tells whether a *)
(* later WHEN is in them too.  "in" is current_role() in (groups) and what *)
(* follows it: AND condition, with "false" for default, or OR default,     *)
(* with "true" for condition; a literal in it that is the name of a role   *)
(* is left out.                                                            *)
Branch    == [groups : SUBSET Role, condition : Condition, spelled : BOOLEAN]
RowPolicy == [form : {"in", "case", "odd", "raises"}, whens : Seq(Branch),
              default : Condition \cup {None}]

(* What a run may have fetched.  A pair <<grantee, role>> of roleGrants     *)
(* gives grantee all that role has.                                        *)
Snapshot ==
    [users       : SUBSET User,      \* the enabled ones
     roles       : SUBSET Role,
     roleGrants  : SUBSET (Role \X Role),
     userGrants  : SUBSET (User \X Role),
     grants      : SUBSET Grant,
     masks       : SUBSET [table : Table, column : Column, body : Mask],
     columns     : [Table -> SUBSET Column],
     rowPolicies : SUBSET [table : Table, body : RowPolicy],
     aggregation : SUBSET Table, join : SUBSET Table, projection : SUBSET Table]

(* What ACCOUNT_USAGE serves: masks are put on columns a table has. *)
Account == {a \in Snapshot : \A m \in a.masks : m.column \in a.columns[m.table]}

(* What a policy of the export opens, to whom: per table the columns and   *)
(* the rows that its constraints leave.                                    *)
IsPolicy(p) ==
    /\ p.users \subseteq EmailLogin /\ p.scopes \subseteq Wanted
    /\ p.cols \in [p.scopes -> SUBSET Column] /\ p.rows \in [p.scopes -> SUBSET Row]

-------------------------------------------------------------------------------
(* The hierarchy of roles *)

(* What from and the edges lead to. *)
Closure(edges, from) ==
    {r \in Role : \A S \in SUBSET Role :
        from \subseteq S /\ (\A e \in edges : e[1] \in S => e[2] \in S) => r \in S}

(* __get_user_role_assignment__: what a role inherits, or a user has,      *)
(* through roles that are listed.  A name is looked for among the roles    *)
(* first.                                                                  *)
RoleAssignments(s, name) ==
    LET given == IF name \in s.roles THEN s.roleGrants ELSE s.userGrants
    IN  Closure({e \in s.roleGrants : e[2] \in s.roles}, {r \in s.roles : <<name, r>> \in given})

Assigned(s, name) == {name} \cup RoleAssignments(s, name)

\* Mutant: the members of the roles that inherit this one are left out.
DirectMembers(s, role) == {u \in s.users : <<u, role>> \in s.userGrants}

(* __get_role_membership__: who has the role, or a role that inherits it. *)
MembersUser(s, role) ==
    LET above == Closure({<<e[2], e[1]>> : e \in s.roleGrants}, {role})
    IN  {u \in s.users : \E r \in above : <<u, r>> \in s.userGrants}

-------------------------------------------------------------------------------
(* The parsers of masks and row access policies *)

(* __process_masking_policy__: the list must hold one name, or THEN is not *)
(* where it is looked for.  The first WHEN and the last ELSE count, and    *)
(* what is not a text counts as the column, on the side of ELSE first.     *)
OneNamed(groups) == \E r \in Role : groups = {r}

\* Mutant: a list of several roles is taken apart.
MaskTypeOfLists(body) ==
    IF body.form # "case" \/ body.whens = <<>> THEN "UNSUPPORTED"
    ELSE IF body.otherwise # "text"            THEN "MASK_FOR_GROUP"
    ELSE IF Head(body.whens).then # "text"     THEN "UNMASK_FOR_GROUP"
    ELSE "UNSUPPORTED"

MaskType(body) ==
    IF body.form # "case" \/ body.whens = <<>> THEN "UNSUPPORTED"
    ELSE IF ~OneNamed(Head(body.whens).groups) THEN "UNSUPPORTED"
    ELSE IF body.otherwise # "text"            THEN "MASK_FOR_GROUP"
    ELSE IF Head(body.whens).then # "text"     THEN "UNMASK_FOR_GROUP"
    ELSE "UNSUPPORTED"
MaskGroups(body) == {Bare[r] : r \in Head(body.whens).groups}

(* __extract_case_when_logic_row_filter__ deletes the letters CASE and END  *)
(* of the whole text, names and literals included, after the blanks.  A    *)
(* WHEN its pattern does not take, it passes over: one with several roles, *)
(* one in other letters, a condition with a W in it or a D in front (the   *)
(* END of THEND is deleted).  That a condition holds an ELSE is left out.  *)
Squeezed(text) == Cut[Bare[text]]

BranchesFound(body) ==
    {i \in DOMAIN body.whens :
        body.form = "case" =>
            LET when == body.whens[i]
            IN  OneNamed(when.groups) /\ when.spelled /\ when.condition \in Found}

(* __extract_if_logic_row_filter__ (the "in" form): who is quoted is given *)
(* true, everybody else false, whatever follows the list.                  *)
GroupsRead(body, i) ==
    {IF body.form = "in" THEN Bare[r] ELSE Squeezed(r) : r \in body.whens[i].groups}
RowsRead(body, i) == IF body.form = "in" THEN Row ELSE Lets[Squeezed(body.whens[i].condition)]

(* Without an ELSE there is no condition: the agent raises when it comes   *)
(* to it (weaver.py:656), and nothing is let through.                      *)
DefaultRead(body) ==
    IF body.form = "in" \/ body.default = None THEN {} ELSE Lets[Squeezed(body.default)]

BranchesFor(body, roles) == {i \in BranchesFound(body) : GroupsRead(body, i) \cap roles # {}}
FirstRows(body, hit) ==
    {row \in Row : \E i \in hit : (\A j \in hit : i <= j) /\ row \in RowsRead(body, i)}

\* Mutant: no constraint for a role that no branch names.
FilterForNamed(body, roles) ==
    LET hit == BranchesFor(body, roles) IN IF hit = {} THEN Row ELSE FirstRows(body, hit)

(* A role's rows are those of the first branch for a role it has. *)
FilterFor(body, roles) ==
    LET hit == BranchesFor(body, roles)
    IN  IF hit = {} THEN DefaultRead(body) ELSE FirstRows(body, hit)

-------------------------------------------------------------------------------
(* Grants *)

Has(s, roles, object, privileges) ==
    \E g \in s.grants : g.grantee \in roles /\ g.on = object /\ g.privilege \in privileges

Read   == {"SELECT", "OWNERSHIP"}
Prereq == {"USAGE", "OWNERSHIP"}

(* __validate_table_grant__: the table only through a role it inherits. *)
ReadsByInheritance(s, role, table) ==
    ~Has(s, {role}, table, Read) /\ Has(s, RoleAssignments(s, role), table, Read)

(* The roles that supported policies of a table name. *)
GroupsOfMasks(s, table) ==
    {r \in Role : \E m \in s.masks :
        m.table = table /\ MaskType(m.body) # "UNSUPPORTED" /\ r \in MaskGroups(m.body)}
GroupsOfRowPolicies(s, table) ==
    {r \in Role : \E p \in s.rowPolicies :
        /\ p.table = table /\ p.body.form # "odd"
        /\ \E i \in BranchesFound(p.body) : r \in GroupsRead(p.body, i)}
GroupsNamed(s, table) == GroupsOfMasks(s, table) \cup GroupsOfRowPolicies(s, table)

(* __build_special_grants__: who is named in a policy and inherits the     *)
(* table gets a policy of his own.                                         *)
SpecialGrants(s) ==
    {g \in Role \X Table : /\ g[1] \in GroupsNamed(s, g[2]) \cap s.roles
                           /\ ReadsByInheritance(s, g[1], g[2])}

\* Mutant: the usage of the database is not asked for.
GrantsWithSchema(s) ==
    {g \in (Role \cap (s.roles \cup s.users)) \X Table :
        /\ Has(s, {g[1]}, g[2], Read) \/ g \in SpecialGrants(s)
        /\ Has(s, Assigned(s, g[1]), SchemaOf[g[2]], Prereq)}

(* __compute_valid_grants__, __validate_grant__: pairs of role and table. *)
ValidGrants(s) ==
    {g \in (Role \cap (s.roles \cup s.users)) \X Table :
        /\ Has(s, {g[1]}, g[2], Read) \/ g \in SpecialGrants(s)
        /\ Has(s, Assigned(s, g[1]), Database, Prereq)
        /\ Has(s, Assigned(s, g[1]), SchemaOf[g[2]], Prereq)}

-------------------------------------------------------------------------------
(* Policies.  tables: tables_with_masks, the columns of each that is listed *)

\* Mutant: members whose login name is no address are passed on.
MembersOf(s, grantee) == IF grantee \in s.users THEN {grantee} ELSE MembersUser(s, grantee)

(* __get_all_permission_objects__: the name is looked for among the users first. *)
PermissionObjects(s, grantee) ==
    EmailLogin \cap IF grantee \in s.users THEN {grantee} ELSE MembersUser(s, grantee)

Denies(body, roles) ==
    \/ MaskType(body) = "UNSUPPORTED"      /\ ColumnFallback # "grant"
    \/ MaskType(body) = "UNMASK_FOR_GROUP" /\ MaskGroups(body) \cap roles = {}
    \/ MaskType(body) = "MASK_FOR_GROUP"   /\ MaskGroups(body) \cap roles # {}

DeniedColumns(s, role, table) ==
    {m.column : m \in {m \in s.masks : m.table = table /\ Denies(m.body, Assigned(s, role))}}

(* __get_column_constraints__: none if no column that is listed is denied. *)
ColumnsLeft(s, tables, role, table) ==
    IF \/ ~ColumnSecurity
       \/ table \notin DOMAIN tables
       \/ tables[table] \cap DeniedColumns(s, role, table) = {}
    THEN Column
    ELSE tables[table] \ DeniedColumns(s, role, table)

Unsupported(s) == s.aggregation \cup s.join \cup s.projection

RowsOf(body, roles) ==
    IF body.form = "odd" THEN {row \in Row : RowFallback = "grant"} ELSE FilterFor(body, roles)

(* __get_row_constraints__: a table without a row access policy has none,  *)
(* before it is asked whether its other policies are supported.            *)
RowsLeft(s, role, table) ==
    {row \in Row : RowSecurity =>
        \A p \in s.rowPolicies : p.table = table =>
            IF table \in Unsupported(s) THEN RowFallback = "grant"
                                        ELSE row \in RowsOf(p.body, Assigned(s, role))}

(* _build_role_based_policy__ *)
BuildRoleBasedPolicy(s, tables, role) ==
    LET scopes == {t \in Table : <<role, t>> \in ValidGrants(s)}
    IN  [users  |-> PermissionObjects(s, role), scopes |-> scopes,
         cols   |-> [t \in scopes |-> ColumnsLeft(s, tables, role, t)],
         rows   |-> [t \in scopes |-> RowsLeft(s, role, t)]]
BuildRoleBasedExport(s, tables) ==
    {BuildRoleBasedPolicy(s, tables, role) :
        role \in {role \in s.roles \cap {g[1] : g \in ValidGrants(s)} : PermissionObjects(s, role) # {}}}

(* _build_table_based_policy__: everybody whom a grant on the table reaches. *)
BuildTableBasedPolicy(s, table) ==
    LET roles == {g[1] : g \in {g \in ValidGrants(s) : g[2] = table}}
    IN  [users  |-> UNION {PermissionObjects(s, role) : role \in roles}, scopes |-> {table},
         cols   |-> [t \in {table} |-> Column], rows |-> [t \in {table} |-> Row]]
BuildTableBasedExport(s) ==
    {BuildTableBasedPolicy(s, table) : table \in {g[2] : g \in ValidGrants(s)}}
===============================================================================
