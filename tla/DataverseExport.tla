--------------------------- MODULE DataverseExport ---------------------------
(***************************************************************************)
(* The pure half of the Dataverse connector (plugins/dataverse/client.py   *)
(* and the end of api.py): from the security metadata that was fetched to  *)
(* the policies of the export.  A role with a table at Basic depth, or     *)
(* whose principals have different field security profiles, becomes one    *)
(* policy per user; every other role becomes one policy.                   *)
(*                                                                         *)
(* A row filter is the set of rows it lets through, a row being its owner  *)
(* and its owning business unit.  Names of policies are left out.          *)
(***************************************************************************)
EXTENDS Integers, Sequences, FiniteSets, SequencesExt

CONSTANTS
    User, Team, SecurityRole, Unit, \* ids in Dataverse
    Table, Column, Profile,
    Privilege,       \* ids of read privileges
    None,            \* no business unit
    EntraId,         \* the users and teams that have an Entra object id
    Wanted,          \* the tables the configuration names, or all of them
    ColumnSecurity   \* config.constraints.columns.columnlevelsecurity

ASSUME DataverseAssumption ==
    /\ None \notin Unit
    /\ User \cap Team = {}
    /\ EntraId \subseteq User \cup Team
    /\ Wanted \subseteq Table
    /\ ColumnSecurity \in BOOLEAN

Depth == {"Unknown", "Basic", "Local", "Deep", "Global"}
Row   == (User \cup Team) \X Unit

(* What the Web API serves, and what a run has fetched of it: one field    *)
(* per collection.  A privilege is held by a role at one depth at most.    *)
Environment ==
    [units        : SUBSET [id : Unit, parent : Unit \cup {None}],
     users        : SUBSET User,            \* the enabled ones
     teams        : SUBSET Team,
     roles        : SUBSET [id : SecurityRole, unit : Unit \cup {None}],
     depths       : SUBSET [role : SecurityRole, privilege : Privilege, depth : Depth],
     privileges   : SUBSET [role : SecurityRole, privilege : Privilege, table : Table],
     userRoles    : SUBSET (User \X SecurityRole),
     teamRoles    : SUBSET (Team \X SecurityRole),
     members      : [Team -> SUBSET User],
     profiles     : SUBSET Profile,
     readable     : [Profile -> SUBSET (Table \X Column)],
     profileUsers : [Profile -> SUBSET User],
     profileTeams : [Profile -> SUBSET Team]]

IsPolicy(p) ==
    /\ p.role \in SecurityRole /\ p.users \subseteq User /\ p.groups \subseteq Team
    /\ p.cols \subseteq [profile : Profile, table : Table, columns : SUBSET Column]
    /\ DOMAIN p.rows \subseteq Table /\ \A t \in DOMAIN p.rows : p.rows[t] \subseteq Row

-------------------------------------------------------------------------------
(* api.py: the depth at which a role reads a table *)

Rank(depth) == CASE depth = "Basic" -> 1 [] depth = "Local" -> 2
                 [] depth = "Deep" -> 3 [] depth = "Global" -> 4 [] OTHER -> 0

(* A privilege whose depth was not served has the depth "Unknown". *)
DepthsOf(s, role, table) ==
    LET ids == {p.privilege : p \in {p \in s.privileges : p.role = role /\ p.table = table}}
        DepthsServed(id) == {d.depth : d \in {d \in s.depths : d.role = role /\ d.privilege = id}}
    IN  UNION {IF DepthsServed(id) = {} THEN {"Unknown"} ELSE DepthsServed(id) : id \in ids}

StrongestDepth(depths) == CHOOSE d \in depths : \A e \in depths : Rank(d) >= Rank(e)

(* __resolve_table_permissions__: the tables a role reads, and who has it. *)
Tables(s, role) == {t \in Wanted : DepthsOf(s, role, t) # {}}
Principals(s, role) ==
    IF Tables(s, role) = {} THEN {}
    ELSE {u \in s.users : <<u, role>> \in s.userRoles}
         \cup {t \in s.teams : <<t, role>> \in s.teamRoles}
DepthOf(s, role, table) == StrongestDepth(DepthsOf(s, role, table))
UnitOf(s, role) ==
    LET found == {r.unit : r \in {r \in s.roles : r.id = role}}
    IN  IF found = {} THEN None ELSE CHOOSE u \in found : TRUE

-------------------------------------------------------------------------------
(* client.py: rows *)

\* Mutant: the units right under it, and no further.
Children(s, unit) == ({unit} \cap Unit) \cup {x.id : x \in {x \in s.units : x.parent = unit}}

(* The smallest set that holds the unit and the children of its members. *)
Descendants(s, unit) ==
    IF unit = None THEN {}
    ELSE {b \in Unit :
            \A S \in SUBSET Unit :
                /\ unit \in S
                /\ \A x \in s.units : x.parent \in S => x.id \in S
                => b \in S}

(* __build_row_filter_condition__ *)
RowFilter(s, depth, unit, owners) ==
    CASE depth = "Global" -> Row
      [] depth = "Deep"   -> {r \in Row : r[2] \in Descendants(s, unit)}
      [] depth = "Local"  -> {r \in Row : r[2] = unit}
      [] depth = "Basic"  -> {r \in Row : r[1] \in owners}
      [] OTHER            -> {}

RowConstraints(s, role, owners) ==
    [t \in Tables(s, role) |-> RowFilter(s, DepthOf(s, role, t), UnitOf(s, role), owners)]

-------------------------------------------------------------------------------
(* client.py: columns *)

Coverage(s, profile) ==
    s.profileUsers[profile] \cup UNION {s.members[t] : t \in s.profileTeams[profile] \cap s.teams}
ProfilesOf(s, user) == {p \in s.profiles : user \in Coverage(s, p)}

(* Teams stand for their members. *)
Expanded(s, principals) ==
    (principals \cap User) \cup UNION {s.members[t] : t \in principals \cap Team}

(* __get_column_constraints_for_principals__ *)
ColumnConstraints(s, principals, tables) ==
    IF ~ColumnSecurity THEN {}
    ELSE {c \in [profile : s.profiles, table : tables, columns : SUBSET Column \ {{}}] :
            /\ Coverage(s, c.profile) \cap Expanded(s, principals) # {}
            /\ c.columns = {col \in Column : <<c.table, col>> \in s.readable[c.profile]}}

\* Mutant: teams are not expanded before their profiles are compared.
DivergentPrincipals(s, principals) ==
    \E u, v \in principals : ProfilesOf(s, u) # ProfilesOf(s, v)

(* __principals_have_divergent_cls__ *)
DivergentProfiles(s, principals) ==
    \E u, v \in Expanded(s, principals) : ProfilesOf(s, u) # ProfilesOf(s, v)

-------------------------------------------------------------------------------
(* client.py: policies *)

Resolvable(s) == s.users \cap EntraId

\* Mutant: the filter lists everybody who has the role.
OwnersTogether(s, principals, user) == {user} \cup principals

(* What a user owns through a role: what is his, and his teams' that have it. *)
OwnershipScope(s, principals, user) ==
    {user} \cup {t \in principals \cap s.teams : user \in s.members[t]}

(* What a role gives one of its users alone. *)
OwnPolicy(s, role, user, owners) ==
    [role |-> role, users |-> {user}, groups |-> {},
     cols |-> ColumnConstraints(s, {user}, Tables(s, role)),
     rows |-> RowConstraints(s, role, owners)]

UsersOf(s, role) == Expanded(s, Principals(s, role)) \cap Resolvable(s)

(* __build_per_principal_roles__: each user has the rows he owns. *)
PerPrincipalRoles(s, role) ==
    {OwnPolicy(s, role, u, OwnershipScope(s, Principals(s, role), u)) : u \in UsersOf(s, role)}

(* __build_per_principal_cls_roles__: no table is at Basic depth. *)
PerPrincipalClsRoles(s, role) == {OwnPolicy(s, role, u, {}) : u \in UsersOf(s, role)}

\* Mutant: whoever has an Entra id is taken for a group.
SharedRoleOfGroups(s, role) ==
    LET groups == Principals(s, role) \cap EntraId
    IN  IF groups = {} THEN {}
        ELSE {[role |-> role, users |-> {}, groups |-> groups,
               cols |-> ColumnConstraints(s, groups, Tables(s, role)),
               rows |-> RowConstraints(s, role, {})]}

(* __resolve_permission_object__: teams of Entra stay groups. *)
SharedRole(s, role) ==
    LET principals == Principals(s, role)
        groups     == principals \cap Team \cap EntraId
        users      == Expanded(s, principals \ groups) \cap Resolvable(s)
    IN  IF users \cup groups = {} THEN {}
        ELSE {[role |-> role, users |-> users, groups |-> groups,
               cols |-> ColumnConstraints(s, principals, Tables(s, role)),
               rows |-> RowConstraints(s, role, {})]}

HasBasicDepth(s, role) == \E t \in Tables(s, role) : DepthOf(s, role, t) = "Basic"

(* __build_role_based_export__ *)
PoliciesOf(s, role) ==
    CASE HasBasicDepth(s, role) -> PerPrincipalRoles(s, role)
      [] ~HasBasicDepth(s, role) /\ ColumnSecurity
         /\ DivergentProfiles(s, Principals(s, role)) -> PerPrincipalClsRoles(s, role)
      [] OTHER -> SharedRole(s, role)
BuildRoleBasedExport(s) ==
    UNION {PoliciesOf(s, role) : role \in {role \in SecurityRole : Principals(s, role) # {}}}

===============================================================================
