---------------------------- MODULE SnowflakeProofs ----------------------------
(***************************************************************************)
(* Theorems about SnowflakeConnector, for every account, every change to   *)
(* it between two queries, and every configuration.  The argument: what    *)
(* was fetched is made of accounts there were during the run (FetchedInv); *)
(* whoever the export lists for a role holds it, and all that it inherits  *)
(* (MembersHold); so whatever a policy of the export opens, one of those   *)
(* roles opens in Snowflake.                                               *)
(***************************************************************************)
EXTENDS SnowflakeConnector, TLAPS

-------------------------------------------------------------------------------
(* The hierarchy of roles *)

LEMMA ClosureContains ==
    ASSUME NEW edges, NEW from, from \subseteq Role
    PROVE  from \subseteq Closure(edges, from)
BY DEF Closure

LEMMA ClosureIsClosed ==
    ASSUME NEW edges, NEW from, NEW e \in edges, e[1] \in Closure(edges, from), e[2] \in Role
    PROVE  e[2] \in Closure(edges, from)
BY DEF Closure

LEMMA ClosureIsLeast ==
    ASSUME NEW edges, NEW from, NEW S \in SUBSET Role, from \subseteq S,
           \A e \in edges : e[1] \in S => e[2] \in S
    PROVE  Closure(edges, from) \subseteq S
BY DEF Closure

(* What a user holds in Snowflake: the roles he is given, and what a role  *)
(* he holds inherits.                                                      *)
LEMMA HeldContains ==
    ASSUME NEW u, NEW accounts, NEW r \in Role, <<u, r>> \in All("userGrants", accounts)
    PROVE  r \in Held(u, accounts)
BY ClosureContains DEF Held

LEMMA HeldIsClosed ==
    ASSUME NEW u, NEW accounts, NEW q \in Held(u, accounts), NEW r \in Role,
           <<q, r>> \in All("roleGrants", accounts)
    PROVE  r \in Held(u, accounts)
<1> DEFINE edge == <<q, r>>
<1>1. edge[1] = q /\ edge[2] = r /\ edge \in All("roleGrants", accounts)
  OBVIOUS
<1>2. edge[2] \in Closure(All("roleGrants", accounts), {x \in Role : <<u, x>> \in All("userGrants", accounts)})
  BY <1>1, ClosureIsClosed DEF Held
<1> QED BY <1>1, <1>2 DEF Held

(* What was fetched holds together with the accounts it came from. *)
From(s, accounts) ==
    /\ s.users \subseteq All("users", accounts)
    /\ s.roleGrants \subseteq All("roleGrants", accounts)
    /\ s.userGrants \subseteq All("userGrants", accounts)
    /\ s.grants \subseteq All("grants", accounts)

(* Whoever the connector counts among the members of a role holds it. *)
LEMMA MembersHoldRole ==
    ASSUME NEW s \in Snapshot, NEW accounts, From(s, accounts), NEW r \in Role,
           NEW u \in MembersUser(s, r)
    PROVE  r \in Held(u, accounts)
<1> DEFINE H == Held(u, accounts)
           up == {<<e[2], e[1]>> : e \in s.roleGrants}
           S  == {x \in Role : x \in H => r \in H}
<1>1. S \in SUBSET Role /\ {r} \subseteq S
  OBVIOUS
<1>2. ASSUME NEW f \in up, f[1] \in S PROVE f[2] \in S
  <2>1. PICK e \in s.roleGrants : f = <<e[2], e[1]>>
    OBVIOUS
  <2>2. e \in Role \X Role /\ e \in All("roleGrants", accounts)
    BY <2>1 DEF Snapshot, From
  <2>3. e[1] \in Role /\ e[2] \in Role /\ e = <<e[1], e[2]>>
    BY <2>2
  <2>4. f[1] = e[2] /\ f[2] = e[1]
    BY <2>1
  <2>5. e[1] \in H => e[2] \in H
    BY <2>2, <2>3, HeldIsClosed
  <2> QED BY <1>2, <2>3, <2>4, <2>5
<1>3. Closure(up, {r}) \subseteq S
  <2> HIDE DEF S, up
  <2> QED BY <1>1, <1>2, ClosureIsLeast
<1>4. PICK q \in Closure(up, {r}) : <<u, q>> \in s.userGrants
  BY DEF MembersUser
<1>5. q \in Role /\ <<u, q>> \in All("userGrants", accounts)
  BY <1>4 DEF Closure, From
<1>6. q \in H
  BY <1>5, HeldContains
<1> QED BY <1>3, <1>4, <1>6

(* And all that it inherits. *)
LEMMA MembersHold ==
    ASSUME NEW s \in Snapshot, NEW accounts, From(s, accounts), NEW r \in s.roles,
           NEW u \in MembersUser(s, r)
    PROVE  Assigned(s, r) \subseteq Held(u, accounts)
<1> DEFINE H     == Held(u, accounts)
           edges == {e \in s.roleGrants : e[2] \in s.roles}
           given == {x \in s.roles : <<r, x>> \in s.roleGrants}
<1>1. s.roles \subseteq Role /\ s.roleGrants \subseteq Role \X Role /\ H \in SUBSET Role
  BY DEF Snapshot, Held, Closure
<1>2. r \in H
  BY <1>1, MembersHoldRole
<1>3. given \subseteq H
  BY <1>1, <1>2, HeldIsClosed DEF From
<1>4. ASSUME NEW e \in edges, e[1] \in H PROVE e[2] \in H
  <2>1. e = <<e[1], e[2]>> /\ e[2] \in Role /\ e \in All("roleGrants", accounts)
    BY <1>1 DEF From
  <2> QED BY <1>4, <2>1, HeldIsClosed
<1>5. Closure(edges, given) \subseteq H
  <2> HIDE DEF H, edges, given
  <2> QED BY <1>1, <1>3, <1>4, ClosureIsLeast
<1>6. RoleAssignments(s, r) = Closure(edges, given)
  BY DEF RoleAssignments
<1> QED BY <1>2, <1>5, <1>6 DEF Assigned

-------------------------------------------------------------------------------
(* Types *)

LEMMA SnapshotFields ==
    ASSUME NEW s \in Snapshot
    PROVE  /\ s.users \subseteq User /\ s.roles \subseteq Role
           /\ s.roleGrants \subseteq Role \X Role /\ s.userGrants \subseteq User \X Role
           /\ s.grants \subseteq Grant
           /\ \A m \in s.masks : m.table \in Table /\ m.column \in Column /\ m.body \in Mask
           /\ s.columns \in [Table -> SUBSET Column]
           /\ \A p \in s.rowPolicies : p.table \in Table /\ p.body \in RowPolicy
           /\ s.aggregation \subseteq Table /\ s.join \subseteq Table /\ s.projection \subseteq Table
<1> HIDE DEF Grant, Mask, RowPolicy
<1> QED BY DEF Snapshot

(* A listed table is one the configuration wants. *)
WantedOnly(s) == \A g \in s.grants : g.on \in Table => g.on \in Wanted

LEMMA ValidGrantsType ==
    ASSUME NEW s \in Snapshot, WantedOnly(s), NEW g \in ValidGrants(s)
    PROVE  g[1] \in Role /\ g[2] \in Table /\ g[2] \in Wanted
<1>1. g[1] \in Role /\ g[2] \in Table
  BY DEF ValidGrants
<1>2. \E roles : Has(s, roles, g[2], Read)
  BY DEF ValidGrants, SpecialGrants, ReadsByInheritance
<1> QED BY <1>1, <1>2 DEF Has, WantedOnly

Tables == UNION {[T -> SUBSET Column] : T \in SUBSET Table}

LEMMA TablesType ==
    ASSUME NEW tables \in Tables
    PROVE  DOMAIN tables \subseteq Table /\ \A t \in DOMAIN tables : tables[t] \subseteq Column
BY DEF Tables

LEMMA ColumnsLeftType ==
    ASSUME NEW s, NEW tables \in Tables, NEW role, NEW t
    PROVE  ColumnsLeft(s, tables, role, t) \subseteq Column
BY TablesType DEF ColumnsLeft

LEMMA RowsLeftType ==
    ASSUME NEW s, NEW role, NEW t
    PROVE  RowsLeft(s, role, t) \subseteq Row
BY DEF RowsLeft

LEMMA MembersType ==
    ASSUME NEW s, NEW name
    PROVE  PermissionObjects(s, name) \subseteq EmailLogin
BY DEF PermissionObjects

LEMMA RoleBasedType ==
    ASSUME NEW s \in Snapshot, WantedOnly(s), NEW tables \in Tables,
           NEW p \in BuildRoleBasedExport(s, tables)
    PROVE  IsPolicy(p)
<1>1. PICK role : p = BuildRoleBasedPolicy(s, tables, role)
  BY DEF BuildRoleBasedExport
<1> DEFINE scopes == {t \in Table : <<role, t>> \in ValidGrants(s)}
<1>2. p = [users |-> PermissionObjects(s, role), scopes |-> scopes,
           cols |-> [t \in scopes |-> ColumnsLeft(s, tables, role, t)],
           rows |-> [t \in scopes |-> RowsLeft(s, role, t)]]
  BY <1>1 DEF BuildRoleBasedPolicy
<1>3. scopes \subseteq Wanted
  <2> SUFFICES ASSUME NEW t \in Table, <<role, t>> \in ValidGrants(s) PROVE t \in Wanted
    OBVIOUS
  <2>1. <<role, t>>[2] \in Wanted
    BY ValidGrantsType
  <2> QED BY <2>1
<1> HIDE DEF scopes
<1>4. p.cols \in [scopes -> SUBSET Column] /\ p.rows \in [scopes -> SUBSET Row]
  BY <1>2, ColumnsLeftType, RowsLeftType
<1>5. p.users \subseteq EmailLogin /\ p.scopes = scopes
  BY <1>2, MembersType
<1> QED BY <1>3, <1>4, <1>5 DEF IsPolicy

LEMMA TableBasedType ==
    ASSUME NEW s \in Snapshot, WantedOnly(s), NEW p \in BuildTableBasedExport(s)
    PROVE  IsPolicy(p)
<1>1. PICK g \in ValidGrants(s) : p = BuildTableBasedPolicy(s, g[2])
  BY DEF BuildTableBasedExport
<1>2. g[2] \in Wanted
  BY ValidGrantsType
<1>3. p.users \subseteq EmailLogin
  BY <1>1, MembersType DEF BuildTableBasedPolicy
<1>4. p.scopes = {g[2]} /\ p.cols \in [{g[2]} -> SUBSET Column] /\ p.rows \in [{g[2]} -> SUBSET Row]
  BY <1>1 DEF BuildTableBasedPolicy
<1> QED BY <1>2, <1>3, <1>4 DEF IsPolicy

(* The type invariant is inductive together with the shapes of what the    *)
(* run has in hand.                                                        *)
TypeInv ==
    /\ TypeOK
    /\ WantedOnly(map)
    /\ tablesWithMasks \in Tables

LEMMA TypeInit == Init => TypeInv
<1> SUFFICES ASSUME Init PROVE TypeInv
  OBVIOUS
<1>1. map \in Snapshot /\ WantedOnly(map)
  BY DEF Init, NothingFetched, Snapshot, WantedOnly
<1>2. tablesWithMasks \in Tables
  BY DEF Init, Tables
<1>3. sf \in Account /\ pc \in Resting /\ todo = {} /\ roleBased \in BOOLEAN /\ export = {}
      /\ seen = {} /\ refused \in BOOLEAN
  BY ConnectorAssumption DEF Init, Resting
<1> QED BY <1>1, <1>2, <1>3, TablesType DEF TypeInv, TypeOK

LEMMA Queries ==
    /\ Whole = {"users", "roles", "roleGrants", "userGrants", "grants", "masks",
                "rowPolicies", "aggregation", "join", "projection"}
    /\ \A q \in DOMAIN Following :
           /\ Following[q] \in DOMAIN Following \cup {"export"}
           /\ Following[q] = "maskColumns" <=> q = "masks"
           /\ Following[q] = "rowColumns" <=> q = "rowPolicies"
BY DEF Whole, Following, PerPolicy

(* A query replaces one collection by rows of the account. *)
LEMMA RunQueryType ==
    ASSUME TypeInv, RunQuery
    PROVE  map' \in Snapshot /\ WantedOnly(map')
<1>1. sf \in Snapshot /\ map \in Snapshot /\ WantedOnly(map)
  BY DEF TypeInv, TypeOK, Account
<1>2. map' = [map EXCEPT ![pc] = Result(pc)]
  BY DEF RunQuery
<1> HIDE DEF Grant, Mask, RowPolicy
<1>3. CASE pc = "users"
  BY <1>1, <1>2, <1>3 DEF Snapshot, WantedOnly, Result
<1>4. CASE pc = "roles"
  BY <1>1, <1>2, <1>4 DEF Snapshot, WantedOnly, Result
<1>5. CASE pc = "roleGrants"
  BY <1>1, <1>2, <1>5 DEF Snapshot, WantedOnly, Result
<1>6. CASE pc = "userGrants"
  BY <1>1, <1>2, <1>6 DEF Snapshot, WantedOnly, Result
<1>7. CASE pc = "grants"
  BY <1>1, <1>2, <1>7 DEF Snapshot, WantedOnly, Result
<1>8. CASE pc = "masks"
  BY <1>1, <1>2, <1>8 DEF Snapshot, WantedOnly, Result
<1>9. CASE pc = "rowPolicies"
  BY <1>1, <1>2, <1>9 DEF Snapshot, WantedOnly, Result
<1>10. CASE pc \in {"aggregation", "join", "projection"}
  BY <1>1, <1>2, <1>10 DEF Snapshot, WantedOnly, Result
<1> QED BY <1>3, <1>4, <1>5, <1>6, <1>7, <1>8, <1>9, <1>10, Queries DEF RunQuery

LEMMA TypeNext == TypeInv /\ [Next]_vars => TypeInv'
<1> SUFFICES ASSUME TypeInv, [Next]_vars PROVE TypeInv'
  OBVIOUS
<1>1. /\ sf \in Account /\ map \in Snapshot /\ WantedOnly(map) /\ tablesWithMasks \in Tables
      /\ pc \in Resting \cup DOMAIN Following \cup {"export"} /\ roleBased \in BOOLEAN
      /\ todo \subseteq map.masks \cup map.rowPolicies
      /\ refused \in BOOLEAN /\ seen \subseteq Account /\ \A p \in export : IsPolicy(p)
  BY DEF TypeInv, TypeOK
<1>2. ASSUME WantedOnly(map'), tablesWithMasks' \in Tables, sf' \in Account, map' \in Snapshot,
             pc' \in Resting \cup DOMAIN Following \cup {"export"}, roleBased' \in BOOLEAN,
             todo' \subseteq map'.masks \cup map'.rowPolicies, refused' \in BOOLEAN,
             seen' \subseteq Account, \A p \in export' : IsPolicy(p)
      PROVE  TypeInv'
  BY <1>2, TablesType DEF TypeInv, TypeOK
<1>3. CASE MapPolicy
  <2>1. NothingFetched \in Snapshot /\ WantedOnly(NothingFetched)
    BY DEF NothingFetched, Snapshot, WantedOnly
  <2>2. [t \in {} |-> {}] \in Tables
    BY DEF Tables
  <2>3. "users" \in DOMAIN Following
    BY DEF Following
  <2> QED BY <1>1, <1>2, <1>3, <2>1, <2>2, <2>3 DEF MapPolicy
<1>4. CASE RunQuery
  <2>1. pc' \in DOMAIN Following \cup {"export"}
    BY <1>4, Queries DEF RunQuery, Whole
  <2>2. todo' \subseteq map'.masks \cup map'.rowPolicies
    <3>1. CASE pc' \in PerPolicy
      <4>1. pc \in {"masks", "rowPolicies"} /\ todo' = map'[pc]
        BY <1>4, <3>1, Queries DEF RunQuery, Whole, PerPolicy
      <4> QED BY <4>1
    <3>2. CASE pc' \notin PerPolicy
      BY <1>4, <3>2 DEF RunQuery
    <3> QED BY <3>1, <3>2
  <2> QED BY <1>1, <1>2, <1>4, <2>1, <2>2, RunQueryType DEF RunQuery
<1>5. CASE FetchColumns
  <2>1. PICK p \in todo : /\ todo' = todo \ {p}
                          /\ tablesWithMasks' =
                                IF pc = "rowColumns" \/ p.table \in DOMAIN tablesWithMasks
                                THEN tablesWithMasks
                                ELSE [t \in DOMAIN tablesWithMasks \cup {p.table} |->
                                        IF t = p.table THEN sf.columns[t] ELSE tablesWithMasks[t]]
    BY <1>5 DEF FetchColumns
  <2>2. p.table \in Table
    BY <1>1, SnapshotFields
  <2>3. sf.columns \in [Table -> SUBSET Column]
    BY <1>1, SnapshotFields DEF Account
  <2>4. tablesWithMasks' \in Tables
    <3>1. DOMAIN tablesWithMasks \cup {p.table} \subseteq Table
      BY <1>1, <2>2, TablesType
    <3>2. \A t \in DOMAIN tablesWithMasks : tablesWithMasks[t] \subseteq Column
      BY <1>1, TablesType
    <3> QED BY <1>1, <2>1, <2>3, <3>1, <3>2 DEF Tables
  <2> QED BY <1>1, <1>2, <1>5, <2>1, <2>4 DEF FetchColumns
<1>6. CASE PoliciesDone
  <2>1. pc' \in DOMAIN Following \cup {"export"}
    BY <1>6, Queries DEF PoliciesDone, PerPolicy, Following
  <2> QED BY <1>1, <1>2, <1>6, <2>1 DEF PoliciesDone
<1>7. CASE Export
  <2>1. \A p \in export' : IsPolicy(p)
    BY <1>1, <1>7, RoleBasedType, TableBasedType DEF Export
  <2> QED BY <1>1, <1>2, <1>7, <2>1 DEF Export, Resting
<1>8. CASE QueryFails \/ ParserRaises
  BY <1>1, <1>2, <1>8 DEF QueryFails, ParserRaises, Resting
<1>9. CASE SourceChanges
  <2>1. sf' \in Account
    BY <1>9, ConnectorAssumption DEF SourceChanges
  <2> QED BY <1>1, <1>2, <1>9, <2>1 DEF SourceChanges
<1>10. CASE UNCHANGED vars
  BY <1>1, <1>2, <1>10 DEF vars
<1> QED BY <1>3, <1>4, <1>5, <1>6, <1>7, <1>8, <1>9, <1>10 DEF Next

(* Every variable keeps its type, for any constants that satisfy the       *)
(* assumptions: policies name wanted tables and users with an address.     *)
THEOREM TypeCorrect == Spec => []TypeOK
<1>1. TypeInv => TypeOK
  BY DEF TypeInv
<1> QED BY <1>1, TypeInit, TypeNext, PTL DEF Spec

-------------------------------------------------------------------------------
(* What a run has fetched *)

AfterProjection  == {"export", "exported"}
AfterJoin        == {"projection"} \cup AfterProjection
AfterAggregation == {"join"} \cup AfterJoin
AfterRowPolicies == {"rowColumns", "aggregation"} \cup AfterAggregation
AfterMasks       == {"maskColumns", "rowPolicies"} \cup AfterRowPolicies

(* Policies, unlike grants, are those of a single moment: the constraints  *)
(* of a table are compared with what one account had.                      *)
PoliciesOfOneMoment ==
    /\ pc \in AfterMasks       => \E a \in seen : map.masks = a.masks
    /\ pc \in AfterRowPolicies => \E a \in seen : map.rowPolicies = a.rowPolicies
    /\ pc \in AfterAggregation => \E a \in seen : map.aggregation = a.aggregation
    /\ pc \in AfterJoin        => \E a \in seen : map.join = a.join
    /\ pc \in AfterProjection  => \E a \in seen : map.projection = a.projection

MaskedTablesListed ==
    /\ pc \in AfterMasks =>
           \A m \in map.masks : m.table \in DOMAIN tablesWithMasks \/ (pc = "maskColumns" /\ m \in todo)
    /\ \A t \in DOMAIN tablesWithMasks : \E a \in seen : tablesWithMasks[t] = a.columns[t]

FetchedInv ==
    /\ From(map, seen)
    /\ pc \notin Resting => sf \in seen
    /\ PoliciesOfOneMoment
    /\ MaskedTablesListed
    /\ pc = "exported" => export = IF roleBased THEN BuildRoleBasedExport(map, tablesWithMasks)
                                                ELSE BuildTableBasedExport(map)

LEMMA FetchedInit == Init => FetchedInv
<1> SUFFICES ASSUME Init PROVE FetchedInv
  OBVIOUS
<1>1. From(map, seen)
  BY DEF Init, NothingFetched, From
<1>2. pc = "ready" /\ DOMAIN tablesWithMasks = {}
  BY DEF Init
<1> QED BY <1>1, <1>2 DEF FetchedInv, PoliciesOfOneMoment, MaskedTablesListed, Resting, AfterMasks,
           AfterRowPolicies, AfterAggregation, AfterJoin, AfterProjection

LEMMA FromMore ==
    ASSUME NEW s, NEW A, NEW B, A \subseteq B, From(s, A)
    PROVE  From(s, B)
BY DEF From, All

(* A query adds rows of an account that is among those seen. *)
LEMMA RunQueryFetches ==
    ASSUME TypeInv, FetchedInv, RunQuery
    PROVE  FetchedInv'
<1> HIDE DEF Grant, Mask, RowPolicy
<1>1. sf \in seen /\ From(map, seen) /\ map \in Snapshot
  BY DEF FetchedInv, RunQuery, Whole, Following, Resting, TypeInv, TypeOK
<1>2. map' = [map EXCEPT ![pc] = Result(pc)] /\ pc' = Following[pc] /\ pc \in Whole
  BY DEF RunQuery
<1>3. UNCHANGED <<sf, tablesWithMasks, roleBased, export, seen>>
  BY DEF RunQuery
<1>4. From(map', seen)
  <2>1. Result(pc) \subseteq sf[pc]
    BY DEF Result
  <2>2. /\ map.users \subseteq All("users", seen) /\ map.roleGrants \subseteq All("roleGrants", seen)
        /\ map.userGrants \subseteq All("userGrants", seen) /\ map.grants \subseteq All("grants", seen)
    BY <1>1 DEF From
  <2>3. /\ sf.users \subseteq All("users", seen) /\ sf.roleGrants \subseteq All("roleGrants", seen)
        /\ sf.userGrants \subseteq All("userGrants", seen) /\ sf.grants \subseteq All("grants", seen)
    BY <1>1 DEF All
  <2>4. map'.users \subseteq All("users", seen)
    BY <1>1, <1>2, <2>1, <2>2, <2>3 DEF Snapshot
  <2>5. map'.roleGrants \subseteq All("roleGrants", seen)
    BY <1>1, <1>2, <2>1, <2>2, <2>3 DEF Snapshot
  <2>6. map'.userGrants \subseteq All("userGrants", seen)
    BY <1>1, <1>2, <2>1, <2>2, <2>3 DEF Snapshot
  <2>7. map'.grants \subseteq All("grants", seen)
    BY <1>1, <1>2, <2>1, <2>2, <2>3 DEF Snapshot
  <2> QED BY <2>4, <2>5, <2>6, <2>7 DEF From
<1>5. PoliciesOfOneMoment'
  <2> USE DEF AfterMasks, AfterRowPolicies, AfterAggregation, AfterJoin, AfterProjection
  <2>1. PoliciesOfOneMoment
    BY DEF FetchedInv
  <2>2. CASE pc \in {"users", "roles", "roleGrants", "userGrants", "grants"}
    BY <1>2, <2>2 DEF Following, PoliciesOfOneMoment
  <2>3. CASE pc = "masks"
    BY <1>1, <1>2, <1>3, <2>3 DEF Following, PoliciesOfOneMoment, Snapshot, Result
  <2>4. CASE pc = "rowPolicies"
    BY <1>1, <1>2, <1>3, <2>1, <2>4 DEF Following, PoliciesOfOneMoment, Snapshot, Result
  <2>5. CASE pc = "aggregation"
    BY <1>1, <1>2, <1>3, <2>1, <2>5 DEF Following, PoliciesOfOneMoment, Snapshot, Result
  <2>6. CASE pc = "join"
    BY <1>1, <1>2, <1>3, <2>1, <2>6 DEF Following, PoliciesOfOneMoment, Snapshot, Result
  <2>7. CASE pc = "projection"
    BY <1>1, <1>2, <1>3, <2>1, <2>7 DEF Following, PoliciesOfOneMoment, Snapshot, Result
  <2> QED BY <1>2, <2>2, <2>3, <2>4, <2>5, <2>6, <2>7, Queries
<1>6. MaskedTablesListed'
  <2> USE DEF AfterMasks, AfterRowPolicies, AfterAggregation, AfterJoin, AfterProjection
  <2>1. MaskedTablesListed
    BY DEF FetchedInv
  <2>2. CASE pc \in {"users", "roles", "roleGrants", "userGrants", "grants"}
    BY <1>2, <1>3, <2>1, <2>2 DEF Following, MaskedTablesListed
  <2>3. CASE pc = "masks"
    <3>1. pc' = "maskColumns" /\ todo' = map'.masks
      BY <1>2, <2>3 DEF RunQuery, Following, PerPolicy
    <3> QED BY <1>3, <2>1, <3>1 DEF MaskedTablesListed
  <2>4. CASE pc \in {"rowPolicies", "aggregation", "join", "projection"}
    <3>1. map'.masks = map.masks /\ pc \in AfterMasks /\ pc # "maskColumns"
      BY <1>1, <1>2, <2>4 DEF Snapshot
    <3> QED BY <1>3, <2>1, <3>1 DEF MaskedTablesListed
  <2> QED BY <1>2, <2>2, <2>3, <2>4, Queries
<1>7. pc' # "exported" /\ (pc' \notin Resting => sf' \in seen')
  BY <1>1, <1>2, <1>3, Queries DEF Following, Whole
<1> QED BY <1>3, <1>4, <1>5, <1>6, <1>7 DEF FetchedInv

LEMMA FetchedNext == TypeInv /\ FetchedInv /\ [Next]_vars => FetchedInv'
<1> SUFFICES ASSUME TypeInv, FetchedInv, [Next]_vars PROVE FetchedInv'
  OBVIOUS
<1>1. /\ From(map, seen) /\ (pc \notin Resting => sf \in seen)
      /\ PoliciesOfOneMoment /\ MaskedTablesListed
      /\ map \in Snapshot
  BY DEF FetchedInv, TypeInv, TypeOK
<1> USE DEF AfterMasks, AfterRowPolicies, AfterAggregation, AfterJoin, AfterProjection
<1>2. CASE MapPolicy
  <2>1. map' = NothingFetched /\ pc' = "users" /\ DOMAIN tablesWithMasks' = {}
        /\ seen' = {sf} /\ sf' = sf
    BY <1>2 DEF MapPolicy
  <2>2. From(map', seen')
    BY <2>1 DEF From, NothingFetched
  <2> QED BY <2>1, <2>2 DEF FetchedInv, PoliciesOfOneMoment, MaskedTablesListed
<1>3. CASE RunQuery
  BY <1>3, RunQueryFetches
<1>4. CASE FetchColumns
  <2>1. PICK p \in todo : /\ todo' = todo \ {p}
                          /\ tablesWithMasks' =
                                IF pc = "rowColumns" \/ p.table \in DOMAIN tablesWithMasks
                                THEN tablesWithMasks
                                ELSE [t \in DOMAIN tablesWithMasks \cup {p.table} |->
                                        IF t = p.table THEN sf.columns[t] ELSE tablesWithMasks[t]]
    BY <1>4 DEF FetchColumns
  <2>2. pc \in PerPolicy /\ sf \in seen /\ UNCHANGED <<sf, pc, map, roleBased, export, seen>>
    BY <1>1, <1>4 DEF FetchColumns, PerPolicy, Resting
  <2>3. \A t \in DOMAIN tablesWithMasks' : \E a \in seen : tablesWithMasks'[t] = a.columns[t]
    <3>1. CASE pc = "rowColumns" \/ p.table \in DOMAIN tablesWithMasks
      BY <1>1, <2>1, <3>1 DEF MaskedTablesListed
    <3>2. CASE ~(pc = "rowColumns" \/ p.table \in DOMAIN tablesWithMasks)
      <4>1. tablesWithMasks' = [t \in DOMAIN tablesWithMasks \cup {p.table} |->
                                   IF t = p.table THEN sf.columns[t] ELSE tablesWithMasks[t]]
        BY <2>1, <3>2
      <4> QED BY <1>1, <2>2, <4>1 DEF MaskedTablesListed
    <3> QED BY <3>1, <3>2
  <2>4. ASSUME NEW m \in map.masks, pc \in AfterMasks
        PROVE  m.table \in DOMAIN tablesWithMasks' \/ (pc = "maskColumns" /\ m \in todo')
    <3>1. DOMAIN tablesWithMasks \subseteq DOMAIN tablesWithMasks'
      BY <2>1
    <3>2. pc = "maskColumns" => p.table \in DOMAIN tablesWithMasks'
      BY <2>1
    <3>3. m.table \in DOMAIN tablesWithMasks \/ (pc = "maskColumns" /\ m \in todo)
      BY <1>1, <2>4 DEF MaskedTablesListed
    <3> QED BY <2>1, <3>1, <3>2, <3>3
  <2>5. MaskedTablesListed'
    BY <2>2, <2>3, <2>4 DEF MaskedTablesListed
  <2> QED BY <1>1, <2>2, <2>5 DEF FetchedInv, PoliciesOfOneMoment, PerPolicy
<1>5. CASE PoliciesDone
  <2>1. \/ pc = "maskColumns" /\ pc' = "rowPolicies"
        \/ pc = "rowColumns" /\ pc' = "aggregation"
    BY <1>5 DEF PoliciesDone, PerPolicy, Following
  <2>2. todo = {} /\ UNCHANGED <<sf, todo, map, tablesWithMasks, roleBased, export, seen>>
    BY <1>5 DEF PoliciesDone
  <2>3. MaskedTablesListed'
    BY <1>1, <2>1, <2>2 DEF MaskedTablesListed
  <2>4. PoliciesOfOneMoment'
    BY <1>1, <2>1, <2>2 DEF PoliciesOfOneMoment
  <2> QED BY <1>1, <2>1, <2>2, <2>3, <2>4 DEF FetchedInv, Resting
<1>6. CASE Export
  <2>1. pc = "export" /\ pc' = "exported"
        /\ UNCHANGED <<sf, todo, map, tablesWithMasks, roleBased, seen>>
    BY <1>6 DEF Export
  <2>2. export' = IF roleBased THEN BuildRoleBasedExport(map, tablesWithMasks)
                               ELSE BuildTableBasedExport(map)
    BY <1>6 DEF Export
  <2>3. PoliciesOfOneMoment' /\ MaskedTablesListed'
    BY <1>1, <2>1 DEF PoliciesOfOneMoment, MaskedTablesListed
  <2> QED BY <1>1, <2>1, <2>2, <2>3 DEF FetchedInv, Resting
<1>7. CASE QueryFails \/ ParserRaises
  <2>1. pc' = "failed" /\ UNCHANGED <<sf, todo, map, tablesWithMasks, roleBased, export, seen>>
    BY <1>7 DEF QueryFails, ParserRaises
  <2>2. PoliciesOfOneMoment' /\ MaskedTablesListed'
    BY <1>1, <2>1 DEF PoliciesOfOneMoment, MaskedTablesListed
  <2> QED BY <1>1, <2>1, <2>2 DEF FetchedInv, Resting
<1>8. CASE SourceChanges
  <2>1. seen \subseteq seen' /\ (pc \notin Resting => sf' \in seen')
        /\ UNCHANGED <<pc, todo, map, tablesWithMasks, roleBased, export>>
    BY <1>8 DEF SourceChanges
  <2>2. From(map', seen')
    BY <1>1, <2>1, FromMore
  <2>3. PoliciesOfOneMoment'
    BY <1>1, <2>1 DEF PoliciesOfOneMoment
  <2>4. MaskedTablesListed'
    BY <1>1, <2>1 DEF MaskedTablesListed
  <2>5. (pc = "exported" => export = IF roleBased THEN BuildRoleBasedExport(map, tablesWithMasks)
                                                  ELSE BuildTableBasedExport(map))'
    BY <2>1 DEF FetchedInv
  <2> QED BY <2>1, <2>2, <2>3, <2>4, <2>5 DEF FetchedInv
<1>9. CASE UNCHANGED vars
  BY <1>1, <1>9 DEF vars, FetchedInv, PoliciesOfOneMoment, MaskedTablesListed
<1> QED BY <1>2, <1>3, <1>4, <1>5, <1>6, <1>7, <1>8, <1>9 DEF Next

-------------------------------------------------------------------------------
(* What an export opens *)

(* Whoever a valid grant is exported to reads its table in Snowflake. *)
LEMMA ValidGrantsAreHeld ==
    ASSUME NEW s \in Snapshot, NEW accounts, From(s, accounts), NamesApart(accounts),
           NEW g \in ValidGrants(s), NEW u \in PermissionObjects(s, g[1])
    PROVE  /\ g[1] \in s.roles
           /\ Assigned(s, g[1]) \subseteq Held(u, accounts)
           /\ MayRead(Held(u, accounts), g[2], accounts)
<1>1. g[1] \in Role /\ g[1] \in s.roles \cup s.users
  BY DEF ValidGrants
<1>2. g[1] \notin s.users
  BY <1>1 DEF From, NamesApart
<1>3. g[1] \in s.roles /\ u \in MembersUser(s, g[1])
  BY <1>1, <1>2 DEF PermissionObjects
<1>4. Assigned(s, g[1]) \subseteq Held(u, accounts)
  BY <1>3, MembersHold
<1>5. ASSUME NEW roles, NEW object, NEW privileges, Has(s, roles, object, privileges),
             roles \subseteq Assigned(s, g[1])
      PROVE  Permits(Held(u, accounts), object, privileges, accounts)
  BY <1>4, <1>5 DEF Has, Permits, From
<1>6. {g[1]} \subseteq Assigned(s, g[1]) /\ RoleAssignments(s, g[1]) \subseteq Assigned(s, g[1])
  BY DEF Assigned
<1>7. Has(s, {g[1]}, g[2], Read) \/ Has(s, RoleAssignments(s, g[1]), g[2], Read)
  BY DEF ValidGrants, SpecialGrants, ReadsByInheritance
<1>8. Permits(Held(u, accounts), g[2], Read, accounts)
  BY <1>5, <1>6, <1>7
<1>9. Permits(Held(u, accounts), SchemaOf[g[2]], Prereq, accounts)
  BY <1>5 DEF ValidGrants
<1>10. Permits(Held(u, accounts), Database, Prereq, accounts)
  BY <1>5 DEF ValidGrants
<1> QED BY <1>3, <1>4, <1>8, <1>9, <1>10 DEF MayRead

LEMMA RoleBasedPolicies ==
    ASSUME NEW s \in Snapshot, NEW tables, NEW p \in BuildRoleBasedExport(s, tables),
           NEW t \in p.scopes, NEW u \in p.users
    PROVE  \E role : /\ <<role, t>> \in ValidGrants(s)
                     /\ u \in PermissionObjects(s, role)
                     /\ t \in Table
                     /\ p.cols[t] = ColumnsLeft(s, tables, role, t)
                     /\ p.rows[t] = RowsLeft(s, role, t)
<1>1. PICK role : p = BuildRoleBasedPolicy(s, tables, role)
  BY DEF BuildRoleBasedExport
<1> QED BY <1>1 DEF BuildRoleBasedPolicy

LEMMA TableBasedPolicies ==
    ASSUME NEW s \in Snapshot, NEW p \in BuildTableBasedExport(s), NEW t \in p.scopes, NEW u \in p.users
    PROVE  \E g \in ValidGrants(s) : g[2] = t /\ u \in PermissionObjects(s, g[1])
<1>1. PICK table : p = BuildTableBasedPolicy(s, table)
  BY DEF BuildTableBasedExport
<1>2. t = table
  BY <1>1 DEF BuildTableBasedPolicy
<1> QED BY <1>1, <1>2 DEF BuildTableBasedPolicy

LEMMA TablesFollow == TypeInv /\ FetchedInv => NoTablesGained
<1> SUFFICES ASSUME TypeInv, FetchedInv, Settled, NamesApart(seen),
                    NEW u \in User, NEW t \in Table, NEW p \in PoliciesFor(u, t)
             PROVE  MayRead(Held(u, seen), t, seen)
  BY DEF NoTablesGained
<1>1. map \in Snapshot /\ From(map, seen)
  BY DEF TypeInv, TypeOK, FetchedInv
<1>2. p \in export /\ u \in p.users /\ t \in p.scopes
  BY DEF PoliciesFor
<1>3. CASE roleBased
  <2>1. p \in BuildRoleBasedExport(map, tablesWithMasks)
    BY <1>2, <1>3 DEF FetchedInv, Settled
  <2>2. PICK role : <<role, t>> \in ValidGrants(map) /\ u \in PermissionObjects(map, role)
    BY <1>1, <1>2, <2>1, RoleBasedPolicies
  <2>3. <<role, t>>[1] = role /\ <<role, t>>[2] = t
    OBVIOUS
  <2> QED BY <1>1, <2>2, <2>3, ValidGrantsAreHeld
<1>4. CASE ~roleBased
  <2>1. p \in BuildTableBasedExport(map)
    BY <1>2, <1>4 DEF FetchedInv, Settled
  <2>2. PICK g \in ValidGrants(map) : g[2] = t /\ u \in PermissionObjects(map, g[1])
    BY <1>1, <1>2, <2>1, TableBasedPolicies
  <2> QED BY <1>1, <2>2, ValidGrantsAreHeld
<1> QED BY <1>3, <1>4

(* Nobody is given a table that no combination of the accounts there were  *)
(* during the run let him read, in both mappings.                          *)
THEOREM TablesAreHeld == Spec => []NoTablesGained
BY TypeInit, TypeNext, FetchedInit, FetchedNext, TablesFollow, PTL DEF Spec

-------------------------------------------------------------------------------
(* What the constraints leave *)

(* What a role and those it inherits are shown together, one of them is    *)
(* shown on its own.                                                       *)
LEMMA BranchesAreFound ==
    ASSUME NEW body, body.form \in {"in", "case"}, AsDocumented(body), TextStands(body)
    PROVE  /\ BranchesFound(body) = DOMAIN body.whens
           /\ \A i \in DOMAIN body.whens : /\ GroupsRead(body, i) = body.whens[i].groups
                                          /\ RowsRead(body, i) \subseteq Lets[body.whens[i].condition]
           /\ DefaultRead(body) \subseteq IF body.default = None THEN {} ELSE Lets[body.default]
<1>1. CASE body.form = "in"
  BY <1>1, SnowflakeAssumption DEF AsDocumented, TextStands, BranchesFound, RowsRead, DefaultRead
<1>2. CASE body.form = "case"
  BY <1>2 DEF AsDocumented, TextStands, Stands, BranchesFound, RowsRead, DefaultRead
<1> QED BY <1>1, <1>2

LEMMA RowsOfOneRole ==
    ASSUME NEW body \in RowPolicy, AsDocumented(body), TextStands(body), NEW roles, roles # {},
           NEW row \in RowsOf(body, roles)
    PROVE  \E r \in roles : row \in RowsShown(body, r)
<1>1. CASE body.form = "odd"
  BY <1>1 DEF RowsOf, RowsShown
<1>2. CASE body.form # "odd"
  <2> DEFINE hit     == BranchesFor(body, roles)
             mine(r) == {i \in DOMAIN body.whens : r \in body.whens[i].groups}
             default == IF body.default = None THEN {} ELSE Lets[body.default]
  <2>1. row \in FilterFor(body, roles)
    BY <1>2 DEF RowsOf
  <2>2. body.form \in {"in", "case"}
    BY <1>2 DEF RowPolicy, AsDocumented
  <2>3. /\ BranchesFound(body) = DOMAIN body.whens
        /\ \A i \in DOMAIN body.whens : /\ GroupsRead(body, i) = body.whens[i].groups
                                       /\ RowsRead(body, i) \subseteq Lets[body.whens[i].condition]
        /\ DefaultRead(body) \subseteq default
    BY <2>2, BranchesAreFound
  <2>4. \A r \in roles : mine(r) \subseteq hit
    BY <2>3 DEF BranchesFor
  <2>5. CASE hit = {}
    <3>1. row \in default
      BY <2>1, <2>3, <2>5 DEF FilterFor
    <3>2. PICK r \in roles : mine(r) = {}
      BY <2>4, <2>5
    <3>3. RowsShown(body, r) = default
      BY <1>2, <3>2 DEF RowsShown, FirstBranch
    <3> QED BY <3>1, <3>3
  <2>6. CASE hit # {}
    <3>1. PICK i \in hit : (\A j \in hit : i <= j) /\ row \in RowsRead(body, i) /\ row \in Row
      BY <2>1, <2>6 DEF FilterFor, FirstRows
    <3>2. i \in DOMAIN body.whens /\ row \in Lets[body.whens[i].condition]
      BY <2>3, <3>1 DEF BranchesFor
    <3>3. PICK r \in roles : r \in body.whens[i].groups
      BY <2>3, <3>1, <3>2 DEF BranchesFor
    <3>4. i \in mine(r) /\ \A j \in mine(r) : i <= j
      BY <2>4, <3>1, <3>2, <3>3
    <3>5. row \in FirstBranch(body, r)
      BY <3>1, <3>2, <3>4 DEF FirstBranch
    <3> QED BY <1>2, <3>5 DEF RowsShown
  <2> QED BY <2>5, <2>6
<1> QED BY <1>1, <1>2

LEMMA RowsFollow == TypeInv /\ FetchedInv => NoRowsGained
<1> SUFFICES ASSUME TypeInv, FetchedInv, Settled, roleBased, RowSecurity, NamesApart(seen),
                    TablesAsDocumented(seen), FiltersAsDocumented(seen), TextsStand(seen),
                    NEW u \in User, NEW t \in Table, NEW p \in PoliciesFor(u, t), NEW row \in p.rows[t]
             PROVE  row \in RowsInSnowflake(u, t, seen)
  BY DEF NoRowsGained, RowsExported
<1>1. map \in Snapshot /\ From(map, seen)
  BY DEF TypeInv, TypeOK, FetchedInv
<1>2. p \in export /\ u \in p.users /\ t \in p.scopes
  BY DEF PoliciesFor
<1>3. p \in BuildRoleBasedExport(map, tablesWithMasks)
  BY <1>2 DEF FetchedInv, Settled
<1>4. PICK role : <<role, t>> \in ValidGrants(map) /\ u \in PermissionObjects(map, role)
                  /\ p.rows[t] = RowsLeft(map, role, t)
  BY <1>1, <1>2, <1>3, RoleBasedPolicies
<1>5. Assigned(map, role) \subseteq Held(u, seen) /\ Assigned(map, role) # {}
  <2>1. <<role, t>>[1] = role
    OBVIOUS
  <2> QED BY <1>1, <1>4, <2>1, ValidGrantsAreHeld DEF Assigned
<1>6. /\ \E a \in seen : map.rowPolicies = a.rowPolicies
      /\ \E a \in seen : map.aggregation = a.aggregation
      /\ \E a \in seen : map.join = a.join
      /\ \E a \in seen : map.projection = a.projection
  BY DEF FetchedInv, PoliciesOfOneMoment, Settled, AfterRowPolicies, AfterAggregation, AfterJoin,
         AfterProjection
<1>7. PICK a \in seen : map.rowPolicies = a.rowPolicies
  BY <1>6
<1>8. row \in Row /\ \A q \in a.rowPolicies : q.table = t =>
          IF t \in Unsupported(map) THEN RowFallback = "grant"
                                    ELSE row \in RowsOf(q.body, Assigned(map, role))
  BY <1>4, <1>7 DEF RowsLeft
<1>9. AllAlong(t, seen) => t \in Unsupported(map)
  <2> SUFFICES ASSUME NEW k \in UnsupportedKinds, \A b \in seen : t \in b[k]
               PROVE  t \in Unsupported(map)
    BY DEF AllAlong
  <2>1. CASE k = "aggregation"
    BY <1>6, <2>1 DEF Unsupported
  <2>2. CASE k = "join"
    BY <1>6, <2>2 DEF Unsupported
  <2>3. CASE k = "projection"
    BY <1>6, <2>3 DEF Unsupported
  <2> QED BY <2>1, <2>2, <2>3 DEF UnsupportedKinds
<1>10. t \in Unsupported(map) => NowAndThen(t, seen)
  BY <1>6 DEF Unsupported, NowAndThen, UnsupportedKinds
<1>11. CASE \A q \in a.rowPolicies : q.table # t
  <2>1. t \notin Unsupported(a)
    BY <1>11 DEF TablesAsDocumented
  <2>2. ~AllAlong(t, seen)
    BY <2>1 DEF AllAlong, UnsupportedKinds, Unsupported
  <2> QED BY <1>8, <1>11, <2>2 DEF RowsInSnowflake
<1>12. CASE t \in Unsupported(map) /\ \E q \in a.rowPolicies : q.table = t
  BY <1>8, <1>10, <1>12 DEF RowsInSnowflake
<1>13. CASE t \notin Unsupported(map)
  <2>1. ASSUME NEW q \in a.rowPolicies, q.table = t
        PROVE  \E r \in Held(u, seen) : row \in RowsShown(q.body, r)
    <3>1. q.body \in RowPolicy
      BY <1>1, <1>7, SnapshotFields
    <3>2. AsDocumented(q.body) /\ TextStands(q.body)
      BY DEF FiltersAsDocumented, TextsStand
    <3>3. row \in RowsOf(q.body, Assigned(map, role))
      BY <1>8, <1>13, <2>1
    <3>4. \E r \in Assigned(map, role) : row \in RowsShown(q.body, r)
      BY <1>5, <3>1, <3>2, <3>3, RowsOfOneRole
    <3> QED BY <1>5, <3>4
  <2> QED BY <1>8, <1>9, <1>13, <2>1 DEF RowsInSnowflake
<1> QED BY <1>11, <1>12, <1>13

(* Nobody is given rows that no combination of the accounts there were     *)
(* during the run let him read, by the role-based mapping.                 *)
THEOREM RowsAreHeld == Spec => []NoRowsGained
BY TypeInit, TypeNext, FetchedInit, FetchedNext, RowsFollow, PTL DEF Spec

LEMMA ColumnsOfOneRole ==
    ASSUME NEW body \in Mask,
           \/ Unreadable(body)
           \/ Documented(body) /\ MaskGroups(body) = Head(body.whens).groups,
           NEW roles, NEW role \in roles, ~Denies(body, roles)
    PROVE  \E r \in roles : Shows(body, r)
<1>1. CASE Unreadable(body)
  <2>1. MaskType(body) = "UNSUPPORTED"
    BY <1>1 DEF Unreadable, MaskType
  <2>2. ~Documented(body)
    <3>1. CASE body.whens = <<>>
      BY <3>1 DEF Documented
    <3>2. CASE body.whens # <<>>
      <4> DEFINE when == Head(body.whens)
      <4>1. body.form # "case" \/ ~OneNamed(when.groups)
            \/ (when.then = "text" /\ body.otherwise = "text")
        BY <1>1, <3>2 DEF Unreadable
      <4> HIDE DEF when
      <4>2. CASE when.then = "text" /\ body.otherwise = "text"
        <5>1. "column" \notin {when.then, body.otherwise}
          BY <4>2
        <5> QED BY <5>1 DEF Documented, when
      <4> QED BY <4>1, <4>2 DEF Documented, when
    <3> QED BY <3>1, <3>2
  <2> QED BY <2>1, <2>2 DEF Denies, Shows
<1>2. CASE Documented(body) /\ MaskGroups(body) = Head(body.whens).groups
  <2> DEFINE when == Head(body.whens)
  <2>1. body.form = "case" /\ body.whens # <<>> /\ OneNamed(when.groups)
        /\ \/ when.then = "column" /\ body.otherwise = "text"
           \/ when.then = "text" /\ body.otherwise = "column"
    <3>1. body.form = "case" /\ Len(body.whens) = 1 /\ OneNamed(when.groups)
          /\ {when.then, body.otherwise} = {"column", "text"}
      BY <1>2 DEF Documented
    <3>2. body.whens # <<>>
      BY <3>1
    <3> HIDE DEF when
    <3>3. \/ when.then = "column" /\ body.otherwise = "text"
          \/ when.then = "text" /\ body.otherwise = "column"
      BY <3>1
    <3> QED BY <3>1, <3>2, <3>3
  <2> HIDE DEF when
  <2>2. CASE when.then = "column" /\ body.otherwise = "text"
    <3>1. MaskType(body) = "UNMASK_FOR_GROUP"
      BY <2>1, <2>2 DEF MaskType, when
    <3>2. PICK r \in roles : r \in when.groups
      BY <1>2, <3>1 DEF Denies, when
    <3> QED BY <1>2, <2>2, <3>2 DEF Shows, when
  <2>3. CASE when.then = "text" /\ body.otherwise = "column"
    <3>1. MaskType(body) = "MASK_FOR_GROUP"
      BY <2>1, <2>3 DEF MaskType, when
    <3>2. role \notin when.groups
      BY <1>2, <3>1 DEF Denies, when
    <3> QED BY <1>2, <2>3, <3>2 DEF Shows, when
  <2> QED BY <2>1, <2>2, <2>3
<1> QED BY <1>1, <1>2

LEMMA ColumnsFollow == TypeInv /\ FetchedInv => NoColumnsGained
<1> SUFFICES ASSUME TypeInv, FetchedInv, Settled, roleBased, ColumnSecurity, NamesApart(seen),
                    MasksAsDocumented(seen), ColumnsStand(seen),
                    NEW u \in User, NEW t \in Table, NEW p \in PoliciesFor(u, t), NEW c \in p.cols[t]
             PROVE  c \in ColumnsInSnowflake(u, t, seen)
  BY DEF NoColumnsGained, ColumnsExported
<1>1. map \in Snapshot /\ From(map, seen) /\ tablesWithMasks \in Tables /\ seen \subseteq Account
  BY DEF TypeInv, TypeOK, FetchedInv
<1>2. p \in export /\ u \in p.users /\ t \in p.scopes
  BY DEF PoliciesFor
<1>3. p \in BuildRoleBasedExport(map, tablesWithMasks)
  BY <1>2 DEF FetchedInv, Settled
<1>4. PICK role : <<role, t>> \in ValidGrants(map) /\ u \in PermissionObjects(map, role)
                  /\ p.cols[t] = ColumnsLeft(map, tablesWithMasks, role, t)
  BY <1>1, <1>2, <1>3, RoleBasedPolicies
<1>5. Assigned(map, role) \subseteq Held(u, seen) /\ role \in Assigned(map, role)
  <2>1. <<role, t>>[1] = role
    OBVIOUS
  <2> QED BY <1>1, <1>4, <2>1, ValidGrantsAreHeld DEF Assigned
<1>6. PICK a \in seen : map.masks = a.masks
  BY DEF FetchedInv, PoliciesOfOneMoment, Settled, AfterMasks, AfterRowPolicies, AfterAggregation,
         AfterJoin, AfterProjection
<1>7. c \in Column
  BY <1>1, <1>4, ColumnsLeftType
<1>8. ASSUME NEW m \in a.masks, m.table = t, m.column = c
      PROVE  \E r \in Held(u, seen) : Shows(m.body, r)
  <2>1. t \in DOMAIN tablesWithMasks
    BY <1>6, <1>8 DEF FetchedInv, MaskedTablesListed, Settled, AfterMasks, AfterRowPolicies,
       AfterAggregation, AfterJoin, AfterProjection
  <2>2. PICK b \in seen : tablesWithMasks[t] = b.columns[t]
    BY <2>1 DEF FetchedInv, MaskedTablesListed
  <2>3. c \in tablesWithMasks[t]
    BY <1>1, <1>8, <2>2 DEF ColumnsStand, Account
  <2>4. c \notin DeniedColumns(map, role, t)
    BY <1>4, <2>1, <2>3 DEF ColumnsLeft
  <2>5. ~Denies(m.body, Assigned(map, role))
    BY <1>6, <1>8, <2>4 DEF DeniedColumns
  <2>6. m.body \in Mask
    BY <1>1, <1>6, SnapshotFields
  <2>7. \/ Unreadable(m.body)
        \/ Documented(m.body) /\ MaskGroups(m.body) = Head(m.body.whens).groups
    BY <1>6 DEF MasksAsDocumented
  <2>8. \E r \in Assigned(map, role) : Shows(m.body, r)
    BY <1>5, <2>5, <2>6, <2>7, ColumnsOfOneRole
  <2> QED BY <1>5, <2>8
<1> QED BY <1>7, <1>8 DEF ColumnsInSnowflake

(* Nor columns, as long as the tables keep theirs during the run. *)
THEOREM ColumnsAreHeld == Spec => []NoColumnsGained
BY TypeInit, TypeNext, FetchedInit, FetchedNext, ColumnsFollow, PTL DEF Spec

-------------------------------------------------------------------------------
(* Nothing is lost: the account stays as it is *)

(* s is what an account a has, but for grants on tables that are not wanted. *)
WantedGrants(a) == {g \in a.grants : g.on \in Table => g.on \in Wanted}

Copies(s, a) ==
    /\ s.users = a.users /\ s.roles = a.roles
    /\ s.roleGrants = a.roleGrants /\ s.userGrants = a.userGrants
    /\ s.grants = WantedGrants(a)
    /\ s.masks = a.masks /\ s.rowPolicies = a.rowPolicies
    /\ Unsupported(s) = Unsupported(a)

LEMMA AllOfOne == \A a, field : All(field, {a}) = a[field]
BY DEF All

(* Whoever holds a role is found among its members: the search goes up     *)
(* from the role along the edges by which the user's roles lead down to it. *)
LEMMA HoldersAreMembers ==
    ASSUME NEW s \in Snapshot, NEW a, Copies(s, a), NEW u \in s.users, NEW r \in Held(u, {a})
    PROVE  u \in MembersUser(s, r)
<1> DEFINE up      == {<<e[2], e[1]>> : e \in s.roleGrants}
           above(x) == Closure(up, {x})
           S       == {x \in Role : \E q \in above(x) : <<u, q>> \in s.userGrants}
           given   == {x \in Role : <<u, x>> \in s.userGrants}
<1>1. Held(u, {a}) = Closure(s.roleGrants, given)
  BY AllOfOne DEF Held, Copies
<1>2. given \subseteq S
  <2> SUFFICES ASSUME NEW x \in given PROVE x \in S
    OBVIOUS
  <2>1. x \in above(x)
    <3> HIDE DEF up
    <3> QED BY ClosureContains
  <2> QED BY <2>1
<1>3. ASSUME NEW e \in s.roleGrants, e[1] \in S PROVE e[2] \in S
  <2>1. e[1] \in Role /\ e[2] \in Role
    BY SnapshotFields
  <2>2. above(e[1]) \subseteq above(e[2])
    <3> DEFINE f == <<e[2], e[1]>>
    <3>1. f \in up /\ f[1] = e[2] /\ f[2] = e[1]
      OBVIOUS
    <3> HIDE DEF up, f
    <3>2. e[2] \in above(e[2])
      BY <2>1, ClosureContains
    <3> DEFINE A == above(e[2])
    <3>3. {e[1]} \subseteq A
      BY <2>1, <3>1, <3>2, ClosureIsClosed
    <3>4. \A g \in up : g[1] \in A => g[2] \in A
      <4>1. \A g \in up : g[2] \in Role
        BY SnapshotFields DEF up
      <4> QED BY <4>1, ClosureIsClosed
    <3>5. A \in SUBSET Role
      BY DEF Closure
    <3> HIDE DEF A
    <3>6. Closure(up, {e[1]}) \subseteq A
      BY <3>3, <3>4, <3>5, ClosureIsLeast
    <3> QED BY <3>6 DEF A
  <2> HIDE DEF above
  <2> QED BY <1>3, <2>1, <2>2
<1>4. Closure(s.roleGrants, given) \subseteq S
  <2>1. S \in SUBSET Role
    OBVIOUS
  <2> HIDE DEF S, given
  <2> QED BY <1>2, <1>3, <2>1, ClosureIsLeast
<1>5. \E q \in above(r) : <<u, q>> \in s.userGrants
  BY <1>1, <1>4
<1> QED BY <1>5 DEF MembersUser

LEMMA AssignedIsActive ==
    ASSUME NEW s \in Snapshot, NEW a, Copies(s, a), NEW r \in s.roles
    PROVE  Assigned(s, r) = Active(r, a)
<1> DEFINE edges == {e \in s.roleGrants : e[2] \in s.roles}
           given == {x \in s.roles : <<r, x>> \in s.roleGrants}
<1>1. s.roles \subseteq Role /\ s.roleGrants \subseteq Role \X Role /\ r \in Role
  BY SnapshotFields
<1>2. Active(r, a) = Closure(edges, {r}) /\ Assigned(s, r) = {r} \cup Closure(edges, given)
  BY DEF Active, Assigned, RoleAssignments, Copies
<1>3. \A e \in edges : e[1] \in Role /\ e[2] \in Role /\ e = <<e[1], e[2]>>
  BY <1>1
<1>4. given \subseteq Role /\ \A x \in given : <<r, x>> \in edges
  BY <1>1
<1>5. \A e \in edges : e[1] = r => e[2] \in given
  BY <1>3
<1> HIDE DEF edges, given
<1>6. r \in Closure(edges, {r})
  BY <1>1, ClosureContains
<1>7. given \subseteq Closure(edges, {r})
  <2> SUFFICES ASSUME NEW x \in given PROVE x \in Closure(edges, {r})
    OBVIOUS
  <2> DEFINE e == <<r, x>>
  <2>1. e \in edges /\ e[1] = r /\ e[2] = x /\ x \in Role
    BY <1>4
  <2> HIDE DEF e
  <2> QED BY <1>6, <2>1, ClosureIsClosed
<1>8. Closure(edges, given) \subseteq Closure(edges, {r})
  <2>1. \A e \in edges : e[1] \in Closure(edges, {r}) => e[2] \in Closure(edges, {r})
    BY <1>3, ClosureIsClosed
  <2>2. Closure(edges, {r}) \in SUBSET Role
    BY DEF Closure
  <2> QED BY <1>7, <2>1, <2>2, ClosureIsLeast
<1>9. Closure(edges, {r}) \subseteq {r} \cup Closure(edges, given)
  <2> DEFINE S == {r} \cup Closure(edges, given)
  <2>1. S \in SUBSET Role /\ {r} \subseteq S
    BY <1>1 DEF Closure
  <2>2. given \subseteq Closure(edges, given)
    BY <1>4, ClosureContains
  <2>3. \A e \in edges : e[1] \in S => e[2] \in S
    BY <1>3, <1>5, <2>2, ClosureIsClosed
  <2> HIDE DEF S
  <2>4. Closure(edges, {r}) \subseteq S
    BY <2>1, <2>3, ClosureIsLeast
  <2> QED BY <2>4 DEF S
<1> QED BY <1>2, <1>6, <1>8, <1>9

LEMMA HasIsPermits ==
    ASSUME NEW s \in Snapshot, NEW a, Copies(s, a), NEW roles, NEW privileges,
           NEW object \in Wanted \cup Schema \cup {Database}
    PROVE  Has(s, roles, object, privileges) <=> Permits(roles, object, privileges, {a})
<1>1. object \in Table => object \in Wanted
  BY SnowflakeAssumption
<1>2. \A g : g \in s.grants /\ g.on = object <=> g \in a.grants /\ g.on = object
  BY <1>1 DEF Copies, WantedGrants
<1>3. All("grants", {a}) = a.grants
  BY AllOfOne
<1> QED BY <1>2, <1>3 DEF Has, Permits

(* A grant is valid just when its role may read the table by itself, and   *)
(* has it by a grant of its own or is named in a policy of it.             *)
LEMMA ValidIsReadable ==
    ASSUME NEW s \in Snapshot, NEW a, Copies(s, a), NEW r \in s.roles, NEW t \in Wanted
    PROVE  <<r, t>> \in ValidGrants(s) <=>
               /\ Permits({r}, t, Read, {a}) \/ r \in GroupsNamed(a, t)
               /\ MayRead(Active(r, a), t, {a})
<1> DEFINE g == <<r, t>>
<1>1. g[1] = r /\ g[2] = t /\ r \in Role /\ t \in Table /\ SchemaOf[t] \in Schema
      /\ g \in (Role \cap (s.roles \cup s.users)) \X Table
  BY SnapshotFields, SnowflakeAssumption
<1>2. Assigned(s, r) = Active(r, a) /\ Active(r, a) = {r} \cup RoleAssignments(s, r)
  BY AssignedIsActive DEF Assigned
<1>3. GroupsNamed(s, t) = GroupsNamed(a, t)
  BY DEF GroupsNamed, GroupsOfMasks, GroupsOfRowPolicies, Copies
<1>4. \A roles : Has(s, roles, t, Read) <=> Permits(roles, t, Read, {a})
  BY HasIsPermits
<1>5. /\ Has(s, Active(r, a), SchemaOf[t], Prereq) <=> Permits(Active(r, a), SchemaOf[t], Prereq, {a})
      /\ Has(s, Active(r, a), Database, Prereq) <=> Permits(Active(r, a), Database, Prereq, {a})
  BY <1>1, HasIsPermits
<1>6. Permits(Active(r, a), t, Read, {a})
      <=> Permits({r}, t, Read, {a}) \/ Permits(RoleAssignments(s, r), t, Read, {a})
  BY <1>2 DEF Permits
<1>7. g \in SpecialGrants(s) <=> /\ r \in GroupsNamed(s, t)
                                 /\ ~Has(s, {r}, t, Read) /\ Has(s, RoleAssignments(s, r), t, Read)
  <2>1. g \in Role \X Table
    BY <1>1
  <2> QED BY <1>1, <2>1 DEF SpecialGrants, ReadsByInheritance
<1>8. g \in ValidGrants(s) <=> /\ Has(s, {r}, t, Read) \/ g \in SpecialGrants(s)
                               /\ Has(s, Assigned(s, r), Database, Prereq)
                               /\ Has(s, Assigned(s, r), SchemaOf[t], Prereq)
  <2> HIDE DEF g
  <2> QED BY <1>1 DEF ValidGrants
<1> QED BY <1>2, <1>3, <1>4, <1>5, <1>6, <1>7, <1>8 DEF MayRead

(* In both mappings, who is given a policy of a table. *)
LEMMA GivenAlike ==
    ASSUME NEW s \in Snapshot, NEW a, Copies(s, a), s.users \cap Role = {},
           NEW u \in s.users \cap EmailLogin, NEW t \in Wanted, NEW r \in Role
    PROVE  <<r, t>> \in ValidGrants(s) /\ u \in PermissionObjects(s, r)
           <=> /\ r \in Held(u, {a}) \cap a.roles
               /\ Permits({r}, t, Read, {a}) \/ r \in GroupsNamed(a, t)
               /\ MayRead(Active(r, a), t, {a})
<1> DEFINE g == <<r, t>>
<1>1. g[1] = r /\ r \notin s.users /\ s.roles = a.roles
  BY DEF Copies
<1>2. g \in ValidGrants(s) => r \in s.roles
  BY <1>1 DEF ValidGrants
<1>3. u \in PermissionObjects(s, r) <=> u \in MembersUser(s, r)
  BY <1>1 DEF PermissionObjects
<1>4. u \in MembersUser(s, r) <=> r \in Held(u, {a})
  <2>1. From(s, {a})
    BY AllOfOne DEF From, Copies, WantedGrants
  <2> QED BY <2>1, MembersHoldRole, HoldersAreMembers
<1>5. r \in s.roles => (g \in ValidGrants(s) <=>
               /\ Permits({r}, t, Read, {a}) \/ r \in GroupsNamed(a, t)
               /\ MayRead(Active(r, a), t, {a}))
  BY ValidIsReadable
<1> QED BY <1>1, <1>2, <1>3, <1>4, <1>5

LEMMA RoleBasedPolicyOf ==
    ASSUME NEW s \in Snapshot, NEW tables, NEW r \in s.roles, NEW t \in Table, NEW u,
           <<r, t>> \in ValidGrants(s), u \in PermissionObjects(s, r)
    PROVE  \E p \in BuildRoleBasedExport(s, tables) :
               u \in p.users /\ t \in p.scopes /\ p.rows[t] = RowsLeft(s, r, t)
<1> DEFINE p == BuildRoleBasedPolicy(s, tables, r)
           g == <<r, t>>
<1>1. r \in {x[1] : x \in ValidGrants(s)}
  <2>1. g \in ValidGrants(s) /\ g[1] = r
    OBVIOUS
  <2> HIDE DEF g
  <2> QED BY <2>1
<1>2. p \in BuildRoleBasedExport(s, tables)
  BY <1>1 DEF BuildRoleBasedExport
<1>3. u \in p.users /\ t \in p.scopes /\ p.rows[t] = RowsLeft(s, r, t)
  BY DEF BuildRoleBasedPolicy
<1> HIDE DEF p
<1> QED BY <1>2, <1>3

LEMMA TableBasedPolicyOf ==
    ASSUME NEW s \in Snapshot, NEW g \in ValidGrants(s), NEW u \in PermissionObjects(s, g[1])
    PROVE  \E p \in BuildTableBasedExport(s) : u \in p.users /\ g[2] \in p.scopes
<1> DEFINE p == BuildTableBasedPolicy(s, g[2])
<1>1. p \in BuildTableBasedExport(s)
  BY DEF BuildTableBasedExport
<1>2. u \in p.users /\ g[2] \in p.scopes
  BY DEF BuildTableBasedPolicy
<1> HIDE DEF p
<1> QED BY <1>1, <1>2

(* Every query brings one collection of one account there was. *)
AfterGrants     == {"masks"} \cup AfterMasks
AfterUserGrants == {"grants"} \cup AfterGrants
AfterRoleGrants == {"userGrants"} \cup AfterUserGrants
AfterRoles      == {"roleGrants"} \cup AfterRoleGrants
AfterUsers      == {"roles"} \cup AfterRoles

HoldersOfOneMoment ==
    /\ pc \in AfterUsers      => \E a \in seen : map.users = a.users
    /\ pc \in AfterRoles      => \E a \in seen : map.roles = a.roles
    /\ pc \in AfterRoleGrants => \E a \in seen : map.roleGrants = a.roleGrants
    /\ pc \in AfterUserGrants => \E a \in seen : map.userGrants = a.userGrants
    /\ pc \in AfterGrants     => \E a \in seen : map.grants = WantedGrants(a)

LEMMA HoldersInit == Init => HoldersOfOneMoment
BY DEF Init, HoldersOfOneMoment, AfterUsers, AfterRoles, AfterRoleGrants, AfterUserGrants, AfterGrants,
       AfterMasks, AfterRowPolicies, AfterAggregation, AfterJoin, AfterProjection

LEMMA HoldersNext == TypeInv /\ FetchedInv /\ HoldersOfOneMoment /\ [Next]_vars => HoldersOfOneMoment'
<1> SUFFICES ASSUME TypeInv, FetchedInv, HoldersOfOneMoment, [Next]_vars PROVE HoldersOfOneMoment'
  OBVIOUS
<1> USE DEF AfterUsers, AfterRoles, AfterRoleGrants, AfterUserGrants, AfterGrants, AfterMasks,
            AfterRowPolicies, AfterAggregation, AfterJoin, AfterProjection
<1>1. map \in Snapshot /\ (pc \notin Resting => sf \in seen)
  BY DEF TypeInv, TypeOK, FetchedInv
<1>2. CASE RunQuery
  <2> HIDE DEF Grant, Mask, RowPolicy
  <2>1. /\ map' = [map EXCEPT ![pc] = Result(pc)] /\ pc' = Following[pc] /\ pc \in Whole
        /\ seen' = seen /\ sf \in seen
    BY <1>1, <1>2 DEF RunQuery, Whole, Following, Resting
  <2>2. CASE pc = "users"
    BY <1>1, <2>1, <2>2 DEF Following, HoldersOfOneMoment, Snapshot, Result
  <2>3. CASE pc = "roles"
    BY <1>1, <2>1, <2>3 DEF Following, HoldersOfOneMoment, Snapshot, Result
  <2>4. CASE pc = "roleGrants"
    BY <1>1, <2>1, <2>4 DEF Following, HoldersOfOneMoment, Snapshot, Result
  <2>5. CASE pc = "userGrants"
    BY <1>1, <2>1, <2>5 DEF Following, HoldersOfOneMoment, Snapshot, Result
  <2>6. CASE pc = "grants"
    BY <1>1, <2>1, <2>6 DEF Following, HoldersOfOneMoment, Snapshot, Result, WantedGrants
  <2>7. CASE pc \in {"masks", "rowPolicies", "aggregation", "join", "projection"}
    <3>1. /\ map'.users = map.users /\ map'.roles = map.roles /\ map'.roleGrants = map.roleGrants
          /\ map'.userGrants = map.userGrants /\ map'.grants = map.grants
      BY <1>1, <2>1, <2>7 DEF Snapshot
    <3> QED BY <2>1, <2>7, <3>1 DEF HoldersOfOneMoment
  <2> QED BY <2>1, <2>2, <2>3, <2>4, <2>5, <2>6, <2>7, Queries
<1>3. CASE MapPolicy
  BY <1>3 DEF MapPolicy, HoldersOfOneMoment
<1>4. CASE FetchColumns \/ QueryFails \/ ParserRaises \/ Export
  BY <1>4 DEF FetchColumns, QueryFails, ParserRaises, Export, HoldersOfOneMoment
<1>5. CASE PoliciesDone
  BY <1>5 DEF PoliciesDone, PerPolicy, Following, HoldersOfOneMoment
<1>6. CASE SourceChanges
  <2>1. seen \subseteq seen' /\ UNCHANGED <<pc, map>>
    BY <1>6 DEF SourceChanges
  <2> QED BY <2>1 DEF HoldersOfOneMoment
<1>7. CASE UNCHANGED vars
  BY <1>7 DEF vars, HoldersOfOneMoment
<1> QED BY <1>2, <1>3, <1>4, <1>5, <1>6, <1>7 DEF Next

(* So an export in an account that stays as it is is made of that account. *)
LEMMA MapIsACopy ==
    ASSUME FetchedInv, HoldersOfOneMoment, Settled, NEW a, seen = {a}
    PROVE  Copies(map, a)
<1> USE DEF AfterUsers, AfterRoles, AfterRoleGrants, AfterUserGrants, AfterGrants, AfterMasks,
            AfterRowPolicies, AfterAggregation, AfterJoin, AfterProjection, Settled
<1>1. /\ map.users = a.users /\ map.roles = a.roles /\ map.roleGrants = a.roleGrants
      /\ map.userGrants = a.userGrants /\ map.grants = WantedGrants(a)
  BY DEF HoldersOfOneMoment
<1>2. /\ map.masks = a.masks /\ map.rowPolicies = a.rowPolicies /\ map.aggregation = a.aggregation
      /\ map.join = a.join /\ map.projection = a.projection
  BY DEF FetchedInv, PoliciesOfOneMoment
<1> QED BY <1>1, <1>2 DEF Copies, Unsupported

LEMMA TablesAreGiven == TypeInv /\ FetchedInv /\ HoldersOfOneMoment => TablesAtParity
<1> SUFFICES ASSUME TypeInv, FetchedInv, HoldersOfOneMoment, Settled, NamesApart(seen),
                    NEW a \in seen, seen = {a}, NEW u \in a.users \cap EmailLogin, NEW t \in Wanted
             PROVE  PoliciesFor(u, t) # {} <=>
                       \E r \in Held(u, seen) \cap a.roles :
                           /\ Permits({r}, t, Read, seen) \/ r \in GroupsNamed(a, t)
                           /\ MayRead(Active(r, a), t, seen)
  BY DEF TablesAtParity
<1> DEFINE Reads(r) == /\ r \in Held(u, {a}) \cap a.roles
                       /\ Permits({r}, t, Read, {a}) \/ r \in GroupsNamed(a, t)
                       /\ MayRead(Active(r, a), t, {a})
           Given(r) == <<r, t>> \in ValidGrants(map) /\ u \in PermissionObjects(map, r)
<1>1. map \in Snapshot /\ Copies(map, a)
  BY MapIsACopy DEF TypeInv, TypeOK
<1>2. map.users \cap Role = {} /\ u \in map.users \cap EmailLogin
  BY <1>1, AllOfOne DEF NamesApart, Copies
<1>3. \A r \in Role : Given(r) <=> Reads(r)
  BY <1>1, <1>2, GivenAlike
<1>4. \A r : Reads(r) => r \in Role /\ r \in map.roles
  BY <1>1 DEF Held, Closure, Copies
<1>5. \A r : Given(r) => r \in Role
  <2> SUFFICES ASSUME NEW r, <<r, t>> \in ValidGrants(map) PROVE r \in Role
    OBVIOUS
  <2>1. <<r, t>> \in Role \X Table
    BY DEF ValidGrants
  <2> QED BY <2>1
<1>6. t \in Table
  BY SnowflakeAssumption
<1>7. PoliciesFor(u, t) # {} <=> \E r : Given(r)
  <2>1. CASE roleBased
    <3>1. export = BuildRoleBasedExport(map, tablesWithMasks)
      BY <2>1 DEF FetchedInv, Settled
    <3>2. ASSUME NEW p \in PoliciesFor(u, t) PROVE \E r : Given(r)
      BY <1>1, <3>1, <3>2, RoleBasedPolicies DEF PoliciesFor
    <3>3. ASSUME NEW r, Given(r) PROVE PoliciesFor(u, t) # {}
      <4>1. r \in map.roles
        BY <1>3, <1>4, <1>5, <3>3
      <4>2. <<r, t>> \in ValidGrants(map) /\ u \in PermissionObjects(map, r)
        BY <3>3
      <4> QED BY <1>1, <1>6, <3>1, <4>1, <4>2, RoleBasedPolicyOf DEF PoliciesFor
    <3> HIDE DEF Given
    <3> QED BY <3>2, <3>3
  <2>2. CASE ~roleBased
    <3>1. export = BuildTableBasedExport(map)
      BY <2>2 DEF FetchedInv, Settled
    <3>2. ASSUME NEW p \in PoliciesFor(u, t) PROVE \E r : Given(r)
      <4>1. PICK g \in ValidGrants(map) : g[2] = t /\ u \in PermissionObjects(map, g[1])
        BY <1>1, <3>1, <3>2, TableBasedPolicies DEF PoliciesFor
      <4>2. g = <<g[1], t>>
        BY <4>1 DEF ValidGrants
      <4>3. Given(g[1])
        BY <4>1, <4>2
      <4> HIDE DEF Given
      <4> QED BY <4>3
    <3>3. ASSUME NEW r, Given(r) PROVE PoliciesFor(u, t) # {}
      <4> DEFINE g == <<r, t>>
      <4>1. g \in ValidGrants(map) /\ g[1] = r /\ g[2] = t /\ u \in PermissionObjects(map, r)
        BY <3>3
      <4> HIDE DEF g
      <4>2. \E p \in export : u \in p.users /\ t \in p.scopes
        BY <1>1, <3>1, <4>1, TableBasedPolicyOf
      <4> QED BY <4>2 DEF PoliciesFor
    <3> HIDE DEF Given
    <3> QED BY <3>2, <3>3
  <2> QED BY <2>1, <2>2
<1> HIDE DEF Given
<1>8. (\E r : Given(r)) <=> (\E r : Reads(r))
  BY <1>3, <1>4, <1>5
<1> QED BY <1>7, <1>8

(* Nothing of what users read is lost either, in both mappings: without    *)
(* changes the export gives a table to just those who read it in Snowflake *)
(* with a role that has it or is named in a policy of it.                  *)
THEOREM TablesAreKept == Spec => []TablesAtParity
BY TypeInit, TypeNext, FetchedInit, FetchedNext, HoldersInit, HoldersNext, TablesAreGiven, PTL DEF Spec

LEMMA GroupsAreGiven == TypeInv /\ FetchedInv /\ HoldersOfOneMoment => GroupsAreServed
<1> SUFFICES ASSUME TypeInv, FetchedInv, HoldersOfOneMoment, Settled, roleBased, NamesApart(seen),
                    NEW a \in seen, seen = {a},
                    NEW p \in {p \in a.rowPolicies : p.body.form \in {"in", "case"}
                                                     /\ p.table \in Wanted \ Unsupported(a)},
                    NEW i \in BranchesFound(p.body), NEW r \in GroupsRead(p.body, i) \cap a.roles,
                    MayRead(Active(r, a), p.table, seen),
                    NEW u \in {u \in a.users \cap EmailLogin : r \in Held(u, seen)}, NEW row \in Row,
                    \A q \in a.rowPolicies : q.table = p.table => row \in RowsOf(q.body, Active(r, a))
             PROVE  row \in RowsExported(u, p.table)
  BY DEF GroupsAreServed
<1> DEFINE t == p.table
<1>1. map \in Snapshot /\ Copies(map, a)
  BY MapIsACopy DEF TypeInv, TypeOK
<1>2. map.users \cap Role = {} /\ u \in map.users \cap EmailLogin
  BY <1>1, AllOfOne DEF NamesApart, Copies
<1>3. t \in Wanted /\ t \in Table /\ t \notin Unsupported(map)
  BY <1>1, SnowflakeAssumption DEF Copies
<1>4. r \in Role /\ r \in map.roles
  BY <1>1, SnapshotFields DEF Copies
<1>5. r \in GroupsNamed(a, t)
  BY <1>4 DEF GroupsNamed, GroupsOfRowPolicies
<1>6. <<r, t>> \in ValidGrants(map) /\ u \in PermissionObjects(map, r)
  BY <1>1, <1>2, <1>3, <1>4, <1>5, GivenAlike
<1>7. export = BuildRoleBasedExport(map, tablesWithMasks)
  BY DEF FetchedInv, Settled
<1>8. PICK policy \in export : /\ u \in policy.users /\ t \in policy.scopes
                               /\ policy.rows[t] = RowsLeft(map, r, t)
  BY <1>1, <1>3, <1>4, <1>6, <1>7, RoleBasedPolicyOf
<1>9. row \in RowsLeft(map, r, t)
  <2>1. Assigned(map, r) = Active(r, a)
    BY <1>1, <1>4, AssignedIsActive
  <2> QED BY <1>1, <1>3, <2>1 DEF RowsLeft, Copies
<1> QED BY <1>8, <1>9 DEF RowsExported, PoliciesFor

(* And whoever has a role that a row access policy of a table names, where *)
(* the role and what it inherits may read the table, is shown the rows     *)
(* that all policies of the table leave to it, without changes.            *)
THEOREM NamedGroupsAreServed == Spec => []GroupsAreServed
BY TypeInit, TypeNext, FetchedInit, FetchedNext, HoldersInit, HoldersNext, GroupsAreGiven, PTL DEF Spec
===============================================================================
