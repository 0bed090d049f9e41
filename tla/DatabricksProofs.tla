--------------------------- MODULE DatabricksProofs ---------------------------
(***************************************************************************)
(* Theorems about DatabricksConnector, for every metastore, every change   *)
(* to it between two requests, and every configuration.  The argument:     *)
(* what was fetched is made of what was there during the run (FetchedInv); *)
(* who has the three privileges by the connector's search has them in      *)
(* Unity Catalog, by himself and his groups (ReadersMayRead); so whatever  *)
(* a policy of the export opens is open to its members there.              *)
(***************************************************************************)
EXTENDS DatabricksConnector, SequenceTheorems, TLAPS

-------------------------------------------------------------------------------
(* Groups in groups *)

LEMMA ContainingMonotone ==
    ASSUME NEW members, NEW more, members \subseteq more, NEW x
    PROVE  Containing(members, x) \subseteq Containing(more, x)
BY DEF Containing

LEMMA ContainingTransitive ==
    ASSUME NEW members, NEW x, NEW h \in Containing(members, x)
    PROVE  Containing(members, h) \subseteq Containing(members, x)
<1> SUFFICES ASSUME NEW g \in Containing(members, h), NEW S \in SUBSET Group,
                    \A k \in Group : <<x, k>> \in members => k \in S,
                    \A e \in members : e[1] \in S => e[2] \in S
             PROVE  g \in S
  BY DEF Containing
<1>1. h \in S
  BY DEF Containing
<1>2. ASSUME NEW k \in Group, <<h, k>> \in members PROVE k \in S
  <2> DEFINE edge == <<h, k>>
  <2>1. edge \in members /\ edge[1] = h /\ edge[2] = k
    BY <1>2
  <2> QED BY <1>1, <2>1
<1> QED BY <1>2 DEF Containing

(* What was fetched, held together with the sources it came from. *)
From(s, sources) ==
    /\ s.members \subseteq All("members", sources)
    /\ s.grants \subseteq All("grants", sources)

(* Whatever the connector adds to a principal that x holds, x holds. *)
LEMMA AssignedHeld ==
    ASSUME NEW s \in Workspace, NEW sources, From(s, sources), NEW x \in Identity,
           NEW p \in Holders(x, sources)
    PROVE  Assigned(s, p) \subseteq Holders(x, sources)
<1> DEFINE in(y) == Containing(All("members", sources), y)
<1>1. ASSUME NEW g \in GroupsOf(s, p) PROVE g \in in(p) /\ p \in Identity \cup Group
  <2>1. g \in Containing(s.members, p) /\ p \in Identity \cup Group
    BY DEF GroupsOf, ListedMembers
  <2> QED BY <2>1, ContainingMonotone DEF From
<1>2. CASE p = x
  BY <1>1, <1>2 DEF Assigned, Membership, Holders
<1>3. CASE p = AccountUsers
  <2>1. GroupsOf(s, p) = {}
    BY <1>1, <1>3, DatabricksAssumption
  <2> QED BY <1>3, <2>1 DEF Assigned, Membership, Holders
<1>4. CASE p \in in(x)
  <2>1. in(p) \subseteq in(x)
    BY <1>4, ContainingTransitive
  <2> QED BY <1>1, <2>1 DEF Assigned, Membership, Holders
<1> QED BY <1>2, <1>3, <1>4 DEF Holders

-------------------------------------------------------------------------------
(* The access model *)

LEMMA AboveTransitive ==
    ASSUME NEW o \in Object, NEW a \in Above(o)
    PROVE  a \in Object /\ Above(a) \subseteq Above(o) /\ a \in Above(a)
BY DatabricksAssumption DEF Above, Object

LEMMA SchemaKeyAbove ==
    ASSUME NEW s, NEW q, NEW o \in Object
    PROVE  SchemaKey(s, q, o) \in Above(o)
BY DatabricksAssumption DEF SchemaKey, Above

LEMMA PermitsMore ==
    ASSUME NEW P, NEW Q, P \subseteq Q, NEW O, NEW R, O \subseteq R, NEW privileges, NEW sources,
           Permits(P, O, privileges, sources)
    PROVE  Permits(Q, R, privileges, sources)
BY DEF Permits

(* Each of the three that the search finds at an object is a privilege on  *)
(* it or on what contains it.                                              *)
LEMMA KeyPermissionsAreHeld ==
    ASSUME NEW s \in Workspace, NEW sources, From(s, sources), AllWithUsage(sources),
           NEW q, NEW o \in Object, NEW n \in KeyPermissions(s, q, o)
    PROVE  /\ n = "catalog" => Permits({q}, {Catalog}, UseCatalog, sources)
           /\ n = "schema"  => Permits({q}, Above(o) \cap ({Catalog} \cup Schema), UseSchema, sources)
           /\ n = "read"    => Permits({q}, Above(o), ReadPrivileges, sources)
<1> DEFINE key == SchemaKey(s, q, o)
<1>1. s.grants \subseteq Grant /\ s.grants \subseteq All("grants", sources)
  BY DEF Workspace, From
<1>2. Catalog \in Above(o) /\ o \in Above(o) /\ key \in Above(o)
  BY SchemaKeyAbove DEF Above
<1>3. ASSUME NEW k \in Above(o), Has(s, q, k, AllPrivileges)
      PROVE  Uses({q}, o, sources) /\ Permits({q}, Above(o), ReadPrivileges, sources)
  <2>1. PICK g \in s.grants : g.grantee = q /\ g.on = k /\ g.privilege = "ALL_PRIVILEGES"
    BY <1>3 DEF Has, AllPrivileges
  <2>2. g \in All("grants", sources)
    BY <1>1
  <2>3. Uses({q}, k, sources)
    BY <2>1, <2>2 DEF AllWithUsage
  <2>4. Above(k) \subseteq Above(o)
    BY AboveTransitive
  <2>5. Uses({q}, o, sources)
    BY <2>3, <2>4, PermitsMore DEF Uses
  <2>6. Permits({q}, Above(o), ReadPrivileges, sources)
    BY <2>1, <2>2 DEF Permits, ReadPrivileges, AllPrivileges
  <2> QED BY <2>5, <2>6
<1>4. CASE Has(s, q, Catalog, AllPrivileges) \/ Has(s, q, key, AllPrivileges)
  BY <1>2, <1>3, <1>4 DEF Uses
<1>5. CASE n = "catalog" /\ Has(s, q, Catalog, UseCatalog)
  BY <1>1, <1>5 DEF Has, Permits
<1>6. CASE n = "schema" /\ Has(s, q, key, UseSchema)
  <2>1. PICK g \in s.grants : g.grantee = q /\ g.on = key /\ g.privilege \in UseSchema
    BY <1>6 DEF Has
  <2>2. CASE g.privilege = "ALL_PRIVILEGES"
    <3>1. Has(s, q, key, AllPrivileges)
      BY <2>1, <2>2 DEF Has, AllPrivileges
    <3> QED BY <1>4, <3>1
  <2>3. CASE g.privilege = "USE_SCHEMA"
    <3>1. g \in Grant
      BY <1>1
    <3>2. key \notin Table /\ key \in Object
      BY <2>1, <2>3, <3>1 DEF Grant
    <3>3. key \in Above(o) \cap ({Catalog} \cup Schema)
      BY <1>2, <3>2 DEF Object
    <3> QED BY <1>1, <1>6, <2>1, <3>3 DEF Permits
  <2> QED BY <2>1, <2>2, <2>3 DEF UseSchema, AllPrivileges
<1>7. CASE n = "read" /\ Has(s, q, o, ReadPrivileges)
  BY <1>1, <1>2, <1>7 DEF Has, Permits
<1> QED BY <1>4, <1>5, <1>6, <1>7 DEF KeyPermissions

(* Who reads an object by the search may read whatever it contains. *)
LEMMA ReadersMayRead ==
    ASSUME NEW s \in Workspace, NEW sources, From(s, sources), AllWithUsage(sources),
           NEW x \in Identity, NEW q \in Holders(x, sources),
           NEW t \in Object, NEW o \in Above(t), HasReadPermissions(s, q, o)
    PROVE  MayRead(Holders(x, sources), t, sources)
<1> DEFINE H == Holders(x, sources)
<1>1. o \in Object /\ Above(o) \subseteq Above(t)
  BY AboveTransitive
<1>2. {q} \cup Membership(s, q) \subseteq H
  BY AssignedHeld DEF Assigned
<1>3. ASSUME NEW n \in Needed
      PROVE  \E p \in H, k \in Above(o) : n \in KeyPermissions(s, p, k)
  <2>1. CASE n \in KeyPermissions(s, q, o)
    BY <1>2, <2>1 DEF Above
  <2>2. CASE n \notin KeyPermissions(s, q, o)
    <3>1. \E g \in Membership(s, q), k \in Above(o) : n \in KeyPermissions(s, g, k)
      BY <2>2 DEF HasReadPermissions
    <3> QED BY <1>2, <3>1
  <2> QED BY <2>1, <2>2
<1>4. ASSUME NEW k \in Above(o) PROVE k \in Object /\ Above(k) \subseteq Above(t)
  BY <1>1, AboveTransitive
<1>5. Permits(H, {Catalog}, UseCatalog, sources)
  <2>1. PICK p \in H, k \in Above(o) : "catalog" \in KeyPermissions(s, p, k)
    BY <1>3 DEF Needed
  <2>2. Permits({p}, {Catalog}, UseCatalog, sources)
    BY <1>4, <2>1, KeyPermissionsAreHeld
  <2> QED BY <2>2 DEF Permits
<1>6. Permits(H, Above(t) \cap ({Catalog} \cup Schema), UseSchema, sources)
  <2>1. PICK p \in H, k \in Above(o) : "schema" \in KeyPermissions(s, p, k)
    BY <1>3 DEF Needed
  <2>2. Permits({p}, Above(k) \cap ({Catalog} \cup Schema), UseSchema, sources)
    BY <1>4, <2>1, KeyPermissionsAreHeld
  <2>3. {p} \subseteq H /\ Above(k) \cap ({Catalog} \cup Schema) \subseteq Above(t) \cap ({Catalog} \cup Schema)
    BY <1>4, <2>1
  <2> QED BY <2>2, <2>3, PermitsMore
<1>7. Permits(H, Above(t), ReadPrivileges, sources)
  <2>1. PICK p \in H, k \in Above(o) : "read" \in KeyPermissions(s, p, k)
    BY <1>3 DEF Needed
  <2>2. Permits({p}, Above(k), ReadPrivileges, sources)
    BY <1>4, <2>1, KeyPermissionsAreHeld
  <2>3. {p} \subseteq H /\ Above(k) \subseteq Above(t)
    BY <1>4, <2>1
  <2> QED BY <2>2, <2>3, PermitsMore
<1> QED BY <1>5, <1>6, <1>7 DEF MayRead, Uses

-------------------------------------------------------------------------------
(* Types *)

LEMMA WorkspaceFields ==
    ASSUME NEW s \in Workspace
    PROVE  /\ s.users \subseteq User /\ s.servicePrincipals \subseteq ServicePrincipal
           /\ s.groups \subseteq EntraGroup \cup Group
           /\ s.members \subseteq (Identity \cup Group) \X Group
           /\ s.tables \subseteq Wanted /\ s.columns \in [Table -> SUBSET Column]
           /\ s.masks \subseteq [table : Table, column : Column, body : Mask]
           /\ s.filters \subseteq [table : Table, body : RowFilter]
           /\ s.grants \subseteq Grant
<1> HIDE DEF Grant, Mask, RowFilter
<1> QED BY DEF Workspace

LEMMA MetastoreFields ==
    ASSUME NEW m \in Metastore
    PROVE  /\ m.users \subseteq User /\ m.servicePrincipals \subseteq ServicePrincipal
           /\ m.groups \subseteq EntraGroup \cup Group
           /\ m.members \subseteq (Identity \cup Group) \X Group
           /\ m.tables \subseteq Table /\ m.columns \in [Table -> SUBSET Column]
           /\ m.masks \subseteq MaskRef /\ m.filters \subseteq FilterRef
           /\ m.maskBodies \in [MaskFunction -> Mask] /\ m.filterBodies \in [FilterFunction -> RowFilter]
           /\ m.grants \subseteq Grant
           /\ \A r \in m.masks : r.column \in m.columns[r.table]
<1> HIDE DEF Grant, Mask, RowFilter, MaskRef, FilterRef
<1> QED BY DEF Metastore

LEMMA ColumnsLeftType ==
    ASSUME NEW s \in Workspace, NEW q, NEW t \in Table
    PROVE  ColumnsLeft(s, q, t) \subseteq Column
BY WorkspaceFields DEF ColumnsLeft

LEMMA IdentitiesType ==
    ASSUME NEW s \in Workspace
    PROVE  Identities(s) \subseteq Identity
BY WorkspaceFields DEF Identities, Identity

LEMMA RoleBasedType ==
    ASSUME NEW s \in Workspace, NEW p \in BuildRoleBasedExport(s)
    PROVE  IsPolicy(p) /\ p.objects \subseteq Identity
<1>1. PICK q \in Principal : p = RolePolicy(s, q)
  BY DEF BuildRoleBasedExport
<1> DEFINE scopes == Scopes(s, q)
<1>2. p = [objects |-> PermissionObjects(s, q), scopes |-> scopes,
           cols |-> [t \in scopes |-> ColumnsLeft(s, q, t)],
           rows |-> [t \in scopes |-> RowsLeft(s, q, t)]]
  BY <1>1 DEF RolePolicy
<1>3. scopes \subseteq Table
  BY WorkspaceFields, DatabricksAssumption DEF Scopes
<1> HIDE DEF scopes
<1>4. \A t \in scopes : ColumnsLeft(s, q, t) \subseteq Column /\ RowsLeft(s, q, t) \subseteq Row
  BY <1>3, ColumnsLeftType DEF RowsLeft
<1>5. p.cols \in [p.scopes -> SUBSET Column] /\ p.rows \in [p.scopes -> SUBSET Row]
  BY <1>2, <1>4
<1>6. p.objects \subseteq Identity
  BY <1>2, IdentitiesType DEF PermissionObjects
<1> QED BY <1>2, <1>3, <1>5, <1>6 DEF IsPolicy, Principal

LEMMA TableBasedType ==
    ASSUME NEW s \in Workspace, NEW p \in BuildTableBasedExport(s)
    PROVE  IsPolicy(p)
<1>1. PICK o \in Object : p = TablePolicy(s, o)
  BY DEF BuildTableBasedExport
<1> DEFINE scopes == {t \in Table : o \in Above(t)}
<1>2. p = [objects |-> Readers(s, o) \ (s.groups \cap Group), scopes |-> scopes,
           cols |-> [t \in scopes |-> Column], rows |-> [t \in scopes |-> Row]]
  BY <1>1 DEF TablePolicy
<1>3. p.objects \subseteq Principal
  BY <1>2, IdentitiesType DEF Readers, DirectReaders, Principal
<1>4. p.scopes = scopes /\ p.cols \in [scopes -> SUBSET Column] /\ p.rows \in [scopes -> SUBSET Row]
  BY <1>2
<1> QED BY <1>3, <1>4 DEF IsPolicy

(* The type invariant is inductive together with this: where functions are *)
(* asked for, a table is being visited.                                    *)
TypeInv ==
    /\ TypeOK
    /\ pc = "functions" => table \in Wanted

LEMMA NothingFetchedType == NothingFetched \in Workspace
<1> HIDE DEF Grant, Mask, RowFilter
<1> QED BY DEF NothingFetched, Workspace

LEMMA TypeInit == Init => TypeInv
<1> SUFFICES ASSUME Init PROVE TypeInv
  OBVIOUS
<1>1. dbx \in Metastore /\ workspace \in Workspace
  BY MetastoreAssumption, NothingFetchedType DEF Init
<1>2. pc = "ready" /\ schemas = {} /\ schema = None /\ tables = {} /\ table = None
      /\ functions = {} /\ roleBased \in BOOLEAN /\ export = {} /\ seen = {}
  BY DEF Init
<1> QED BY <1>1, <1>2 DEF TypeInv, TypeOK, Resting

LEMMA Requests ==
    /\ DOMAIN Following = {"users", "servicePrincipals", "groups", "catalog", "schemas"}
    /\ Following["users"] = "servicePrincipals" /\ Following["servicePrincipals"] = "groups"
    /\ Following["groups"] = "catalog" /\ Following["catalog"] = "schemas"
    /\ Following["schemas"] = "nextSchema"
BY DEF Following

Elsewhere == {"nextSchema", "nextTable", "functions", "listFunctions", "export"}

LEMMA FetchDirectoryType ==
    ASSUME TypeInv, FetchDirectory
    PROVE  workspace' \in Workspace
<1>1. dbx \in Metastore /\ workspace \in Workspace
  BY DEF TypeInv, TypeOK
<1>2. workspace' = [workspace EXCEPT ![pc] = dbx[pc],
                                     !.members = IF pc = "groups" THEN dbx.members ELSE @]
  BY DEF FetchDirectory
<1> HIDE DEF Grant, Mask, RowFilter
<1>3. CASE pc = "users"
  BY <1>1, <1>2, <1>3, MetastoreFields DEF Workspace
<1>4. CASE pc = "servicePrincipals"
  BY <1>1, <1>2, <1>4, MetastoreFields DEF Workspace
<1>5. CASE pc = "groups"
  BY <1>1, <1>2, <1>5, MetastoreFields DEF Workspace
<1> QED BY <1>3, <1>4, <1>5 DEF FetchDirectory

LEMMA TypeNext == TypeInv /\ [Next]_vars => TypeInv'
<1> SUFFICES ASSUME TypeInv, [Next]_vars PROVE TypeInv'
  OBVIOUS
<1> DEFINE exportOK(e, r) == \A p \in e : IsPolicy(p) /\ (r => p.objects \subseteq Identity)
<1>1. /\ dbx \in Metastore /\ workspace \in Workspace
      /\ pc \in Resting \cup DOMAIN Following \cup Elsewhere
      /\ schemas \subseteq Schema /\ schema \in Schema \cup {None}
      /\ tables \subseteq Wanted  /\ table \in Wanted \cup {None}
      /\ functions \subseteq MaskRef \cup FilterRef
      /\ roleBased \in BOOLEAN /\ exportOK(export, roleBased) /\ seen \subseteq Metastore
      /\ (pc = "functions" => table \in Wanted)
  BY DEF TypeInv, TypeOK, Elsewhere
<1>2. ASSUME dbx' \in Metastore, workspace' \in Workspace,
             pc' \in Resting \cup DOMAIN Following \cup Elsewhere,
             schemas' \subseteq Schema, schema' \in Schema \cup {None},
             tables' \subseteq Wanted, table' \in Wanted \cup {None},
             functions' \subseteq MaskRef \cup FilterRef,
             roleBased' \in BOOLEAN, exportOK(export', roleBased'), seen' \subseteq Metastore,
             pc' = "functions" => table' \in Wanted
      PROVE  TypeInv'
  BY <1>2 DEF TypeInv, TypeOK, Elsewhere
<1> HIDE DEF exportOK
<1> USE DEF Elsewhere
<1>3. Wanted \subseteq Table /\ SchemaOf \in [Table -> Schema]
  BY DatabricksAssumption
<1>4. CASE MapPolicy
  <2>1. exportOK(export', roleBased')
    BY <1>4 DEF MapPolicy, exportOK
  <2> QED BY <1>1, <1>2, <1>4, <2>1, NothingFetchedType, Requests DEF MapPolicy
<1>5. CASE FetchDirectory
  BY <1>1, <1>2, <1>5, FetchDirectoryType, Requests DEF FetchDirectory, walk
<1>6. CASE GetCatalog
  BY <1>1, <1>2, <1>6, Requests DEF GetCatalog, walk
<1>7. CASE ListSchemas
  <2>1. schemas' \subseteq Schema
    BY <1>3, <1>7 DEF ListSchemas
  <2> QED BY <1>1, <1>2, <1>7, <2>1, Requests DEF ListSchemas
<1>8. CASE ListTables
  <2>1. PICK s \in schemas : /\ schemas' = schemas \ {s} /\ schema' = s
                             /\ tables' = {t \in dbx.tables \cap Wanted : SchemaOf[t] = s}
    BY <1>8 DEF ListTables
  <2>2. functions' \subseteq MaskRef \cup FilterRef
    BY <1>1, <1>8, MetastoreFields DEF ListTables
  <2>3. workspace' = [workspace EXCEPT !.columns =
                         [t \in Table |-> IF t \in tables' THEN dbx.columns[t] ELSE @[t]]]
    BY <1>8 DEF ListTables
  <2>4. [t \in Table |-> IF t \in tables' THEN dbx.columns[t] ELSE workspace.columns[t]]
            \in [Table -> SUBSET Column]
    BY <1>1, MetastoreFields, WorkspaceFields
  <2>5. workspace' \in Workspace
    <3> HIDE DEF Grant, Mask, RowFilter
    <3> QED BY <1>1, <2>3, <2>4 DEF Workspace
  <2> QED BY <1>1, <1>2, <1>8, <2>1, <2>2, <2>5 DEF ListTables
<1>9. CASE NextTable
  BY <1>1, <1>2, <1>9 DEF NextTable
<1>10. CASE GetMask
  <2>1. PICK m \in AskedFor \cap MaskRef :
            /\ functions' = functions \ {m}
            /\ workspace' = [workspace EXCEPT !.masks = @ \cup
                   {[table |-> table, column |-> m.column, body |-> dbx.maskBodies[m.function]]}]
    BY <1>10 DEF GetMask
  <2>2. table \in Table /\ m.column \in Column /\ dbx.maskBodies[m.function] \in Mask
    BY <1>1, <1>3, <1>10, MetastoreFields DEF GetMask, MaskRef
  <2>3. workspace' \in Workspace
    <3> HIDE DEF Grant, Mask, RowFilter
    <3> QED BY <1>1, <2>1, <2>2 DEF Workspace
  <2> QED BY <1>1, <1>2, <1>10, <2>1, <2>3 DEF GetMask
<1>11. CASE GetRowFilter
  <2>1. PICK f \in AskedFor \cap FilterRef :
            /\ functions' = functions \ {f}
            /\ workspace' = [workspace EXCEPT !.filters = @ \cup
                   {[table |-> table, body |-> dbx.filterBodies[f.function]]}]
    BY <1>11 DEF GetRowFilter
  <2>2. table \in Table /\ dbx.filterBodies[f.function] \in RowFilter
    BY <1>1, <1>3, <1>11, MetastoreFields DEF GetRowFilter, FilterRef
  <2>3. workspace' \in Workspace
    <3> HIDE DEF Grant, Mask, RowFilter
    <3> QED BY <1>1, <2>1, <2>2 DEF Workspace
  <2> QED BY <1>1, <1>2, <1>11, <2>1, <2>3 DEF GetRowFilter
<1>12. CASE GetTableGrants
  <2>1. table \in Wanted /\ GrantsOn(table) \subseteq Grant
    BY <1>1, <1>12, MetastoreFields DEF GetTableGrants, GrantsOn
  <2>2. workspace' \in Workspace
    <3> HIDE DEF Grant, Mask, RowFilter
    <3> QED BY <1>1, <1>12, <2>1 DEF GetTableGrants, Workspace
  <2> QED BY <1>1, <1>2, <1>12, <2>2 DEF GetTableGrants, walk
<1>13. CASE GetSchemaGrants
  <2>1. GrantsOn(schema) \subseteq Grant
    BY <1>1, MetastoreFields DEF GrantsOn
  <2>2. workspace' \in Workspace
    <3> HIDE DEF Grant, Mask, RowFilter
    <3> QED BY <1>1, <1>13, <2>1 DEF GetSchemaGrants, Workspace
  <2> QED BY <1>1, <1>2, <1>13, <2>2 DEF GetSchemaGrants, walk
<1>14. CASE ListFunctions
  BY <1>1, <1>2, <1>14 DEF ListFunctions, walk
<1>15. CASE GetCatalogGrants
  <2>1. GrantsOn(Catalog) \subseteq Grant
    BY <1>1, MetastoreFields DEF GrantsOn
  <2>2. workspace' \in Workspace
    <3> HIDE DEF Grant, Mask, RowFilter
    <3> QED BY <1>1, <1>15, <2>1 DEF GetCatalogGrants, Workspace
  <2> QED BY <1>1, <1>2, <1>15, <2>2 DEF GetCatalogGrants, walk
<1>16. CASE Export
  <2>1. exportOK(export', roleBased')
    BY <1>1, <1>16, RoleBasedType, TableBasedType DEF Export, exportOK
  <2> QED BY <1>1, <1>2, <1>16, <2>1 DEF Export, walk, Resting
<1>17. CASE ParserRaises \/ ExportRaises \/ RequestFails
  BY <1>1, <1>2, <1>17 DEF ParserRaises, ExportRaises, RequestFails, walk, Resting
<1>18. CASE SourceChanges
  <2>1. dbx' \in Metastore
    BY <1>18, MetastoreAssumption DEF SourceChanges
  <2> QED BY <1>1, <1>2, <1>18, <2>1 DEF SourceChanges, walk
<1>19. CASE UNCHANGED vars
  BY <1>1, <1>2, <1>19 DEF vars, walk
<1> QED BY <1>4, <1>5, <1>6, <1>7, <1>8, <1>9, <1>10, <1>11, <1>12, <1>13, <1>14, <1>15, <1>16,
           <1>17, <1>18, <1>19 DEF Next

(* Every variable keeps its type, for any constants that satisfy the       *)
(* assumptions; of the role-based mapping the policies name identities     *)
(* only, no group that Entra does not know.                                *)
THEOREM TypeCorrect == Spec => []TypeOK
<1>1. TypeInv => TypeOK
  BY DEF TypeInv
<1> QED BY <1>1, TypeInit, TypeNext, PTL DEF Spec

-------------------------------------------------------------------------------
(* What a run has fetched *)

(* A mask or a filter that was listed was asked for at some moment.        *)
MaskFetched(s, r, sources) ==
    \E b \in sources :
        [table |-> r.table, column |-> r.column, body |-> b.maskBodies[r.function]] \in s.masks
FilterFetched(s, r, sources) ==
    \E b \in sources :
        /\ b.filterBodies[r.function].form # "raises"
        /\ [table |-> r.table, body |-> b.filterBodies[r.function]] \in s.filters

(* The columns of a table, and which masks and filters it has, are those   *)
(* of a single moment; all of these but todo were asked for since.         *)
Fetched(s, t, todo, sources) ==
    \E a \in sources :
        /\ s.columns[t] = a.columns[t]
        /\ \A r \in a.masks   : r.table = t => r \in todo \/ MaskFetched(s, r, sources)
        /\ \A r \in a.filters : r.table = t => r \in todo \/ FilterFetched(s, r, sources)

GroupsOfOneMoment ==
    pc \in {"catalog", "schemas", "export", "exported"} \cup Elsewhere =>
        \E m \in seen : workspace.groups = m.groups /\ workspace.members = m.members

TablesFetched ==
    /\ pc \in DOMAIN Following => workspace.tables = {}
    /\ \A t \in workspace.tables : SchemaOf[t] \notin schemas /\ Fetched(workspace, t, {}, seen)
    /\ pc \in {"nextTable", "functions"} =>
           \A t \in tables : SchemaOf[t] \notin schemas /\ Fetched(workspace, t, functions, seen)
    /\ pc = "functions" => SchemaOf[table] \notin schemas /\ Fetched(workspace, table, functions, seen)

FetchedInv ==
    /\ pc \notin Resting => dbx \in seen
    /\ From(workspace, seen)
    /\ GroupsOfOneMoment
    /\ TablesFetched
    /\ pc = "exported" => export = IF roleBased THEN BuildRoleBasedExport(workspace)
                                                ELSE BuildTableBasedExport(workspace)

LEMMA FetchedInit == Init => FetchedInv
<1> SUFFICES ASSUME Init PROVE FetchedInv
  OBVIOUS
<1>1. pc = "ready" /\ workspace.members = {} /\ workspace.grants = {} /\ workspace.tables = {}
  BY DEF Init, NothingFetched
<1> QED BY <1>1, Requests DEF FetchedInv, From, GroupsOfOneMoment, TablesFetched, Resting, Elsewhere

LEMMA FromMore ==
    ASSUME NEW s, NEW A, NEW B, A \subseteq B, From(s, A)
    PROVE  From(s, B)
BY DEF From, All

(* What was fetched stays fetched when more is. *)
LEMMA FetchedMore ==
    ASSUME NEW s, NEW z, NEW t, NEW todo, NEW left, NEW A, NEW B, A \subseteq B, A \subseteq Metastore,
           Fetched(s, t, todo, A),
           z.columns[t] = s.columns[t], s.masks \subseteq z.masks, s.filters \subseteq z.filters,
           \A r \in MaskRef   : r.table = t /\ r \in todo => r \in left \/ MaskFetched(z, r, B),
           \A r \in FilterRef : r.table = t /\ r \in todo => r \in left \/ FilterFetched(z, r, B)
    PROVE  Fetched(z, t, left, B)
<1>1. PICK a \in A :
        /\ s.columns[t] = a.columns[t]
        /\ \A r \in a.masks   : r.table = t => r \in todo \/ MaskFetched(s, r, A)
        /\ \A r \in a.filters : r.table = t => r \in todo \/ FilterFetched(s, r, A)
  BY DEF Fetched
<1>2. a \in B /\ a.masks \subseteq MaskRef /\ a.filters \subseteq FilterRef
  BY MetastoreFields
<1>3. \A r : MaskFetched(s, r, A) => MaskFetched(z, r, B)
  BY DEF MaskFetched
<1>4. \A r : FilterFetched(s, r, A) => FilterFetched(z, r, B)
  BY DEF FilterFetched
<1>5. \A r \in a.masks : r.table = t => r \in left \/ MaskFetched(z, r, B)
  BY <1>1, <1>2, <1>3
<1>6. \A r \in a.filters : r.table = t => r \in left \/ FilterFetched(z, r, B)
  BY <1>1, <1>2, <1>4
<1> QED BY <1>1, <1>2, <1>5, <1>6 DEF Fetched

LEMMA RefsApart ==
    ASSUME NEW r \in MaskRef
    PROVE  r \notin FilterRef
BY MetastoreAssumption DEF MaskRef, FilterRef

(* A run that goes on with the same tables, at another place.              *)
LEMMA TablesStay ==
    ASSUME TypeInv, FetchedInv, seen \subseteq seen',
           workspace'.tables = workspace.tables, workspace'.columns = workspace.columns,
           workspace.masks \subseteq workspace'.masks, workspace.filters \subseteq workspace'.filters,
           UNCHANGED <<schemas, tables, table, functions>>,
           pc' \in DOMAIN Following => pc \in DOMAIN Following,
           pc' \in {"nextTable", "functions"} => pc' = pc
    PROVE  TablesFetched'
<1>1. seen \subseteq Metastore
  BY DEF TypeInv, TypeOK
<1>2. \A t, todo : Fetched(workspace, t, todo, seen) => Fetched(workspace', t, todo, seen')
  BY <1>1, FetchedMore
<1>3. TablesFetched
  BY DEF FetchedInv
<1> QED BY <1>2, <1>3 DEF TablesFetched

LEMMA ListTablesFetches ==
    ASSUME TypeInv, FetchedInv, ListTables
    PROVE  TablesFetched'
<1>1. /\ dbx \in Metastore /\ workspace \in Workspace /\ dbx \in seen /\ seen \subseteq Metastore
      /\ schemas \subseteq Schema /\ TablesFetched
  BY DEF TypeInv, TypeOK, FetchedInv, ListTables, Resting
<1>2. PICK s \in schemas : /\ schemas' = schemas \ {s} /\ schema' = s
                           /\ tables' = {t \in dbx.tables \cap Wanted : SchemaOf[t] = s}
  BY DEF ListTables
<1>3. /\ pc' = "nextTable" /\ seen' = seen
      /\ functions' = {f \in dbx.masks \cup dbx.filters : f.table \in tables'}
      /\ workspace' = [workspace EXCEPT !.columns =
                          [t \in Table |-> IF t \in tables' THEN dbx.columns[t] ELSE @[t]]]
  BY DEF ListTables
<1>4. /\ workspace'.masks = workspace.masks /\ workspace'.filters = workspace.filters
      /\ workspace'.tables = workspace.tables
      /\ workspace'.columns = [t \in Table |-> IF t \in tables' THEN dbx.columns[t]
                                                               ELSE workspace.columns[t]]
  <2> HIDE DEF Grant, Mask, RowFilter
  <2> QED BY <1>1, <1>3 DEF Workspace
<1>5. Wanted \subseteq Table
  BY DatabricksAssumption
<1>6. ASSUME NEW t \in workspace.tables
      PROVE  SchemaOf[t] \notin schemas' /\ Fetched(workspace', t, {}, seen')
  <2>1. SchemaOf[t] \notin schemas /\ Fetched(workspace, t, {}, seen)
    BY <1>1 DEF TablesFetched
  <2>2. t \notin tables' /\ t \in Table
    BY <1>1, <1>2, <1>5, <2>1, WorkspaceFields
  <2>3. workspace'.columns[t] = workspace.columns[t]
    BY <1>4, <2>2
  <2>4. workspace.masks \subseteq workspace'.masks /\ workspace.filters \subseteq workspace'.filters
        /\ seen \subseteq seen'
    BY <1>3, <1>4
  <2>5. Fetched(workspace', t, {}, seen')
    BY <1>1, <2>1, <2>3, <2>4, FetchedMore
  <2> QED BY <1>2, <2>1, <2>5
<1>7. ASSUME NEW t \in tables'
      PROVE  SchemaOf[t] \notin schemas' /\ Fetched(workspace', t, functions', seen')
  <2>1. SchemaOf[t] = s /\ t \in Table
    BY <1>2, <1>5
  <2>2. workspace'.columns[t] = dbx.columns[t]
    BY <1>4, <2>1
  <2>3. \A r \in dbx.masks \cup dbx.filters : r.table = t => r \in functions'
    BY <1>3
  <2> QED BY <1>1, <1>2, <1>3, <2>1, <2>2, <2>3 DEF Fetched
<1> QED BY <1>3, <1>4, <1>6, <1>7, Requests DEF TablesFetched

(* An answer for one mask or filter, whichever it is. *)
LEMMA AnswerFetches ==
    ASSUME TypeInv, FetchedInv, NEW r \in MaskRef \cup FilterRef, r.table = table,
           pc = "functions", pc' = pc, seen' = seen, functions' = functions \ {r},
           UNCHANGED <<schemas, tables, table>>,
           workspace'.tables = workspace.tables, workspace'.columns = workspace.columns,
           workspace.masks \subseteq workspace'.masks, workspace.filters \subseteq workspace'.filters,
           r \in MaskRef   => MaskFetched(workspace', r, seen'),
           r \in FilterRef => FilterFetched(workspace', r, seen')
    PROVE  TablesFetched'
<1>1. seen \subseteq Metastore /\ TablesFetched
  BY DEF TypeInv, TypeOK, FetchedInv
<1>2. ASSUME NEW t, Fetched(workspace, t, functions, seen)
      PROVE  Fetched(workspace', t, functions', seen')
  BY <1>1, <1>2, FetchedMore
<1>3. ASSUME NEW t, Fetched(workspace, t, {}, seen)
      PROVE  Fetched(workspace', t, {}, seen')
  BY <1>1, <1>3, FetchedMore
<1> QED BY <1>1, <1>2, <1>3, Requests DEF TablesFetched

(* Grants that a request returns join those of the run. *)
LEMMA GrantsJoin ==
    ASSUME workspace \in Workspace, FetchedInv, dbx \in seen, seen' = seen, NEW object,
           workspace'.grants = workspace.grants \cup GrantsOn(object),
           workspace'.members = workspace.members
    PROVE  From(workspace', seen')
BY DEF FetchedInv, From, GrantsOn, All

LEMMA FetchDirectoryFetches ==
    ASSUME TypeInv, FetchedInv, FetchDirectory
    PROVE  From(workspace', seen') /\ GroupsOfOneMoment' /\ workspace'.tables = workspace.tables
<1>1. /\ dbx \in Metastore /\ workspace \in Workspace /\ dbx \in seen /\ From(workspace, seen)
      /\ pc \in {"users", "servicePrincipals", "groups"} /\ pc' = Following[pc] /\ seen' = seen
      /\ workspace' = [workspace EXCEPT ![pc] = dbx[pc],
                                        !.members = IF pc = "groups" THEN dbx.members ELSE @]
  BY DEF TypeInv, TypeOK, FetchedInv, FetchDirectory, Resting
<1> HIDE DEF Grant, Mask, RowFilter
<1>2. CASE pc = "groups"
  <2>1. /\ workspace'.members = dbx.members /\ workspace'.groups = dbx.groups
        /\ workspace'.grants = workspace.grants /\ workspace'.tables = workspace.tables
    BY <1>1, <1>2 DEF Workspace
  <2>2. dbx.members \subseteq All("members", seen)
    BY <1>1 DEF All
  <2> QED BY <1>1, <2>1, <2>2 DEF From, GroupsOfOneMoment
<1>3. CASE pc \in {"users", "servicePrincipals"}
  <2>1. /\ workspace'.members = workspace.members
        /\ workspace'.grants = workspace.grants /\ workspace'.tables = workspace.tables
    BY <1>1, <1>3 DEF Workspace
  <2>2. pc' \in {"servicePrincipals", "groups"}
    BY <1>1, <1>3, Requests
  <2> QED BY <1>1, <2>1, <2>2 DEF From, GroupsOfOneMoment, Elsewhere
<1> QED BY <1>1, <1>2, <1>3

LEMMA FetchedNext == TypeInv /\ FetchedInv /\ [Next]_vars => FetchedInv'
<1> SUFFICES ASSUME TypeInv, FetchedInv, [Next]_vars PROVE FetchedInv'
  OBVIOUS
<1>1. /\ dbx \in Metastore /\ workspace \in Workspace
      /\ (pc \notin Resting => dbx \in seen)
      /\ From(workspace, seen) /\ GroupsOfOneMoment /\ TablesFetched
  BY DEF FetchedInv, TypeInv, TypeOK
<1> HIDE DEF Grant, Mask, RowFilter
(* Most steps leave the directory alone and go on between these.           *)
<1> DEFINE later == {"catalog", "schemas", "export", "exported"} \cup Elsewhere
<1>2. ASSUME pc' \in later => pc \in later, workspace'.groups = workspace.groups,
             workspace'.members = workspace.members, seen \subseteq seen'
      PROVE  GroupsOfOneMoment'
  BY <1>1, <1>2 DEF GroupsOfOneMoment
<1> USE DEF Elsewhere
<1>3. CASE MapPolicy
  <2>1. workspace' = NothingFetched /\ pc' = "users" /\ seen' = {dbx} /\ dbx' = dbx
    BY <1>3 DEF MapPolicy
  <2>2. From(workspace', seen') /\ workspace'.tables = {}
    BY <2>1 DEF From, NothingFetched
  <2> QED BY <2>1, <2>2 DEF FetchedInv, GroupsOfOneMoment, TablesFetched
<1>4. CASE FetchDirectory
  <2>1. /\ pc \in DOMAIN Following /\ pc' \in DOMAIN Following /\ pc \notin Resting
        /\ UNCHANGED <<dbx, seen>>
    BY <1>4, Requests DEF FetchDirectory, Resting
  <2>2. TablesFetched'
    BY <1>1, <1>4, <2>1, FetchDirectoryFetches, Requests DEF TablesFetched
  <2>3. pc' # "exported"
    BY <2>1, Requests
  <2> QED BY <1>1, <1>4, <2>1, <2>2, <2>3, FetchDirectoryFetches DEF FetchedInv
<1>5. CASE GetCatalog
  <2>1. pc = "catalog" /\ pc' = "schemas" /\ UNCHANGED <<dbx, walk, workspace, seen>>
    BY <1>5, Requests DEF GetCatalog
  <2>2. TablesFetched'
    BY <1>1, <2>1, Requests DEF TablesFetched, walk
  <2> QED BY <1>1, <1>2, <2>1, <2>2 DEF FetchedInv, Resting
<1>6. CASE ListSchemas
  <2>1. pc = "schemas" /\ pc' = "nextSchema" /\ UNCHANGED <<dbx, workspace, seen>>
    BY <1>6, Requests DEF ListSchemas
  <2>2. TablesFetched'
    BY <1>1, <2>1, Requests DEF TablesFetched
  <2> QED BY <1>1, <1>2, <2>1, <2>2 DEF FetchedInv, Resting
<1>7. CASE ListTables
  <2>1. pc = "nextSchema" /\ pc' = "nextTable" /\ UNCHANGED <<dbx, seen>>
    BY <1>7 DEF ListTables
  <2>2. /\ workspace'.groups = workspace.groups /\ workspace'.members = workspace.members
        /\ workspace'.grants = workspace.grants
    BY <1>1, <1>7 DEF ListTables, Workspace
  <2> QED BY <1>1, <1>2, <1>7, <2>1, <2>2, ListTablesFetches DEF FetchedInv, From, Resting
<1>8. CASE NextTable
  <2>1. pc = "nextTable" /\ pc' = "functions"
        /\ UNCHANGED <<dbx, schemas, functions, workspace, seen>>
    BY <1>8 DEF NextTable
  <2>2. TablesFetched'
    BY <1>1, <1>8, <2>1, Requests DEF TablesFetched, NextTable
  <2> QED BY <1>1, <1>2, <2>1, <2>2 DEF FetchedInv, Resting
<1>9. CASE GetMask
  <2>1. PICK m \in AskedFor \cap MaskRef :
            /\ functions' = functions \ {m}
            /\ workspace' = [workspace EXCEPT !.masks = @ \cup
                   {[table |-> table, column |-> m.column, body |-> dbx.maskBodies[m.function]]}]
    BY <1>9 DEF GetMask
  <2>2. pc = "functions" /\ pc' = pc /\ UNCHANGED <<dbx, schemas, tables, table, seen>> /\ dbx \in seen
    BY <1>1, <1>9 DEF GetMask, Resting
  <2>3. /\ workspace'.groups = workspace.groups /\ workspace'.members = workspace.members
        /\ workspace'.grants = workspace.grants /\ workspace'.tables = workspace.tables
        /\ workspace'.columns = workspace.columns /\ workspace'.filters = workspace.filters
        /\ workspace'.masks = workspace.masks \cup
               {[table |-> table, column |-> m.column, body |-> dbx.maskBodies[m.function]]}
    BY <1>1, <2>1 DEF Workspace
  <2>4. m \in MaskRef /\ m \notin FilterRef /\ m.table = table
    BY RefsApart DEF AskedFor
  <2>5. MaskFetched(workspace', m, seen')
    BY <2>2, <2>3, <2>4 DEF MaskFetched
  <2>6. workspace.masks \subseteq workspace'.masks /\ workspace.filters \subseteq workspace'.filters
        /\ seen' = seen /\ functions' = functions \ {m}
    BY <2>1, <2>2, <2>3
  <2>7. TablesFetched'
    BY <2>2, <2>3, <2>4, <2>5, <2>6, AnswerFetches
  <2> QED BY <1>1, <1>2, <2>2, <2>3, <2>7 DEF FetchedInv, From
<1>10. CASE GetRowFilter
  <2>1. PICK f \in AskedFor \cap FilterRef :
            /\ dbx.filterBodies[f.function].form # "raises"
            /\ functions' = functions \ {f}
            /\ workspace' = [workspace EXCEPT !.filters = @ \cup
                   {[table |-> table, body |-> dbx.filterBodies[f.function]]}]
    BY <1>10 DEF GetRowFilter
  <2>2. pc = "functions" /\ pc' = pc /\ UNCHANGED <<dbx, schemas, tables, table, seen>> /\ dbx \in seen
    BY <1>1, <1>10 DEF GetRowFilter, Resting
  <2>3. /\ workspace'.groups = workspace.groups /\ workspace'.members = workspace.members
        /\ workspace'.grants = workspace.grants /\ workspace'.tables = workspace.tables
        /\ workspace'.columns = workspace.columns /\ workspace'.masks = workspace.masks
        /\ workspace'.filters = workspace.filters \cup
               {[table |-> table, body |-> dbx.filterBodies[f.function]]}
    BY <1>1, <2>1 DEF Workspace
  <2>4. f \in FilterRef /\ f \notin MaskRef /\ f.table = table
    BY RefsApart DEF AskedFor
  <2>5. FilterFetched(workspace', f, seen')
    BY <2>1, <2>2, <2>3, <2>4 DEF FilterFetched
  <2>6. workspace.masks \subseteq workspace'.masks /\ workspace.filters \subseteq workspace'.filters
        /\ seen' = seen /\ functions' = functions \ {f}
    BY <2>1, <2>2, <2>3
  <2>7. TablesFetched'
    BY <2>2, <2>3, <2>4, <2>5, <2>6, AnswerFetches
  <2> QED BY <1>1, <1>2, <2>2, <2>3, <2>7 DEF FetchedInv, From
<1>11. CASE GetTableGrants
  <2>1. /\ pc = "functions" /\ AskedFor = {} /\ pc' = "nextTable" /\ dbx \in seen
        /\ UNCHANGED <<dbx, schemas, tables, functions, seen>>
    BY <1>1, <1>11 DEF GetTableGrants, Resting, walk
  <2>2. /\ workspace'.groups = workspace.groups /\ workspace'.members = workspace.members
        /\ workspace'.columns = workspace.columns /\ workspace'.masks = workspace.masks
        /\ workspace'.filters = workspace.filters
        /\ workspace'.tables = workspace.tables \cup {table}
        /\ workspace'.grants = workspace.grants \cup GrantsOn(table)
    BY <1>1, <1>11 DEF GetTableGrants, Workspace
  <2>3. seen \subseteq Metastore
    BY DEF TypeInv, TypeOK
  <2>4. \A r \in MaskRef : r.table = table => r \notin functions
    BY <2>1, RefsApart DEF AskedFor
  <2>5. \A r \in FilterRef : r.table = table => r \notin functions
    BY <2>1, <2>4 DEF AskedFor
  <2>6. \A t, todo : Fetched(workspace, t, todo, seen) => Fetched(workspace', t, todo, seen')
    BY <2>1, <2>2, <2>3, FetchedMore
  <2>7. Fetched(workspace, table, {}, seen)
    <3>1. Fetched(workspace, table, functions, seen)
      BY <1>1, <2>1 DEF TablesFetched
    <3> QED BY <2>3, <2>4, <2>5, <3>1, FetchedMore
  <2>8. TablesFetched'
    BY <1>1, <2>1, <2>2, <2>6, <2>7, Requests DEF TablesFetched
  <2>9. From(workspace', seen')
    BY <1>1, <2>1, <2>2, GrantsJoin
  <2> QED BY <1>1, <1>2, <2>1, <2>2, <2>8, <2>9 DEF FetchedInv
<1>12. CASE GetSchemaGrants
  <2>1. /\ pc = "nextTable" /\ pc' = "listFunctions" /\ dbx \in seen
        /\ UNCHANGED <<dbx, schemas, tables, table, functions, seen>>
    BY <1>1, <1>12 DEF GetSchemaGrants, Resting, walk
  <2>2. /\ workspace'.groups = workspace.groups /\ workspace'.members = workspace.members
        /\ workspace'.columns = workspace.columns /\ workspace'.masks = workspace.masks
        /\ workspace'.filters = workspace.filters /\ workspace'.tables = workspace.tables
        /\ workspace'.grants = workspace.grants \cup GrantsOn(schema)
    BY <1>1, <1>12 DEF GetSchemaGrants, Workspace
  <2>3. TablesFetched'
    BY <2>1, <2>2, TablesStay, Requests
  <2>4. From(workspace', seen')
    BY <1>1, <2>1, <2>2, GrantsJoin
  <2> QED BY <1>1, <1>2, <2>1, <2>2, <2>3, <2>4 DEF FetchedInv
<1>13. CASE ListFunctions
  <2>1. /\ pc = "listFunctions" /\ pc' = "nextSchema" /\ dbx \in seen
        /\ UNCHANGED <<dbx, schemas, tables, table, functions, workspace, seen>>
    BY <1>1, <1>13 DEF ListFunctions, Resting, walk
  <2>2. TablesFetched'
    BY <2>1, TablesStay, Requests
  <2> QED BY <1>1, <1>2, <2>1, <2>2 DEF FetchedInv
<1>14. CASE GetCatalogGrants
  <2>1. /\ pc = "nextSchema" /\ pc' = "export" /\ dbx \in seen
        /\ UNCHANGED <<dbx, schemas, tables, table, functions, seen>>
    BY <1>1, <1>14 DEF GetCatalogGrants, Resting, walk
  <2>2. /\ workspace'.groups = workspace.groups /\ workspace'.members = workspace.members
        /\ workspace'.columns = workspace.columns /\ workspace'.masks = workspace.masks
        /\ workspace'.filters = workspace.filters /\ workspace'.tables = workspace.tables
        /\ workspace'.grants = workspace.grants \cup GrantsOn(Catalog)
    BY <1>1, <1>14 DEF GetCatalogGrants, Workspace
  <2>3. TablesFetched'
    BY <2>1, <2>2, TablesStay, Requests
  <2>4. From(workspace', seen')
    BY <1>1, <2>1, <2>2, GrantsJoin
  <2> QED BY <1>1, <1>2, <2>1, <2>2, <2>3, <2>4 DEF FetchedInv
<1>15. CASE Export
  <2>1. /\ pc = "export" /\ pc' = "exported"
        /\ UNCHANGED <<dbx, schemas, tables, table, functions, workspace, roleBased, seen>>
        /\ export' = IF roleBased THEN BuildRoleBasedExport(workspace)
                                  ELSE BuildTableBasedExport(workspace)
    BY <1>15 DEF Export, walk
  <2>2. TablesFetched'
    BY <2>1, TablesStay, Requests
  <2> QED BY <1>1, <1>2, <2>1, <2>2 DEF FetchedInv, Resting
<1>16. CASE ParserRaises \/ ExportRaises \/ RequestFails
  <2>1. /\ pc' = "failed"
        /\ UNCHANGED <<dbx, schemas, tables, table, functions, workspace, roleBased, seen>>
    BY <1>16 DEF ParserRaises, ExportRaises, RequestFails, walk
  <2>2. TablesFetched'
    BY <2>1, TablesStay, Requests
  <2> QED BY <1>1, <1>2, <2>1, <2>2 DEF FetchedInv, Resting
<1>17. CASE SourceChanges
  <2>1. /\ seen \subseteq seen' /\ (pc \notin Resting => dbx' \in seen')
        /\ UNCHANGED <<pc, schemas, tables, table, functions, workspace, roleBased, export>>
    BY <1>17 DEF SourceChanges, walk
  <2>2. TablesFetched'
    BY <2>1, TablesStay
  <2>3. From(workspace', seen')
    BY <1>1, <2>1, FromMore
  <2>4. GroupsOfOneMoment'
    BY <1>2, <2>1
  <2>5. (pc = "exported" => export = IF roleBased THEN BuildRoleBasedExport(workspace)
                                                  ELSE BuildTableBasedExport(workspace))'
    BY <2>1 DEF FetchedInv
  <2> QED BY <2>1, <2>2, <2>3, <2>4, <2>5 DEF FetchedInv
<1>18. CASE UNCHANGED vars
  <2>1. UNCHANGED <<dbx, pc, schemas, tables, table, functions, workspace, roleBased, export, seen>>
    BY <1>18 DEF vars, walk
  <2>2. TablesFetched'
    BY <2>1, TablesStay
  <2> QED BY <1>1, <1>2, <2>1, <2>2 DEF FetchedInv
<1> QED BY <1>3, <1>4, <1>5, <1>6, <1>7, <1>8, <1>9, <1>10, <1>11, <1>12, <1>13, <1>14, <1>15, <1>16,
           <1>17, <1>18 DEF Next

-------------------------------------------------------------------------------
(* What an export opens *)

(* Whoever a role-based policy lists holds the principal it was built for. *)
LEMMA MembersHold ==
    ASSUME NEW s \in Workspace, NEW sources, From(s, sources), NEW q \in Principal,
           NEW x \in PermissionObjects(s, q)
    PROVE  /\ x \in Identity
           /\ q \in Holders(x, sources)
           /\ q # AccountUsers
           /\ q \in s.users \cup s.servicePrincipals \cup s.groups
<1>1. x \in Identities(s) /\ x \in Identity
  BY IdentitiesType DEF PermissionObjects
<1>2. CASE q \in s.groups \cap Group
  <2>1. q \in Containing(s.members, x)
    BY <1>2 DEF PermissionObjects, ListedMembers
  <2>2. q \in Holders(x, sources)
    BY <2>1, ContainingMonotone DEF From, Holders
  <2> QED BY <1>1, <1>2, <2>2, DatabricksAssumption
<1>3. CASE q \notin s.groups \cap Group
  <2>1. q = x
    BY <1>3 DEF PermissionObjects
  <2> QED BY <1>1, <2>1, DatabricksAssumption DEF Holders, Identities
<1> QED BY <1>2, <1>3

LEMMA RoleBasedPolicies ==
    ASSUME NEW s \in Workspace, NEW p \in BuildRoleBasedExport(s), NEW t \in p.scopes, NEW x \in p.objects
    PROVE  \E q \in Principal :
               /\ x \in PermissionObjects(s, q)
               /\ t \in s.tables /\ t \in Table
               /\ \E o \in Above(t) : HasReadPermissions(s, q, o)
               /\ p.cols[t] = ColumnsLeft(s, q, t)
               /\ p.rows[t] = RowsLeft(s, q, t)
<1>1. PICK q \in Principal : p = RolePolicy(s, q)
  BY DEF BuildRoleBasedExport
<1>2. x \in PermissionObjects(s, q) /\ t \in Scopes(s, q)
      /\ p.cols[t] = ColumnsLeft(s, q, t) /\ p.rows[t] = RowsLeft(s, q, t)
  BY <1>1 DEF RolePolicy
<1>3. PICK o \in Above(t) : o \in Items(s, q)
  BY <1>2 DEF Scopes
<1>4. HasReadPermissions(s, q, o)
  BY <1>3 DEF Items, DirectReaders
<1>5. t \in s.tables /\ t \in Table
  BY <1>2, WorkspaceFields, DatabricksAssumption DEF Scopes
<1> QED BY <1>2, <1>3, <1>4, <1>5

(* And whoever a table-based one lists holds one who reads the object.     *)
LEMMA TableBasedPolicies ==
    ASSUME NEW s \in Workspace, NEW sources, From(s, sources), NEW p \in BuildTableBasedExport(s),
           NEW t \in p.scopes, NEW x \in p.objects, x \in Identity
    PROVE  /\ t \in Table
           /\ \E q \in Holders(x, sources), o \in Above(t) : HasReadPermissions(s, q, o)
<1>1. PICK object \in Object : p = TablePolicy(s, object)
  BY DEF BuildTableBasedExport
<1>2. t \in Table /\ object \in Above(t) /\ x \in Readers(s, object)
  BY <1>1 DEF TablePolicy
<1>3. Assigned(s, x) \subseteq Holders(x, sources)
  BY AssignedHeld DEF Holders
<1>4. \E q \in Assigned(s, x) : q \in DirectReaders(s, object)
  BY <1>2 DEF Readers, Assigned
<1> QED BY <1>2, <1>3, <1>4 DEF DirectReaders

LEMMA TablesFollow == TypeInv /\ FetchedInv => NoTablesGained
<1> SUFFICES ASSUME TypeInv, FetchedInv, Settled, AllWithUsage(seen),
                    NEW x \in Identity, NEW t \in Table, NEW p \in PoliciesFor(x, t)
             PROVE  MayRead(Holders(x, seen), t, seen)
  BY DEF NoTablesGained
<1>1. workspace \in Workspace /\ From(workspace, seen) /\ t \in Object
  BY DEF TypeInv, TypeOK, FetchedInv, Object
<1>2. p \in export /\ x \in p.objects /\ t \in p.scopes
  BY DEF PoliciesFor
<1>3. \E q \in Holders(x, seen), o \in Above(t) : HasReadPermissions(workspace, q, o)
  <2>1. CASE roleBased
    <3>1. p \in BuildRoleBasedExport(workspace)
      BY <1>2, <2>1 DEF FetchedInv, Settled
    <3>2. PICK q \in Principal : /\ x \in PermissionObjects(workspace, q)
                                 /\ \E o \in Above(t) : HasReadPermissions(workspace, q, o)
      BY <1>1, <1>2, <3>1, RoleBasedPolicies
    <3> QED BY <1>1, <3>2, MembersHold
  <2>2. CASE ~roleBased
    <3>1. p \in BuildTableBasedExport(workspace)
      BY <1>2, <2>2 DEF FetchedInv, Settled
    <3> QED BY <1>1, <1>2, <3>1, TableBasedPolicies
  <2> QED BY <2>1, <2>2
<1> QED BY <1>1, <1>3, ReadersMayRead

(* Nobody is given a table that no combination of what was there during    *)
(* the run let him read, in both mappings: usage of the catalog, usage of  *)
(* the schema and SELECT, each from himself or a group of his.             *)
THEOREM TablesAreHeld == Spec => []NoTablesGained
BY TypeInit, TypeNext, FetchedInit, FetchedNext, TablesFollow, PTL DEF Spec

-------------------------------------------------------------------------------
(* What the constraints leave *)

(* The connector looks at a mask or a filter with the eyes of one of the   *)
(* principals of the member, and of the groups of that one.                *)
LEMMA AssignedIsAFace ==
    ASSUME NEW s \in Workspace, NEW sources, From(s, sources), NEW m \in sources,
           s.groups = m.groups, s.members = m.members,
           NEW q \in Principal, NEW x \in PermissionObjects(s, q)
    PROVE  Assigned(s, q) \in Faces(x, sources)
<1>1. q \in Holders(x, sources) \ {AccountUsers} /\ q \in s.users \cup s.servicePrincipals \cup s.groups
  BY MembersHold
<1>2. {q, AccountUsers} \cup Known(q, m) \in Faces(x, sources)
  BY <1>1 DEF Faces
<1>3. s.users \subseteq User /\ s.servicePrincipals \subseteq ServicePrincipal
      /\ s.groups \subseteq EntraGroup \cup Group
  BY WorkspaceFields
<1>4. GroupsOf(s, q) = Known(q, m)
  <2>1. CASE q \in ServicePrincipal
    <3>1. q \notin s.users \cup s.groups
      BY <1>3, <2>1, DatabricksAssumption DEF Identity
    <3> QED BY <2>1, <3>1 DEF GroupsOf, Known
  <2>2. CASE q \notin ServicePrincipal
    <3>1. q \in s.users \cup s.groups /\ q \in Identity \cup Group
      BY <1>1, <1>3, <2>2 DEF Identity
    <3>2. Known(q, m) = {g \in s.groups \cap Group : g \in Containing(s.members, q)}
      BY <2>2 DEF Known, Containing
    <3> QED BY <3>1, <3>2 DEF GroupsOf, ListedMembers
  <2> QED BY <2>1, <2>2
<1>5. Assigned(s, q) = {q, AccountUsers} \cup Known(q, m)
  BY <1>4 DEF Assigned, Membership
<1> QED BY <1>2, <1>5

LEMMA MaskLeaves ==
    ASSUME NEW mask \in Mask, NEW face, ~Denies(mask, face), Documented(mask) \/ ~SupportedMask(mask)
    PROVE  Shows(mask, face)
<1>1. CASE Documented(mask)
  <2> DEFINE then == mask.whens[1].then
  <2>1. mask.form = "case" /\ Len(mask.whens) = 1 /\ (then = "column" \/ mask.otherwise = "column")
    BY <1>1 DEF Documented
  <2>2. /\ UnmaskForGroup(mask) <=> mask.otherwise # "column" /\ then = "column"
        /\ MaskForGroup(mask) <=> mask.otherwise = "column"
    BY <2>1 DEF UnmaskForGroup, MaskForGroup
  <2>3. (IF MaskGroup(mask) \in face THEN then ELSE mask.otherwise) = "column"
    BY <2>1, <2>2 DEF Denies
  <2> QED BY <1>1, <2>3 DEF Shows
<1>2. CASE ~Documented(mask)
  BY <1>2 DEF Shows, Denies
<1> QED BY <1>1, <1>2

LEMMA FilterLeaves ==
    ASSUME NEW filter \in RowFilter, filter.form # "raises", DOMAIN filter.whens = BranchesFound(filter),
           TextStands(filter), NEW face, NEW row \in RowsOf(filter, face)
    PROVE  row \in RowsShown(filter, face)
<1>1. CASE filter.form = "odd"
  BY <1>1 DEF RowsOf, RowsShown, SupportedFilter, BranchesFound
<1>2. CASE filter.form # "odd"
  <2>1. filter.form \in {"if", "case"} /\ filter.whens # <<>> /\ filter.whens \in Seq(Branch)
    BY <1>2 DEF RowFilter
  <2>2. BranchesFound(filter) # {}
    <3>1. Len(filter.whens) \in Nat \ {0} /\ DOMAIN filter.whens = 1 .. Len(filter.whens)
      BY <2>1, EmptySeq, LenProperties
    <3> QED BY <3>1, 1 \in 1 .. Len(filter.whens)
  <2>3. row \in FilterFor(filter, face)
    BY <2>2 DEF RowsOf, SupportedFilter
  <2>4. /\ filter.default # NoElse
        /\ DefaultRead(filter) \subseteq Lets[filter.default]
        /\ \A i \in DOMAIN filter.whens : RowsRead(filter, i) \subseteq Lets[filter.whens[i].condition]
    <3>1. filter.default # NoElse
      BY <2>1, <2>2 DEF RowFilter, BranchesFound
    <3> QED BY <2>2, <3>1 DEF TextStands
  <2>5. row \in FirstBranch(filter, face)
    BY <2>3, <2>4 DEF FilterFor, FirstBranch
  <2> QED BY <1>2, <2>5 DEF RowsShown
<1> QED BY <1>1, <1>2

(* What the two theorems start from: a policy, the principal it was built  *)
(* for, and the listing of its table.                                      *)
LEMMA PolicyOrigin ==
    ASSUME TypeInv, FetchedInv, Settled, roleBased,
           NEW x \in Identity, NEW t \in Table, NEW p \in PoliciesFor(x, t)
    PROVE  \E q \in Principal :
               /\ Assigned(workspace, q) \in Faces(x, seen)
               /\ p.cols[t] = ColumnsLeft(workspace, q, t)
               /\ p.rows[t] = RowsLeft(workspace, q, t)
               /\ Fetched(workspace, t, {}, seen)
<1>1. workspace \in Workspace /\ From(workspace, seen)
  BY DEF TypeInv, TypeOK, FetchedInv
<1>2. p \in BuildRoleBasedExport(workspace) /\ x \in p.objects /\ t \in p.scopes
  BY DEF FetchedInv, Settled, PoliciesFor
<1>3. PICK q \in Principal : /\ x \in PermissionObjects(workspace, q) /\ t \in workspace.tables
                             /\ p.cols[t] = ColumnsLeft(workspace, q, t)
                             /\ p.rows[t] = RowsLeft(workspace, q, t)
  BY <1>1, <1>2, RoleBasedPolicies
<1>4. PICK m \in seen : workspace.groups = m.groups /\ workspace.members = m.members
  BY DEF FetchedInv, GroupsOfOneMoment, Settled
<1>5. Assigned(workspace, q) \in Faces(x, seen)
  BY <1>1, <1>3, <1>4, AssignedIsAFace
<1>6. Fetched(workspace, t, {}, seen)
  BY <1>3 DEF FetchedInv, TablesFetched
<1> QED BY <1>3, <1>5, <1>6

LEMMA ColumnsFollow == TypeInv /\ FetchedInv => NoColumnsGained
<1> SUFFICES ASSUME TypeInv, FetchedInv, Settled, roleBased, ColumnSecurity, MasksAsDocumented(seen),
                    NEW x \in Identity, NEW t \in Table, NEW p \in PoliciesFor(x, t), NEW c \in p.cols[t]
             PROVE  c \in ColumnsInDatabricks(x, t, seen)
  BY DEF NoColumnsGained, ColumnsExported
<1>1. workspace \in Workspace /\ seen \subseteq Metastore
  BY DEF TypeInv, TypeOK
<1>2. PICK q \in Principal :
          /\ Assigned(workspace, q) \in Faces(x, seen)
          /\ p.cols[t] = ColumnsLeft(workspace, q, t)
          /\ Fetched(workspace, t, {}, seen)
  BY PolicyOrigin
<1>3. PICK a \in seen : /\ workspace.columns[t] = a.columns[t]
                        /\ \A r \in a.masks : r.table = t => MaskFetched(workspace, r, seen)
  BY <1>2 DEF Fetched
<1>4. c \in Column
  BY <1>1, <1>2, ColumnsLeftType
<1>5. ASSUME NEW r \in a.masks, r.table = t, r.column = c
      PROVE  \E b \in seen : Shows(b.maskBodies[r.function], Assigned(workspace, q))
  <2>1. PICK b \in seen :
            [table |-> r.table, column |-> r.column, body |-> b.maskBodies[r.function]] \in workspace.masks
    BY <1>3, <1>5 DEF MaskFetched
  <2> DEFINE body == b.maskBodies[r.function]
             mask == [table |-> t, column |-> c, body |-> body]
  <2>2. body \in Mask /\ r.function \in MaskFunction
    BY <1>1, <1>3, <1>5, MetastoreFields DEF MaskRef
  <2>3. c \in workspace.columns[t]
    BY <1>1, <1>3, <1>5, MetastoreFields
  <2>4. c \notin DeniedColumns(workspace, q, t)
    BY <1>2, <2>3 DEF ColumnsLeft
  <2>5. mask \in workspace.masks /\ mask.table = t /\ mask.column = c /\ mask.body = body
    BY <1>5, <2>1
  <2>6. ~Denies(body, Assigned(workspace, q))
    BY <2>4, <2>5 DEF DeniedColumns
  <2>7. Documented(body) \/ ~SupportedMask(body)
    BY <2>2 DEF MasksAsDocumented
  <2>8. Shows(body, Assigned(workspace, q))
    BY <1>2, <2>2, <2>6, <2>7, MaskLeaves
  <2> QED BY <2>8
<1> QED BY <1>2, <1>3, <1>4, <1>5 DEF ColumnsInDatabricks

(* Nobody is given a column that no combination of what was there during   *)
(* the run let him see, by the role-based mapping, whenever a mask comes,  *)
(* goes or is replaced.                                                    *)
THEOREM ColumnsAreHeld == Spec => []NoColumnsGained
BY TypeInit, TypeNext, FetchedInit, FetchedNext, ColumnsFollow, PTL DEF Spec

LEMMA RowsFollow == TypeInv /\ FetchedInv => NoRowsGained
<1> SUFFICES ASSUME TypeInv, FetchedInv, Settled, roleBased, RowSecurity,
                    FiltersAsDocumented(seen), TextsStand(seen),
                    NEW x \in Identity, NEW t \in Table, NEW p \in PoliciesFor(x, t), NEW row \in p.rows[t]
             PROVE  row \in RowsInDatabricks(x, t, seen)
  BY DEF NoRowsGained, RowsExported
<1>1. workspace \in Workspace /\ seen \subseteq Metastore
  BY DEF TypeInv, TypeOK
<1>2. PICK q \in Principal :
          /\ Assigned(workspace, q) \in Faces(x, seen)
          /\ p.rows[t] = RowsLeft(workspace, q, t)
          /\ Fetched(workspace, t, {}, seen)
  BY PolicyOrigin
<1>3. PICK a \in seen : \A r \in a.filters : r.table = t => FilterFetched(workspace, r, seen)
  BY <1>2 DEF Fetched
<1>4. row \in Row /\ \A f \in workspace.filters :
          f.table = t => row \in RowsOf(f.body, Assigned(workspace, q))
  BY <1>2 DEF RowsLeft
<1>5. ASSUME NEW r \in a.filters, r.table = t
      PROVE  \E b \in seen : row \in RowsShown(b.filterBodies[r.function], Assigned(workspace, q))
  <2>1. PICK b \in seen : /\ b.filterBodies[r.function].form # "raises"
                          /\ [table |-> r.table, body |-> b.filterBodies[r.function]] \in workspace.filters
    BY <1>3, <1>5 DEF FilterFetched
  <2> DEFINE body   == b.filterBodies[r.function]
             filter == [table |-> t, body |-> body]
  <2>2. r.function \in FilterFunction /\ body \in RowFilter
    BY <1>1, <1>3, <1>5, MetastoreFields DEF FilterRef
  <2>3. filter \in workspace.filters /\ filter.table = t /\ filter.body = body
    BY <1>5, <2>1
  <2>4. row \in RowsOf(body, Assigned(workspace, q))
    BY <1>4, <2>3
  <2>5. DOMAIN body.whens = BranchesFound(body) /\ TextStands(body)
    BY <2>2 DEF FiltersAsDocumented, TextsStand
  <2>6. row \in RowsShown(body, Assigned(workspace, q))
    BY <1>2, <2>1, <2>2, <2>4, <2>5, FilterLeaves
  <2> QED BY <2>6
<1> QED BY <1>2, <1>3, <1>4, <1>5 DEF RowsInDatabricks

(* Nor rows, of row filters in a documented form whose texts let through   *)
(* no more when they have lost their blanks, or are cut at WHEN or END, as *)
(* the parsers do.                                                         *)
THEOREM RowsAreHeld == Spec => []NoRowsGained
BY TypeInit, TypeNext, FetchedInit, FetchedNext, RowsFollow, PTL DEF Spec

-------------------------------------------------------------------------------
(* Nothing is lost: the source stays as it is *)

GrantsIn(m, object) == {g \in m.grants : g.on = object}
MasksOf(m) ==
    {[table |-> r.table, column |-> r.column, body |-> m.maskBodies[r.function]] : r \in m.masks}
FiltersOf(m) ==
    {[table |-> r.table, body |-> m.filterBodies[r.function]] : r \in m.filters}

(* s is what a source m has, of what a run asks for. *)
Copies(s, m) ==
    /\ s.users = m.users /\ s.servicePrincipals = m.servicePrincipals
    /\ s.groups = m.groups /\ s.members = m.members
    /\ s.tables = m.tables \cap Wanted
    /\ s.grants \subseteq m.grants
    /\ \A t \in Wanted \cap m.tables :
           \A o \in Above(t) : \A g \in m.grants : g.on = o => g \in s.grants
    /\ s.masks \subseteq MasksOf(m) /\ s.filters \subseteq FiltersOf(m)

LEMMA AllOfOne == \A m, field : All(field, {m}) = m[field]
BY DEF All

(* The groups that the connector finds around a principal it has listed,   *)
(* or around everybody.                                                    *)
LEMMA MembershipIsKnown ==
    ASSUME NEW s \in Workspace, NEW m, s.groups = m.groups, s.members = m.members,
           NEW q \in s.users \cup s.servicePrincipals \cup s.groups \cup {AccountUsers}
    PROVE  Membership(s, q) = {AccountUsers} \cup Known(q, m)
<1>1. s.users \subseteq User /\ s.servicePrincipals \subseteq ServicePrincipal
      /\ s.groups \subseteq EntraGroup \cup Group /\ s.members \subseteq (Identity \cup Group) \X Group
  BY WorkspaceFields
<1>2. CASE q = AccountUsers
  <2>1. q \notin ServicePrincipal /\ q \notin Identity \cup Group
    BY <1>2, DatabricksAssumption DEF Identity
  <2>2. \A h : <<q, h>> \notin s.members
    BY <1>1, <2>1
  <2>3. Containing(s.members, q) = {}
    <3> SUFFICES ASSUME NEW g \in Containing(s.members, q) PROVE FALSE
      OBVIOUS
    <3> DEFINE S == {}
    <3>1. /\ S \in SUBSET Group
          /\ \A h \in Group : <<q, h>> \in s.members => h \in S
          /\ \A e \in s.members : e[1] \in S => e[2] \in S
      BY <2>2
    <3>2. g \in S
      <4> HIDE DEF S
      <4> QED BY <3>1 DEF Containing
    <3> QED BY <3>2
  <2> QED BY <2>1, <2>3 DEF Membership, GroupsOf, ListedMembers, Known
<1>3. CASE q \in ServicePrincipal
  <2>1. q \notin s.users \cup s.groups
    BY <1>1, <1>3, DatabricksAssumption DEF Identity
  <2> QED BY <1>3, <2>1 DEF Membership, GroupsOf, Known
<1>4. CASE q \notin ServicePrincipal /\ q # AccountUsers
  <2>1. q \in s.users \cup s.groups /\ q \in Identity \cup Group
    BY <1>1, <1>4 DEF Identity
  <2>2. Known(q, m) = {g \in s.groups \cap Group : g \in Containing(s.members, q)}
    BY <1>4 DEF Known, Containing
  <2> QED BY <2>1, <2>2 DEF Membership, GroupsOf, ListedMembers
<1> QED BY <1>2, <1>3, <1>4

(* A privilege on an object or above it that one of the groups of a        *)
(* principal has is found at the object where it is granted.               *)
LEMMA GroupsBear ==
    ASSUME NEW s, NEW h, NEW k \in Object
    PROVE  /\ k = Catalog /\ Has(s, h, k, UseCatalog) => "catalog" \in KeyPermissions(s, h, k)
           /\ k \notin Table /\ Has(s, h, k, UseSchema) => "schema" \in KeyPermissions(s, h, k)
           /\ Has(s, h, k, ReadPrivileges) => "read" \in KeyPermissions(s, h, k)
<1>1. \A privileges : Has(s, h, k, privileges) => InMaps(s, h, k)
  BY DEF Has, InMaps
<1>2. k \notin Table => SchemaKey(s, h, k) = k
  BY DEF SchemaKey
<1> QED BY <1>1, <1>2 DEF KeyPermissions, Needed

LEMMA Reached ==
    ASSUME NEW s, NEW m, Copies(s, m), NEW t \in Wanted \cap m.tables, NEW o \in Above(t),
           NEW P, NEW O, O \subseteq Above(o), NEW privileges, Permits(P, O, privileges, {m})
    PROVE  \E h \in P, k \in O : Has(s, h, k, privileges) /\ k \in Object /\ k \in Above(o)
<1>1. t \in Object /\ o \in Object /\ Above(o) \subseteq Above(t)
  BY DatabricksAssumption, AboveTransitive DEF Object
<1>2. PICK g \in m.grants : g.grantee \in P /\ g.on \in O /\ g.privilege \in privileges
  BY AllOfOne DEF Permits
<1>3. g.on \in Above(t) /\ g.on \in Object
  BY <1>1, <1>2, AboveTransitive
<1>4. g \in s.grants
  BY <1>2, <1>3 DEF Copies
<1> QED BY <1>2, <1>3, <1>4 DEF Has

(* Usage that the groups of a principal have. *)
LEMMA GroupsUse ==
    ASSUME NEW s, NEW m, Copies(s, m), NEW t \in Wanted \cap m.tables, NEW o \in Above(t),
           NEW P, Uses(P, o, {m})
    PROVE  /\ \E h \in P, k \in Above(o) : k = Catalog /\ Has(s, h, k, UseCatalog)
           /\ \E h \in P, k \in Above(o) : k \notin Table /\ Has(s, h, k, UseSchema)
<1>1. {Catalog} \subseteq Above(o)
  BY DEF Above
<1>2. Above(o) \cap ({Catalog} \cup Schema) \cap Table = {}
  BY DatabricksAssumption
<1>3. \E h \in P, k \in {Catalog} : Has(s, h, k, UseCatalog)
  BY <1>1, Reached DEF Uses
<1>4. \E h \in P, k \in Above(o) \cap ({Catalog} \cup Schema) : Has(s, h, k, UseSchema)
  BY Reached DEF Uses
<1> QED BY <1>1, <1>2, <1>3, <1>4

(* Who is granted reading of an object, and with his own groups the usage, *)
(* is a reader of it.                                                      *)
LEMMA GrantedRead ==
    ASSUME NEW s \in Workspace, NEW m, Copies(s, m), UsageWhereItCounts({m}),
           NEW q \in s.users \cup s.servicePrincipals \cup s.groups \cup {AccountUsers},
           NEW t \in Wanted \cap m.tables, NEW o \in Above(t),
           Permits({q}, {o}, ReadPrivileges, {m}),
           Uses({q, AccountUsers} \cup Known(q, m), o, {m})
    PROVE  q \in DirectReaders(s, o)
<1> DEFINE H    == {AccountUsers} \cup Known(q, m)
           Own  == KeyPermissions(s, q, o)
           Lent == UNION {KeyPermissions(s, g, k) : g \in H, k \in Above(o)}
<1>1. Membership(s, q) = H
  BY MembershipIsKnown DEF Copies
<1>2. t \in Object /\ o \in Object /\ o \in Above(o) /\ \A k \in Above(o) : k \in Object
  BY DatabricksAssumption, AboveTransitive DEF Object
<1>3. Has(s, q, o, ReadPrivileges)
  <2>1. {o} \subseteq Above(o)
    BY <1>2
  <2>2. \E h \in {q}, k \in {o} : Has(s, h, k, ReadPrivileges)
    BY <2>1, Reached
  <2> QED BY <2>2
<1>4. InMaps(s, q, o)
  BY <1>3 DEF Has, InMaps
<1>5. "read" \in Own
  BY <1>2, <1>3, GroupsBear
<1>6. {q, AccountUsers} \cup Known(q, m) = {q} \cup H
  OBVIOUS
<1>7. ASSUME NEW h \in H, NEW k \in Above(o), NEW n \in KeyPermissions(s, h, k)
      PROVE  n \in Lent
  OBVIOUS
<1>8. "catalog" \in Own \cup Lent
  <2>1. PICK h \in {q} \cup H, k \in Above(o) : k = Catalog /\ Has(s, h, k, UseCatalog)
    BY <1>6, GroupsUse
  <2>2. CASE h \in H
    BY <1>2, <1>7, <2>1, <2>2, GroupsBear
  <2>3. CASE h = q
    BY <1>4, <2>1, <2>3 DEF KeyPermissions, Needed
  <2> QED BY <2>1, <2>2, <2>3
<1>9. "schema" \in Own \cup Lent
  <2>1. PICK h \in {q} \cup H, k \in Above(o) : k \notin Table /\ Has(s, h, k, UseSchema)
    BY <1>6, GroupsUse
  <2>2. CASE h \in H
    BY <1>2, <1>7, <2>1, <2>2, GroupsBear
  <2>3. CASE h = q /\ Has(s, q, k, AllPrivileges) /\ k = Catalog
    BY <1>4, <2>3 DEF KeyPermissions, Needed
  <2>4. CASE h = q /\ k = Catalog /\ ~Has(s, q, k, AllPrivileges)
    <3>1. s.grants \subseteq Grant /\ Has(s, q, Catalog, {"USE_SCHEMA"})
      BY <2>1, <2>4, WorkspaceFields DEF Has, UseSchema, AllPrivileges
    <3>2. o = Catalog
      <4>1. PICK g \in s.grants : g.grantee = q /\ g.on = Catalog /\ g.privilege = "USE_SCHEMA"
        BY <3>1 DEF Has
      <4>2. PICK r \in s.grants : r.grantee = q /\ r.on = o /\ r.privilege \in ReadPrivileges
        BY <1>3 DEF Has
      <4>3. g \in m.grants /\ r \in m.grants
        BY <4>1, <4>2 DEF Copies
      <4>4. g \in All("grants", {m}) /\ r \in All("grants", {m})
        BY <4>3, AllOfOne
      <4>5. g.grantee = r.grantee
        BY <4>1, <4>2
      <4> QED BY <4>1, <4>2, <4>4, <4>5 DEF UsageWhereItCounts
    <3>3. Has(s, q, o, UseSchema) /\ o \notin Table
      BY <2>1, <2>4, <3>2
    <3> QED BY <1>2, <3>3, GroupsBear
  <2>5. CASE h = q /\ k # Catalog
    <3>1. k = o \/ (o \in Table /\ k = SchemaOf[o])
      BY <2>1, <2>5 DEF Above
    <3>2. InMaps(s, q, k)
      BY <2>1, <2>5 DEF Has, InMaps
    <3>3. SchemaKey(s, q, o) = k
      BY <2>1, <3>1, <3>2 DEF SchemaKey
    <3> QED BY <1>4, <2>1, <2>5, <3>3 DEF KeyPermissions, Needed
  <2> QED BY <2>1, <2>2, <2>3, <2>4, <2>5
<1>10. HasReadPermissions(s, q, o)
  BY <1>1, <1>5, <1>8, <1>9 DEF HasReadPermissions, Needed
<1>11. q \in Principal
  BY WorkspaceFields DEF Principal, Identity
<1> QED BY <1>3, <1>10, <1>11 DEF DirectReaders

(* What a run that saw one source only has of it, at each request.         *)
Listed(m) ==
    /\ pc # "users" => workspace.users = m.users
    /\ pc \notin {"users", "servicePrincipals"} => workspace.servicePrincipals = m.servicePrincipals
    /\ pc \notin {"users", "servicePrincipals", "groups"} =>
           workspace.groups = m.groups /\ workspace.members = m.members

Constraining(m) ==
    /\ functions \subseteq m.masks \cup m.filters
    /\ workspace.masks \subseteq MasksOf(m) /\ workspace.filters \subseteq FiltersOf(m)

(* Each table and each schema is still to come, under way, or has brought  *)
(* all of its grants.                                                      *)
Walked(m) ==
    /\ workspace.tables \subseteq m.tables
    /\ pc \in Elsewhere \cup {"exported"} =>
           /\ \A t \in Wanted \cap m.tables :
                  \/ SchemaOf[t] \in schemas
                  \/ pc \in {"nextTable", "functions"} /\ t \in tables
                  \/ pc = "functions" /\ t = table
                  \/ t \in workspace.tables /\ GrantsIn(m, t) \subseteq workspace.grants
           /\ \A t \in Wanted :
                  \/ SchemaOf[t] \in schemas
                  \/ pc \in {"nextTable", "functions"} /\ SchemaOf[t] = schema
                  \/ GrantsIn(m, SchemaOf[t]) \subseteq workspace.grants
    /\ pc \in {"export", "exported"} =>
           schemas = {} /\ GrantsIn(m, Catalog) \subseteq workspace.grants

StillInv ==
    \A m \in seen : seen = {m} /\ pc \notin {"ready", "failed"} =>
        Listed(m) /\ Constraining(m) /\ Walked(m)

LEMMA StillInit == Init => StillInv
BY DEF Init, StillInv

LEMMA StillNext == TypeInv /\ FetchedInv /\ StillInv /\ [Next]_vars => StillInv'
<1> SUFFICES ASSUME TypeInv, FetchedInv, StillInv, [Next]_vars,
                    NEW m \in seen', seen' = {m}, pc' \notin {"ready", "failed"}
             PROVE  Listed(m)' /\ Constraining(m)' /\ Walked(m)'
  BY DEF StillInv
<1> HIDE DEF Grant, Mask, RowFilter
<1>1. /\ workspace \in Workspace /\ (pc \notin Resting => dbx \in seen)
      /\ schemas \subseteq Schema /\ tables \subseteq Wanted
  BY DEF TypeInv, TypeOK, FetchedInv
<1>2. ASSUME seen' = seen, pc \notin {"ready", "failed"}
      PROVE  Listed(m) /\ Constraining(m) /\ Walked(m)
  BY <1>2 DEF StillInv
<1>3. ASSUME seen' = seen, pc \notin Resting
      PROVE  dbx = m /\ Listed(m) /\ Constraining(m) /\ Walked(m)
  BY <1>1, <1>2, <1>3 DEF Resting
<1>4. Wanted \subseteq Table /\ SchemaOf \in [Table -> Schema] /\ Catalog \notin Schema
  BY DatabricksAssumption
(* Most steps leave the directory and the constraints alone.               *)
<1> DEFINE first == {"users", "servicePrincipals", "groups"}
<1>5. ASSUME Listed(m), pc' = pc \/ first \cap {pc, pc'} = {},
             workspace'.users = workspace.users,
             workspace'.servicePrincipals = workspace.servicePrincipals,
             workspace'.groups = workspace.groups, workspace'.members = workspace.members
      PROVE  Listed(m)'
  BY <1>5 DEF Listed
<1>6. ASSUME Constraining(m), functions' = functions,
             workspace'.masks = workspace.masks, workspace'.filters = workspace.filters
      PROVE  Constraining(m)'
  BY <1>6 DEF Constraining
<1> USE DEF Elsewhere
<1>7. CASE MapPolicy
  <2>1. pc' = "users" /\ workspace' = NothingFetched /\ functions' = {}
    BY <1>7 DEF MapPolicy
  <2> QED BY <2>1 DEF NothingFetched, Listed, Constraining, Walked
<1>8. CASE FetchDirectory
  <2>1. /\ pc \in first /\ pc' = Following[pc]
        /\ workspace' = [workspace EXCEPT ![pc] = dbx[pc],
                                          !.members = IF pc = "groups" THEN dbx.members ELSE @]
        /\ UNCHANGED <<walk, seen>>
    BY <1>8 DEF FetchDirectory
  <2>2. dbx = m /\ Listed(m) /\ Constraining(m) /\ Walked(m)
    BY <1>3, <2>1 DEF Resting
  <2>3. CASE pc = "users"
    <3>1. /\ workspace'.users = m.users /\ workspace'.tables = workspace.tables
          /\ workspace'.masks = workspace.masks /\ workspace'.filters = workspace.filters
      BY <1>1, <2>1, <2>2, <2>3 DEF Workspace
    <3>2. pc' = "servicePrincipals"
      BY <2>1, <2>3, Requests
    <3> QED BY <1>6, <2>1, <2>2, <3>1, <3>2 DEF Listed, Walked, walk
  <2>4. CASE pc = "servicePrincipals"
    <3>1. /\ workspace'.users = workspace.users /\ workspace'.tables = workspace.tables
          /\ workspace'.servicePrincipals = m.servicePrincipals
          /\ workspace'.masks = workspace.masks /\ workspace'.filters = workspace.filters
      BY <1>1, <2>1, <2>2, <2>4 DEF Workspace
    <3>2. pc' = "groups"
      BY <2>1, <2>4, Requests
    <3> QED BY <1>6, <2>1, <2>2, <2>4, <3>1, <3>2 DEF Listed, Walked, walk
  <2>5. CASE pc = "groups"
    <3>1. /\ workspace'.users = workspace.users /\ workspace'.tables = workspace.tables
          /\ workspace'.servicePrincipals = workspace.servicePrincipals
          /\ workspace'.groups = m.groups /\ workspace'.members = m.members
          /\ workspace'.masks = workspace.masks /\ workspace'.filters = workspace.filters
      BY <1>1, <2>1, <2>2, <2>5 DEF Workspace
    <3>2. pc' = "catalog"
      BY <2>1, <2>5, Requests
    <3> QED BY <1>6, <2>1, <2>2, <2>5, <3>1, <3>2 DEF Listed, Walked, walk
  <2> QED BY <2>1, <2>3, <2>4, <2>5
<1>9. CASE GetCatalog
  <2>1. pc = "catalog" /\ pc' = "schemas" /\ UNCHANGED <<walk, workspace, seen>>
    BY <1>9, Requests DEF GetCatalog
  <2>2. Listed(m) /\ Constraining(m) /\ Walked(m)
    BY <1>3, <2>1 DEF Resting
  <2>3. Walked(m)'
    BY <2>1, <2>2 DEF Walked
  <2> QED BY <1>5, <1>6, <2>1, <2>2, <2>3 DEF walk
<1>10. CASE ListSchemas
  <2>1. /\ pc = "schemas" /\ pc' = "nextSchema" /\ schemas' = {SchemaOf[t] : t \in Wanted}
        /\ UNCHANGED <<functions, workspace, seen>>
    BY <1>10, Requests DEF ListSchemas
  <2>2. Listed(m) /\ Constraining(m) /\ Walked(m)
    BY <1>3, <2>1 DEF Resting
  <2>3. Walked(m)'
    BY <2>1, <2>2 DEF Walked
  <2> QED BY <1>5, <1>6, <2>1, <2>2, <2>3
<1>11. CASE ListTables
  <2>1. PICK s \in schemas : /\ schemas' = schemas \ {s} /\ schema' = s
                             /\ tables' = {t \in dbx.tables \cap Wanted : SchemaOf[t] = s}
    BY <1>11 DEF ListTables
  <2>2. /\ pc = "nextSchema" /\ pc' = "nextTable" /\ seen' = seen
        /\ functions' = {f \in dbx.masks \cup dbx.filters : f.table \in tables'}
    BY <1>11 DEF ListTables
  <2>3. dbx = m /\ Listed(m) /\ Constraining(m) /\ Walked(m)
    BY <1>3, <2>2 DEF Resting
  <2>4. /\ workspace'.users = workspace.users /\ workspace'.tables = workspace.tables
        /\ workspace'.servicePrincipals = workspace.servicePrincipals
        /\ workspace'.groups = workspace.groups /\ workspace'.members = workspace.members
        /\ workspace'.masks = workspace.masks /\ workspace'.filters = workspace.filters
        /\ workspace'.grants = workspace.grants
    BY <1>1, <1>11 DEF ListTables, Workspace
  <2>5. Constraining(m)'
    BY <2>2, <2>3, <2>4 DEF Constraining
  <2>6. Walked(m)'
    BY <2>1, <2>2, <2>3, <2>4 DEF Walked
  <2> QED BY <1>5, <2>2, <2>3, <2>4, <2>5, <2>6
<1>12. CASE NextTable
  <2>1. PICK t \in tables : table' = t /\ tables' = tables \ {t}
    BY <1>12 DEF NextTable
  <2>2. pc = "nextTable" /\ pc' = "functions" /\ UNCHANGED <<schemas, schema, functions, workspace, seen>>
    BY <1>12 DEF NextTable
  <2>3. Listed(m) /\ Constraining(m) /\ Walked(m)
    BY <1>3, <2>2 DEF Resting
  <2>4. Walked(m)'
    BY <2>1, <2>2, <2>3 DEF Walked
  <2> QED BY <1>5, <1>6, <2>2, <2>3, <2>4
<1>13. CASE GetMask
  <2>1. PICK r \in AskedFor \cap MaskRef :
            /\ functions' = functions \ {r}
            /\ workspace' = [workspace EXCEPT !.masks = @ \cup
                   {[table |-> table, column |-> r.column, body |-> dbx.maskBodies[r.function]]}]
    BY <1>13 DEF GetMask
  <2>2. pc = "functions" /\ pc' = pc /\ UNCHANGED <<schemas, schema, tables, table, seen>>
    BY <1>13 DEF GetMask
  <2>3. dbx = m /\ Listed(m) /\ Constraining(m) /\ Walked(m)
    BY <1>3, <2>2 DEF Resting
  <2>4. /\ workspace'.users = workspace.users /\ workspace'.tables = workspace.tables
        /\ workspace'.servicePrincipals = workspace.servicePrincipals
        /\ workspace'.groups = workspace.groups /\ workspace'.members = workspace.members
        /\ workspace'.filters = workspace.filters /\ workspace'.grants = workspace.grants
        /\ workspace'.masks = workspace.masks \cup
               {[table |-> table, column |-> r.column, body |-> m.maskBodies[r.function]]}
    BY <1>1, <2>1, <2>3 DEF Workspace
  <2>5. r \in m.masks /\ r.table = table
    <3>1. m \in Metastore
      BY <2>3 DEF TypeInv, TypeOK
    <3>2. r \in m.masks \cup m.filters /\ r \notin FilterRef
      BY <2>1, <2>3, RefsApart DEF AskedFor, Constraining
    <3> QED BY <2>1, <3>1, <3>2, MetastoreFields DEF AskedFor
  <2>6. Constraining(m)'
    BY <2>1, <2>3, <2>4, <2>5 DEF Constraining, MasksOf
  <2>7. Walked(m)'
    BY <2>2, <2>3, <2>4 DEF Walked
  <2> QED BY <1>5, <2>2, <2>3, <2>4, <2>6, <2>7
<1>14. CASE GetRowFilter
  <2>1. PICK r \in AskedFor \cap FilterRef :
            /\ functions' = functions \ {r}
            /\ workspace' = [workspace EXCEPT !.filters = @ \cup
                   {[table |-> table, body |-> dbx.filterBodies[r.function]]}]
    BY <1>14 DEF GetRowFilter
  <2>2. pc = "functions" /\ pc' = pc /\ UNCHANGED <<schemas, schema, tables, table, seen>>
    BY <1>14 DEF GetRowFilter
  <2>3. dbx = m /\ Listed(m) /\ Constraining(m) /\ Walked(m)
    BY <1>3, <2>2 DEF Resting
  <2>4. /\ workspace'.users = workspace.users /\ workspace'.tables = workspace.tables
        /\ workspace'.servicePrincipals = workspace.servicePrincipals
        /\ workspace'.groups = workspace.groups /\ workspace'.members = workspace.members
        /\ workspace'.masks = workspace.masks /\ workspace'.grants = workspace.grants
        /\ workspace'.filters = workspace.filters \cup
               {[table |-> table, body |-> m.filterBodies[r.function]]}
    BY <1>1, <2>1, <2>3 DEF Workspace
  <2>5. r \in m.filters /\ r.table = table
    <3>1. m \in Metastore
      BY <2>3 DEF TypeInv, TypeOK
    <3>2. r \in m.masks \cup m.filters /\ r \notin MaskRef
      BY <2>1, <2>3, RefsApart DEF AskedFor, Constraining
    <3> QED BY <2>1, <3>1, <3>2, MetastoreFields DEF AskedFor
  <2>6. Constraining(m)'
    BY <2>1, <2>3, <2>4, <2>5 DEF Constraining, FiltersOf
  <2>7. Walked(m)'
    BY <2>2, <2>3, <2>4 DEF Walked
  <2> QED BY <1>5, <2>2, <2>3, <2>4, <2>6, <2>7
<1>15. CASE GetTableGrants
  <2>1. /\ pc = "functions" /\ pc' = "nextTable" /\ table \in dbx.tables
        /\ UNCHANGED <<schemas, schema, tables, table, functions, seen>>
    BY <1>15 DEF GetTableGrants, walk
  <2>2. dbx = m /\ Listed(m) /\ Constraining(m) /\ Walked(m)
    BY <1>3, <2>1 DEF Resting
  <2>3. /\ workspace'.users = workspace.users
        /\ workspace'.servicePrincipals = workspace.servicePrincipals
        /\ workspace'.groups = workspace.groups /\ workspace'.members = workspace.members
        /\ workspace'.masks = workspace.masks /\ workspace'.filters = workspace.filters
        /\ workspace'.tables = workspace.tables \cup {table}
        /\ workspace'.grants = workspace.grants \cup GrantsIn(m, table)
    BY <1>1, <1>15, <2>2 DEF GetTableGrants, Workspace, GrantsOn, GrantsIn
  <2>4. Walked(m)'
    BY <2>1, <2>2, <2>3 DEF Walked
  <2> QED BY <1>5, <1>6, <2>1, <2>2, <2>3, <2>4
<1>16. CASE GetSchemaGrants
  <2>1. /\ pc = "nextTable" /\ pc' = "listFunctions" /\ tables = {}
        /\ UNCHANGED <<schemas, schema, tables, table, functions, seen>>
    BY <1>16 DEF GetSchemaGrants, walk
  <2>2. dbx = m /\ Listed(m) /\ Constraining(m) /\ Walked(m)
    BY <1>3, <2>1 DEF Resting
  <2>3. /\ workspace'.users = workspace.users /\ workspace'.tables = workspace.tables
        /\ workspace'.servicePrincipals = workspace.servicePrincipals
        /\ workspace'.groups = workspace.groups /\ workspace'.members = workspace.members
        /\ workspace'.masks = workspace.masks /\ workspace'.filters = workspace.filters
        /\ workspace'.grants = workspace.grants \cup GrantsIn(m, schema)
    BY <1>1, <1>16, <2>2 DEF GetSchemaGrants, Workspace, GrantsOn, GrantsIn
  <2>4. Walked(m)'
    BY <2>1, <2>2, <2>3 DEF Walked
  <2> QED BY <1>5, <1>6, <2>1, <2>2, <2>3, <2>4
<1>17. CASE ListFunctions
  <2>1. pc = "listFunctions" /\ pc' = "nextSchema" /\ UNCHANGED <<walk, workspace, seen>>
    BY <1>17 DEF ListFunctions
  <2>2. Listed(m) /\ Constraining(m) /\ Walked(m)
    BY <1>3, <2>1 DEF Resting
  <2>3. Walked(m)'
    BY <2>1, <2>2 DEF Walked, walk
  <2> QED BY <1>5, <1>6, <2>1, <2>2, <2>3 DEF walk
<1>18. CASE GetCatalogGrants
  <2>1. /\ pc = "nextSchema" /\ pc' = "export" /\ schemas = {}
        /\ UNCHANGED <<schemas, schema, tables, table, functions, seen>>
    BY <1>18 DEF GetCatalogGrants, walk
  <2>2. dbx = m /\ Listed(m) /\ Constraining(m) /\ Walked(m)
    BY <1>3, <2>1 DEF Resting
  <2>3. /\ workspace'.users = workspace.users /\ workspace'.tables = workspace.tables
        /\ workspace'.servicePrincipals = workspace.servicePrincipals
        /\ workspace'.groups = workspace.groups /\ workspace'.members = workspace.members
        /\ workspace'.masks = workspace.masks /\ workspace'.filters = workspace.filters
        /\ workspace'.grants = workspace.grants \cup GrantsIn(m, Catalog)
    BY <1>1, <1>18, <2>2 DEF GetCatalogGrants, Workspace, GrantsOn, GrantsIn
  <2>4. Walked(m)'
    BY <2>1, <2>2, <2>3 DEF Walked
  <2> QED BY <1>5, <1>6, <2>1, <2>2, <2>3, <2>4
<1>19. CASE Export
  <2>1. pc = "export" /\ pc' = "exported" /\ UNCHANGED <<walk, workspace, seen>>
    BY <1>19 DEF Export
  <2>2. Listed(m) /\ Constraining(m) /\ Walked(m)
    BY <1>3, <2>1 DEF Resting
  <2>3. Walked(m)'
    BY <2>1, <2>2 DEF Walked, walk
  <2> QED BY <1>5, <1>6, <2>1, <2>2, <2>3 DEF walk
<1>20. CASE ParserRaises \/ ExportRaises \/ RequestFails
  BY <1>20 DEF ParserRaises, ExportRaises, RequestFails
<1>21. CASE SourceChanges \/ UNCHANGED vars
  <2>1. UNCHANGED <<pc, walk, workspace>>
    BY <1>21 DEF SourceChanges, vars
  <2>2. seen' = seen
    BY <1>1, <1>21 DEF SourceChanges, vars
  <2>3. Listed(m) /\ Constraining(m) /\ Walked(m)
    BY <1>2, <2>1, <2>2
  <2>4. Walked(m)'
    BY <2>1, <2>3 DEF Walked, walk
  <2> QED BY <1>5, <1>6, <2>1, <2>3, <2>4 DEF walk
<1> QED BY <1>7, <1>8, <1>9, <1>10, <1>11, <1>12, <1>13, <1>14, <1>15, <1>16, <1>17, <1>18, <1>19,
           <1>20, <1>21 DEF Next

LEMMA WorkspaceIsACopy ==
    ASSUME TypeInv, FetchedInv, StillInv, Settled, NEW m \in seen, seen = {m}
    PROVE  Copies(workspace, m)
<1>1. workspace.tables \subseteq Wanted /\ Wanted \subseteq Table
  BY WorkspaceFields, DatabricksAssumption DEF TypeInv, TypeOK
<1>2. Listed(m) /\ Constraining(m) /\ Walked(m)
  BY DEF StillInv, Settled
<1>3. /\ schemas = {} /\ GrantsIn(m, Catalog) \subseteq workspace.grants
      /\ \A t \in Wanted \cap m.tables : t \in workspace.tables /\ GrantsIn(m, t) \subseteq workspace.grants
      /\ \A t \in Wanted : GrantsIn(m, SchemaOf[t]) \subseteq workspace.grants
  BY <1>2 DEF Walked, Settled, Elsewhere
<1>4. workspace.grants \subseteq m.grants
  BY AllOfOne DEF FetchedInv, From
<1>5. ASSUME NEW t \in Wanted \cap m.tables, NEW o \in Above(t), NEW g \in m.grants, g.on = o
      PROVE  g \in workspace.grants
  <2>1. o = t \/ o = Catalog \/ o = SchemaOf[t]
    BY <1>1 DEF Above
  <2> QED BY <1>3, <1>5, <2>1 DEF GrantsIn
<1>6. workspace.tables = m.tables \cap Wanted
  BY <1>1, <1>2, <1>3 DEF Walked
<1> QED BY <1>2, <1>4, <1>5, <1>6 DEF Copies, Listed, Constraining, Settled

-------------------------------------------------------------------------------
(* Where a principal has a policy *)

(* The policy that the role-based mapping builds for a principal serves a  *)
(* listed identity that is the principal, or is in it.                     *)
LEMMA PolicyServes ==
    ASSUME NEW s \in Workspace, NEW m, Copies(s, m),
           NEW x \in Identity \cap (m.users \cup m.servicePrincipals \cup m.groups),
           NEW q, q = x \/ q \in Containing(m.members, x) \cap m.groups,
           NEW t \in Wanted \cap m.tables, Above(t) \cap Items(s, q) # {}
    PROVE  /\ RolePolicy(s, q) \in BuildRoleBasedExport(s)
           /\ x \in RolePolicy(s, q).objects /\ t \in RolePolicy(s, q).scopes
           /\ RolePolicy(s, q).cols[t] = ColumnsLeft(s, q, t)
           /\ RolePolicy(s, q).rows[t] = RowsLeft(s, q, t)
<1>1. /\ s.users = m.users /\ s.servicePrincipals = m.servicePrincipals
      /\ s.groups = m.groups /\ s.members = m.members /\ t \in s.tables
  BY DEF Copies
<1>2. x \in Identities(s) /\ x \notin Group
  BY <1>1, WorkspaceFields, DatabricksAssumption DEF Identities
<1>3. x \in PermissionObjects(s, q)
  <2>1. CASE q = x
    BY <1>2, <2>1 DEF PermissionObjects
  <2>2. CASE q \in Containing(m.members, x) \cap m.groups
    <3>1. q \in s.groups \cap Group
      BY <1>1, <2>2 DEF Containing
    <3>2. x \in ListedMembers(s, q)
      BY <1>1, <2>2 DEF ListedMembers
    <3> QED BY <1>2, <3>1, <3>2 DEF PermissionObjects
  <2> QED BY <2>1, <2>2
<1>4. q \in Principal
  BY DEF Principal, Containing
<1>5. t \in Scopes(s, q)
  BY <1>1 DEF Scopes
<1> DEFINE scopes == Scopes(s, q)
<1>6. RolePolicy(s, q) =
          [objects |-> PermissionObjects(s, q), scopes |-> scopes,
           cols |-> [u \in scopes |-> ColumnsLeft(s, q, u)],
           rows |-> [u \in scopes |-> RowsLeft(s, q, u)]]
  BY DEF RolePolicy
<1> HIDE DEF scopes
<1>7. t \in scopes
  BY <1>5 DEF scopes
<1>8. RolePolicy(s, q) \in BuildRoleBasedExport(s)
  BY <1>3, <1>4 DEF BuildRoleBasedExport
<1> QED BY <1>3, <1>6, <1>7, <1>8

LEMMA TablesStand == TypeInv /\ FetchedInv /\ StillInv => TablesKept
<1> SUFFICES ASSUME TypeInv, FetchedInv, StillInv, Settled, UsageWhereItCounts(seen),
                    NEW m \in seen, seen = {m},
                    NEW x \in Identity \cap (m.users \cup m.servicePrincipals \cup m.groups),
                    NEW t \in Wanted \cap m.tables,
                    NEW p \in Granting(x, m), NEW o \in Above(t),
                    Permits({p}, {o}, ReadPrivileges, seen),
                    Uses({p, AccountUsers} \cup Known(p, m), o, seen)
             PROVE  PoliciesFor(x, t) # {}
  BY DEF TablesKept
<1> DEFINE s == workspace
<1>1. s \in Workspace /\ Copies(s, m)
  BY WorkspaceIsACopy DEF TypeInv, TypeOK
<1> HIDE DEF s
<1>2. /\ s.users = m.users /\ s.servicePrincipals = m.servicePrincipals
      /\ s.groups = m.groups /\ s.members = m.members
  BY <1>1 DEF Copies
<1>3. p \in s.users \cup s.servicePrincipals \cup s.groups \cup {AccountUsers}
  BY <1>2 DEF Granting, Known
<1>4. p \in DirectReaders(s, o)
  BY <1>1, <1>3, GrantedRead
<1>5. o \in Object /\ t \in Table
  BY DatabricksAssumption, AboveTransitive DEF Object
<1>6. CASE roleBased
  <2>1. p = x \/ p \in Containing(m.members, x) \cap m.groups
    BY <1>6 DEF Granting
  <2>2. Above(t) \cap Items(s, p) # {}
    BY <1>4, <1>5 DEF Items
  <2>3. /\ RolePolicy(s, p) \in BuildRoleBasedExport(s)
        /\ x \in RolePolicy(s, p).objects /\ t \in RolePolicy(s, p).scopes
    BY <1>1, <2>1, <2>2, PolicyServes
  <2>4. RolePolicy(s, p) \in export
    BY <1>6, <2>3 DEF FetchedInv, Settled, s
  <2> QED BY <2>3, <2>4 DEF PoliciesFor
<1>7. CASE ~roleBased
  <2>1. p = x \/ p \in {AccountUsers} \cup Known(x, m)
    BY <1>7 DEF Granting
  <2>2. Membership(s, x) = {AccountUsers} \cup Known(x, m)
    BY <1>1, <1>2, MembershipIsKnown
  <2>3. x \in Identities(s) /\ x \notin Group
    BY <1>1, <1>2, WorkspaceFields, DatabricksAssumption DEF Identities
  <2>4. x \in Readers(s, o) \ (s.groups \cap Group)
    BY <1>4, <2>1, <2>2, <2>3 DEF Readers
  <2>5. TablePolicy(s, o) \in export
    <3>1. \E g \in s.grants : g.on = o
      BY <1>4 DEF DirectReaders, Has
    <3> QED BY <1>5, <1>7, <3>1 DEF FetchedInv, Settled, BuildTableBasedExport, s
  <2>6. x \in TablePolicy(s, o).objects /\ t \in TablePolicy(s, o).scopes
    BY <1>5, <2>4 DEF TablePolicy
  <2> QED BY <2>5, <2>6 DEF PoliciesFor
<1> QED BY <1>6, <1>7

(* When nothing changes during a run, nobody loses a table that is his     *)
(* through a principal that may read it by its grants and those of its     *)
(* groups, in both mappings.                                               *)
THEOREM TablesAreKept == Spec => []TablesKept
BY TypeInit, TypeNext, FetchedInit, FetchedNext, StillInit, StillNext, TablesStand, PTL DEF Spec

-------------------------------------------------------------------------------
(* The groups that masks and filters name *)

(* A group whose groups may read a table reads it by the search. *)
LEMMA GroupsRead ==
    ASSUME NEW s \in Workspace, NEW m, Copies(s, m), NEW g \in m.groups,
           NEW t \in Wanted \cap m.tables, MayRead({AccountUsers} \cup Known(g, m), t, {m})
    PROVE  HasReadPermissions(s, g, t)
<1> DEFINE H    == {AccountUsers} \cup Known(g, m)
           Lent == UNION {KeyPermissions(s, h, k) : h \in H, k \in Above(t)}
<1>1. Membership(s, g) = H
  BY MembershipIsKnown DEF Copies
<1>2. t \in Object /\ t \in Above(t) /\ \A k \in Above(t) : k \in Object
  <2>1. t \in Object /\ t \in Above(t)
    BY DatabricksAssumption DEF Object, Above
  <2> QED BY <2>1, AboveTransitive
<1>3. ASSUME NEW h \in H, NEW k \in Above(t), NEW n \in KeyPermissions(s, h, k)
      PROVE  n \in Lent
  OBVIOUS
<1> HIDE DEF H, Lent
<1>4. Uses(H, t, {m}) /\ Permits(H, Above(t), ReadPrivileges, {m})
  BY DEF MayRead, H
<1>5. "catalog" \in Lent
  <2>1. PICK h \in H, k \in Above(t) : k = Catalog /\ Has(s, h, k, UseCatalog)
    BY <1>2, <1>4, GroupsUse
  <2> QED BY <1>2, <1>3, <2>1, GroupsBear
<1>6. "schema" \in Lent
  <2>1. PICK h \in H, k \in Above(t) : k \notin Table /\ Has(s, h, k, UseSchema)
    BY <1>2, <1>4, GroupsUse
  <2> QED BY <1>2, <1>3, <2>1, GroupsBear
<1>7. "read" \in Lent
  <2>1. PICK h \in H, k \in Above(t) : Has(s, h, k, ReadPrivileges)
    BY <1>2, <1>4, Reached
  <2> QED BY <1>2, <1>3, <2>1, GroupsBear
<1> QED BY <1>1, <1>5, <1>6, <1>7 DEF HasReadPermissions, Needed, Lent

(* A group that a mask or filter of the table names has a policy for it,   *)
(* and each listed identity that is in the group is its member.            *)
LEMMA NamedServes ==
    ASSUME TypeInv, FetchedInv, StillInv, Settled, roleBased, NEW m \in seen, seen = {m},
           NEW t \in Wanted \cap m.tables, NEW g \in m.groups \cap Group,
           MayRead({AccountUsers} \cup Known(g, m), t, seen), g \in GroupsNamed(workspace, t),
           NEW x \in (m.users \cup m.servicePrincipals) \cap Identity, g \in Containing(m.members, x)
    PROVE  /\ ColumnsLeft(workspace, g, t) \subseteq ColumnsExported(x, t)
           /\ RowsLeft(workspace, g, t) \subseteq RowsExported(x, t)
<1> DEFINE s == workspace
<1>1. s \in Workspace /\ Copies(s, m)
  BY WorkspaceIsACopy DEF TypeInv, TypeOK
<1>2. HasReadPermissions(s, g, t)
  BY <1>1, GroupsRead
<1>3. t \in Above(t) /\ t \in s.tables
  BY <1>1 DEF Above, Copies
<1>4. Above(t) \cap Items(s, g) # {}
  BY <1>2, <1>3 DEF Items
<1>5. /\ RolePolicy(s, g) \in BuildRoleBasedExport(s)
      /\ x \in RolePolicy(s, g).objects /\ t \in RolePolicy(s, g).scopes
      /\ RolePolicy(s, g).cols[t] = ColumnsLeft(s, g, t)
      /\ RolePolicy(s, g).rows[t] = RowsLeft(s, g, t)
  <2> HIDE DEF s
  <2> QED BY <1>1, <1>4, PolicyServes
<1>6. RolePolicy(s, g) \in PoliciesFor(x, t)
  BY <1>5 DEF FetchedInv, Settled, PoliciesFor
<1> QED BY <1>5, <1>6 DEF ColumnsExported, RowsExported

(* The one mask of a column is the one that was fetched for it, the one    *)
(* filter of a table likewise.                                             *)
LEMMA MaskOfColumn ==
    ASSUME TypeInv, FetchedInv, StillInv, Settled, NEW m \in seen, seen = {m},
           NEW r \in m.masks, r.table \in Wanted \cap m.tables
    PROVE  /\ [table |-> r.table, column |-> r.column, body |-> m.maskBodies[r.function]]
                  \in workspace.masks
           /\ r.column \in workspace.columns[r.table]
           /\ \A d \in workspace.masks : d.table = r.table /\ d.column = r.column
                                         => d.body = m.maskBodies[r.function]
<1>1. m \in Metastore /\ r.table \in workspace.tables /\ Copies(workspace, m)
  BY WorkspaceIsACopy DEF TypeInv, TypeOK, Copies
<1>2. Fetched(workspace, r.table, {}, {m})
  BY <1>1 DEF FetchedInv, TablesFetched
<1>3. MaskFetched(workspace, r, {m}) /\ workspace.columns[r.table] = m.columns[r.table]
  BY <1>2 DEF Fetched
<1>4. ASSUME NEW d \in workspace.masks, d.table = r.table, d.column = r.column
      PROVE  d.body = m.maskBodies[r.function]
  <2>1. PICK q \in m.masks :
            d = [table |-> q.table, column |-> q.column, body |-> m.maskBodies[q.function]]
    BY <1>1 DEF Copies, MasksOf
  <2>2. q.table = r.table /\ q.column = r.column
    BY <1>4, <2>1
  <2>3. q = r
    BY <1>1, <2>2 DEF Metastore
  <2> QED BY <2>1, <2>3
<1> QED BY <1>1, <1>3, <1>4, MetastoreFields DEF MaskFetched

LEMMA FilterOfTable ==
    ASSUME TypeInv, FetchedInv, StillInv, Settled, NEW m \in seen, seen = {m},
           NEW r \in m.filters, r.table \in Wanted \cap m.tables
    PROVE  /\ [table |-> r.table, body |-> m.filterBodies[r.function]] \in workspace.filters
           /\ \A d \in workspace.filters : d.table = r.table => d.body = m.filterBodies[r.function]
<1>1. m \in Metastore /\ r.table \in workspace.tables /\ Copies(workspace, m)
  BY WorkspaceIsACopy DEF TypeInv, TypeOK, Copies
<1>2. Fetched(workspace, r.table, {}, {m})
  BY <1>1 DEF FetchedInv, TablesFetched
<1>3. FilterFetched(workspace, r, {m})
  BY <1>2 DEF Fetched
<1>4. ASSUME NEW d \in workspace.filters, d.table = r.table
      PROVE  d.body = m.filterBodies[r.function]
  <2>1. PICK q \in m.filters : d = [table |-> q.table, body |-> m.filterBodies[q.function]]
    BY <1>1 DEF Copies, FiltersOf
  <2>2. q.table = r.table
    BY <1>4, <2>1
  <2>3. q = r
    BY <1>1, <2>2 DEF Metastore
  <2> QED BY <2>1, <2>3
<1> QED BY <1>3, <1>4 DEF FilterFetched

LEMMA GroupsStand == TypeInv /\ FetchedInv /\ StillInv => GroupsAreServed
<1> SUFFICES ASSUME TypeInv, FetchedInv, StillInv, Settled, roleBased, NEW m \in seen, seen = {m},
                    NEW t \in Wanted \cap m.tables, NEW g \in m.groups \cap Group,
                    MayRead({AccountUsers} \cup Known(g, m), t, seen),
                    NEW x \in (m.users \cup m.servicePrincipals)
                              \cap {x \in Identity : g \in Containing(m.members, x)}
             PROVE  /\ \A r \in m.masks :
                          /\ r.table = t
                          /\ UnmaskForGroup(m.maskBodies[r.function])
                          /\ MaskGroup(m.maskBodies[r.function]) = g
                          => r.column \in ColumnsExported(x, t)
                    /\ \A r \in m.filters : \A i \in BranchesFound(m.filterBodies[r.function]) :
                          r.table = t /\ m.filterBodies[r.function].whens[i].group = g
                          => FilterFor(m.filterBodies[r.function], {g, AccountUsers} \cup Known(g, m))
                               \subseteq RowsExported(x, t)
  BY ZenonT(60) DEF GroupsAreServed
<1>1. workspace \in Workspace /\ Copies(workspace, m) /\ m \in Metastore
  BY WorkspaceIsACopy DEF TypeInv, TypeOK
<1>2. Assigned(workspace, g) = {g, AccountUsers} \cup Known(g, m)
  <2>1. Membership(workspace, g) = {AccountUsers} \cup Known(g, m)
    BY <1>1, MembershipIsKnown DEF Copies
  <2> QED BY <2>1 DEF Assigned
<1>3. ASSUME g \in GroupsNamed(workspace, t)
      PROVE  /\ ColumnsLeft(workspace, g, t) \subseteq ColumnsExported(x, t)
             /\ RowsLeft(workspace, g, t) \subseteq RowsExported(x, t)
  BY <1>3, NamedServes
<1>4. ASSUME NEW r \in m.masks, r.table = t, MaskGroup(m.maskBodies[r.function]) = g,
             UnmaskForGroup(m.maskBodies[r.function])
      PROVE  r.column \in ColumnsExported(x, t)
  <2> DEFINE body == m.maskBodies[r.function]
             mask == [table |-> r.table, column |-> r.column, body |-> body]
  <2>1. /\ mask \in workspace.masks /\ r.column \in workspace.columns[t]
        /\ \A d \in workspace.masks : d.table = t /\ d.column = r.column => d.body = body
    BY <1>4, MaskOfColumn
  <2>2. mask.table = t /\ mask.body = body /\ SupportedMask(body) /\ ~MaskForGroup(body)
    BY <1>4 DEF SupportedMask, UnmaskForGroup, MaskForGroup
  <2>3. g \in GroupsNamed(workspace, t)
    <3> HIDE DEF mask, body
    <3>1. MaskGroup(body) = g
      BY <1>4 DEF body
    <3> QED BY <2>1, <2>2, <3>1 DEF GroupsNamed
  <2>4. ~Denies(body, Assigned(workspace, g))
    BY <1>2, <1>4, <2>2 DEF Denies
  <2>5. r.column \notin DeniedColumns(workspace, g, t)
    <3> HIDE DEF mask, body
    <3> QED BY <2>1, <2>4 DEF DeniedColumns
  <2>6. r.column \in Column
    BY <1>1, MetastoreFields DEF MaskRef
  <2>7. r.column \in ColumnsLeft(workspace, g, t)
    BY <2>1, <2>5, <2>6 DEF ColumnsLeft
  <2> QED BY <1>3, <2>3, <2>7
<1>5. ASSUME NEW r \in m.filters, NEW i \in BranchesFound(m.filterBodies[r.function]), r.table = t,
             m.filterBodies[r.function].whens[i].group = g,
             NEW row \in FilterFor(m.filterBodies[r.function], {g, AccountUsers} \cup Known(g, m))
      PROVE  row \in RowsExported(x, t)
  <2> DEFINE body   == m.filterBodies[r.function]
             filter == [table |-> r.table, body |-> body]
  <2>1. /\ filter \in workspace.filters
        /\ \A d \in workspace.filters : d.table = t => d.body = body
    BY <1>5, FilterOfTable
  <2>2. filter.table = t /\ filter.body = body
    BY <1>5
  <2>3. g \in GroupsNamed(workspace, t)
    <3>1. i \in BranchesFound(body) /\ body.whens[i].group = g
      BY <1>5
    <3> HIDE DEF filter, body
    <3> QED BY <2>1, <2>2, <3>1 DEF GroupsNamed
  <2>4. row \in Row /\ row \in FilterFor(body, Assigned(workspace, g))
    BY <1>2, <1>5 DEF FilterFor
  <2>5. row \in RowsOf(body, Assigned(workspace, g))
    BY <1>5, <2>4 DEF RowsOf, SupportedFilter
  <2>6. row \in RowsLeft(workspace, g, t)
    <3> HIDE DEF filter, body
    <3> QED BY <2>1, <2>4, <2>5 DEF RowsLeft
  <2> QED BY <1>3, <2>3, <2>6
<1> QED BY <1>4, <1>5

(* Nor do the members of a group that a mask unmasks a column for, or that *)
(* a branch of a row filter names, lose what it lets the group see, where  *)
(* the groups of the group can read the table.                             *)
THEOREM NamedGroupsAreServed == Spec => []GroupsAreServed
BY TypeInit, TypeNext, FetchedInit, FetchedNext, StillInit, StillNext, GroupsStand, PTL DEF Spec
===============================================================================
