------------------------ MODULE WeaverRefinementProofs ------------------------
(***************************************************************************)
(* The agent implements PolicySync, for every value of its constants: with *)
(* administrators away while it works, a run publishes exactly the grants  *)
(* of one export in one step, or nothing.                                  *)
(***************************************************************************)
EXTENDS WeaverAgentRefinement, WeaverPartsProofs

(* A policy that takes a whole table away opens none of its parents.  A    *)
(* denial is compared with the paths opened as they are (weaver.py:755),   *)
(* so that below a schema opened as a whole it would get lost.             *)
DeniedTables(p) == TablesWithAllColumnsDenied(p) \cup TablesWithAllRowsDenied(p)
OpensNoParent ==
    RoleBased =>
        \A e \in Exports : \A p \in ToSet(e) :
            \A s \in ToSet(p.scopes), path \in DeniedTables(p) :
                s.grant /\ IsPrefix(PathOf(s), path) => PathOf(s) = path

(* So it is when policies open tables only, as those of the connectors do. *)
ScopesAreTables ==
    RoleBased =>
        \A e \in Exports : \A p \in ToSet(e) :
            \A s \in ToSet(p.scopes) : s.grant => s.table # None

(* The export is at hand from map_policy to the end of the run, and the    *)
(* listing is what Fabric holds.                                           *)
RunInv ==
    /\ pc \in Resting \cup {"map"} => export = NoExport
    /\ pc \in {"build", "lookup"} => current = fabric

(* The grants of a set of roles of the item, and of the roles built. *)
AccessOf(S) == UNION {Opens(r) : r \in {r \in S : ~IsForeign(r)}}
BuiltAccess == UNION {Opens(built[i]) : i \in DOMAIN built}

-------------------------------------------------------------------------------
(* What a policy opens is what its parts open *)

LEMMA DeniedAsBuilt ==
    ASSUME NEW p, NEW path
    PROVE  Denied(p, path) <=> path \in DeniedTables(p)
<1>1. (\E c \in ColsOf(p) : c.path = path /\ c.columns = {})
      <=> \E c \in ActiveColumns(p) : PathOf(c) = path /\ c.columns = {}
  <2> DEFINE of(c) == [path |-> PathOf(c), columns |-> c.columns]
  <2>1. \A c : of(c).path = PathOf(c) /\ of(c).columns = c.columns
    OBVIOUS
  <2>2. ColsOf(p) = {of(c) : c \in ActiveColumns(p)}
    BY DEF ColsOf
  <2> HIDE DEF of
  <2> QED  BY <2>1, <2>2
<1>2. (\E r \in RowsOf(p) : r.path = path /\ r.filter \in {DenyAll, "false"})
      <=> \E r \in ActiveRows(p) : PathOf(r) = path /\ r.filter \in {DenyAll, "false"}
  <2> DEFINE of(r) == [path |-> PathOf(r), filter |-> r.filter]
  <2>1. \A r : of(r).path = PathOf(r) /\ of(r).filter = r.filter
    OBVIOUS
  <2>2. RowsOf(p) = {of(r) : r \in {r \in ActiveRows(p) : r.filter # "true"}}
    BY DEF RowsOf
  <2> HIDE DEF of
  <2> QED  BY <2>1, <2>2, RuleAssumption
<1> QED  BY <1>1, <1>2
            DEF Denied, DeniedTables, TablesWithAllColumnsDenied, TablesWithAllRowsDenied

(* The constraints that bear on an open path are those of the policy, once *)
(* nothing below it is denied as a whole.                                  *)
LEMMA BearsTheSame ==
    ASSUME NEW p, NEW paths, NEW path \in paths,
           \A d \in DeniedTables(p) : ~IsPrefix(path, d)
    PROVE  LET cols == {[path |-> PathOf(c), columns |-> c.columns] :
                          c \in {c \in ActiveColumns(p) : c.columns # {}}}
               rows == {[path |-> PathOf(r), filter |-> r.filter] :
                          r \in {r \in ActiveRows(p) :
                                   r.filter \notin {DenyAll, "true", "false"}}}
           IN  /\ Under(path, {c \in cols : MatchesTablePaths(c.path, paths)})
                    = Under(path, ColsOf(p))
               /\ Under(path, {r \in rows : MatchesTablePaths(r.path, paths)})
                    = Under(path, RowsOf(p))
<1> DEFINE cols == {[path |-> PathOf(c), columns |-> c.columns] :
                      c \in {c \in ActiveColumns(p) : c.columns # {}}}
           rows == {[path |-> PathOf(r), filter |-> r.filter] :
                      r \in {r \in ActiveRows(p) :
                               r.filter \notin {DenyAll, "true", "false"}}}
<1>1. \A x : IsPrefix(path, x) => MatchesTablePaths(x, paths)
  BY DEF MatchesTablePaths
<1>2. ASSUME NEW c \in ActiveColumns(p), IsPrefix(path, PathOf(c)) PROVE c.columns # {}
  BY <1>2 DEF DeniedTables, TablesWithAllColumnsDenied
<1>3. ASSUME NEW r \in ActiveRows(p), IsPrefix(path, PathOf(r))
      PROVE  r.filter \notin {DenyAll, "false"}
  BY <1>3 DEF DeniedTables, TablesWithAllRowsDenied
<1>4. ASSUME NEW x PROVE x \in cols /\ IsPrefix(path, x.path) <=> x \in Under(path, ColsOf(p))
  BY <1>2 DEF Under, ColsOf
<1>5. ASSUME NEW x PROVE x \in rows /\ IsPrefix(path, x.path) <=> x \in Under(path, RowsOf(p))
  BY <1>3 DEF Under, RowsOf
<1> HIDE DEF cols, rows
<1>6. Under(path, {c \in cols : MatchesTablePaths(c.path, paths)}) = Under(path, ColsOf(p))
  BY <1>1, <1>4 DEF Under
<1>7. Under(path, {r \in rows : MatchesTablePaths(r.path, paths)}) = Under(path, RowsOf(p))
  BY <1>1, <1>5 DEF Under
<1> QED  BY <1>6, <1>7 DEF cols, rows

LEMMA RuleOpens ==
    ASSUME RoleBased, OpensNoParent, NEW e \in Exports, NEW p \in ToSet(e), p \in RolePolicy,
           NEW q \in PiecesOf(p), NEW path \in RuleOf(q).paths
    PROVE  /\ Opening(path, RuleOf(q).cols, RuleOf(q).rows) = Opening(path, ColsOf(p), RowsOf(p))
           /\ Opening(path, ColsOf(p), RowsOf(p)) \in Opened(p)
<1>1. /\ ToSet(q.scopes) \subseteq ToSet(p.scopes) /\ q.cols = p.cols /\ q.rows = p.rows
  BY ScopesOfPieces
<1>2. ColsOf(q) = ColsOf(p) /\ RowsOf(q) = RowsOf(p) /\ DeniedTables(q) = DeniedTables(p)
  BY <1>1 DEF ColsOf, RowsOf, DeniedTables, TablesWithAllColumnsDenied, TablesWithAllRowsDenied,
              ActiveColumns, ActiveRows
<1>3. PICK s \in ToSet(q.scopes) : s.grant /\ path = PathOf(s)
  BY DEF RuleOf, TablePaths
<1>4. path \notin DeniedTables(q)
  BY DEF RuleOf, DeniedTables
<1>5. \A d \in DeniedTables(q) : ~IsPrefix(path, d)
  BY <1>1, <1>2, <1>3, <1>4 DEF OpensNoParent
<1>6. /\ Under(path, RuleOf(q).cols) = Under(path, ColsOf(q))
      /\ Under(path, RuleOf(q).rows) = Under(path, RowsOf(q))
  BY <1>5, BearsTheSame DEF RuleOf
<1>7. ~Denied(p, path)
  BY <1>2, <1>4, DeniedAsBuilt
<1> QED  BY <1>1, <1>2, <1>3, <1>6, <1>7 DEF Opening, Opened

(* What a policy opens, its pieces open, in the same way. *)
LEMMA PiecesOpen ==
    ASSUME OpensNoParent, NEW e \in Exports, NEW p \in ToSet(e), p \in Policy
    PROVE  /\ \A q \in PiecesOf(p) : \A path \in RuleFor(q).paths :
                Opening(path, RuleFor(q).cols, RuleFor(q).rows) \in Opened(p)
           /\ \A g \in Opened(p) : \E q \in PiecesOf(p) : \E path \in RuleFor(q).paths :
                g = Opening(path, RuleFor(q).cols, RuleFor(q).rows)
<1>1. CASE RoleBased
  <2>1. p \in RolePolicy
    BY <1>1 DEF Policy
  <2>2. ASSUME NEW q \in PiecesOf(p), NEW path \in RuleFor(q).paths
        PROVE  /\ Opening(path, RuleFor(q).cols, RuleFor(q).rows) = Opening(path, ColsOf(p), RowsOf(p))
               /\ Opening(path, ColsOf(p), RowsOf(p)) \in Opened(p)
    BY <1>1, <2>1, <2>2, RuleOpens DEF RuleFor
  <2>3. ASSUME NEW g \in Opened(p)
        PROVE  \E q \in PiecesOf(p) : \E path \in RuleFor(q).paths :
                 g = Opening(path, ColsOf(p), RowsOf(p))
    <3>1. PICK s \in ToSet(p.scopes) : /\ s.grant /\ ~Denied(p, PathOf(s))
                                       /\ g = Opening(PathOf(s), ColsOf(p), RowsOf(p))
      BY <1>1, <2>3 DEF Opened
    <3>2. PathOf(s) \in RuleOf(p).paths
      BY <3>1, DeniedAsBuilt DEF RuleOf, TablePaths, DeniedTables
    <3>3. PICK q \in PiecesOf(p) : PathOf(s) \in RuleOf(q).paths
      BY <1>1, <2>1, <3>2, RulesOfPieces
    <3> QED  BY <1>1, <3>1, <3>3 DEF RuleFor
  <2> QED  BY <2>2, <2>3
<1>2. CASE ~RoleBased
  <2>1. PiecesOf(p) = {p}
    BY <1>2 DEF PiecesOf, ToSet
  <2>2. RuleFor(p).paths = {PathOf(p)} /\ RuleFor(p).cols = {} /\ RuleFor(p).rows = {}
    BY <1>2 DEF RuleFor
  <2>3. Opened(p) = {Opening(PathOf(p), {}, {})}
    BY <1>2 DEF Opened
  <2> QED  BY <2>1, <2>2, <2>3
<1> QED  BY <1>1, <1>2

NameInPath(x) ==
    IF <<x.schema, x.table>> \in DOMAIN Mirror THEN Mirror[<<x.schema, x.table>>] ELSE x.table

LEMMA TablePath ==
    ASSUME NEW x, x.table # None
    PROVE  PathOf(x) = IF FlatPaths THEN <<NameInPath(x)>> ELSE <<x.schema, NameInPath(x)>>
BY DEF PathOf, GetTableMapping, NameInPath

LEMMA TablesOpenNoParent ==
    ASSUME ScopesAreTables
    PROVE  OpensNoParent
<1> SUFFICES ASSUME RoleBased, NEW e \in Exports, NEW p \in ToSet(e), NEW s \in ToSet(p.scopes),
                    NEW path \in DeniedTables(p), s.grant, IsPrefix(PathOf(s), path)
             PROVE  PathOf(s) = path
  BY DEF OpensNoParent
<1>1. p \in RolePolicy
  BY AgentAssumption DEF Exports, Policy, ToSet
<1>2. PICK c : c \in ColumnConstraint \cup RowConstraint /\ path = PathOf(c)
  BY <1>1 DEF RolePolicy, DeniedTables, TablesWithAllColumnsDenied, TablesWithAllRowsDenied,
              ActiveColumns, ActiveRows
<1>3. s.table # None /\ c.table # None
  BY <1>2, RuleAssumption DEF ScopesAreTables, ColumnConstraint, RowConstraint
<1>4. CASE FlatPaths
  <2>1. PICK a, b : PathOf(s) = <<a>> /\ path = <<b>>
    BY <1>2, <1>3, <1>4, TablePath
  <2>2. SubSeq(<<a>>, 1, 1)[1] = a /\ SubSeq(<<b>>, 1, 1)[1] = b
    OBVIOUS
  <2> QED  BY <2>1, <2>2 DEF IsPrefix
<1>5. CASE ~FlatPaths
  <2>1. PICK a, b, d, f : PathOf(s) = <<a, b>> /\ path = <<d, f>>
    BY <1>2, <1>3, <1>5, TablePath
  <2>2. /\ SubSeq(<<a, b>>, 1, 2)[1] = a /\ SubSeq(<<a, b>>, 1, 2)[2] = b
        /\ SubSeq(<<d, f>>, 1, 2)[1] = d /\ SubSeq(<<d, f>>, 1, 2)[2] = f
    OBVIOUS
  <2> QED  BY <2>1, <2>2 DEF IsPrefix
<1> QED  BY <1>4, <1>5

-------------------------------------------------------------------------------
(* What is built grants what the export does *)

LEMMA WhoStands ==
    ASSUME NEW e, NEW objects, NEW x
    PROVE  x \in Stands(e, objects) <=>
             \E i \in DOMAIN e : \E o \in ToSet(e[i].objects) \cap objects :
               \E g \in Opened(e[i]) : x = To(o.principal, g)
BY DEF Stands, GrantsTo

LEMMA WhatOpens ==
    ASSUME NEW r, NEW x
    PROVE  x \in Opens(r) <=>
             \E m \in r.members : \E path \in r.rule.paths :
               x = To(m, Opening(path, r.rule.cols, r.rule.rows))
BY DEF Opens

KnownObjects == {o \in Object : o.known}
LookedUpObjects == {o \in Object : ~o.known /\ o.kind # "GROUP"}

(* Those the run has not found. *)
MissedNow == IF TransientErrors THEN {p \in Principal : graphMap[p] # "found"}
             ELSE Principal \ Directory

LEMMA MissedIsMissed ==
    ASSUME PoliciesInv
    PROVE  /\ MissedNow \in MissedOf
           /\ \A p \in Principal : /\ graphMap[p] = "found" => p \notin MissedNow
                                   /\ graphMap[p] = "missing" => p \in MissedNow
<1>1. \A p \in Principal : /\ graphMap[p] = "found" => p \in Directory
                           /\ graphMap[p] = "missing" => p \notin Directory \/ TransientErrors
  BY DEF PoliciesInv, CacheInv
<1> QED  BY <1>1 DEF MissedNow, MissedOf

(* Whoever is in a role of a policy is known in the export, or was looked  *)
(* up and found.                                                           *)
LEMMA MembersStand ==
    ASSUME GroupsApart, TypeOK, PoliciesInv, export # NoExport, NEW i \in DOMAIN export,
           NEW members, Resolves(graphMap, members, ToSet(export[i].objects), {}), NEW m \in members
    PROVE  \E o \in ToSet(export[i].objects) :
             /\ o.principal = m
             /\ o \in KnownObjects \/ (o \in LookedUpObjects /\ m \in Principal /\ graphMap[m] = "found")
<1>1. PICK o \in ToSet(export[i].objects) : o.principal = m /\ (o.known \/ graphMap[m] = "found")
  BY DEF Resolves
<1>2. o \in Object /\ export \in Export /\ m \in Principal
  BY <1>1, ObjectsType DEF PoliciesInv, Object
<1>3. ASSUME ~o.known PROVE o.kind # "GROUP" /\ graphMap[m] = "found"
  <2>1. Exported(o)
    BY <1>2, <1>3 DEF Exported
  <2>2. PICK u \in Object : Exported(u) /\ u.principal = m /\ u.kind # "GROUP"
    BY <1>1, <1>2, <1>3 DEF PoliciesInv, CacheInv
  <2> QED  BY <1>1, <1>2, <1>3, <2>1, <2>2 DEF GroupsApart
<1> QED  BY <1>1, <1>2, <1>3 DEF KnownObjects, LookedUpObjects

(* And all of these are in it. *)
LEMMA StandingAreMembers ==
    ASSUME TypeOK, NEW objects \in SUBSET Object, NEW members, NEW o \in objects,
           Resolves(graphMap, members, objects, {})
    PROVE  /\ o \in KnownObjects => o.principal \in members
           /\ o \in LookedUpObjects => o.principal \in members \/ graphMap[o.principal] = "missing"
BY DEF Resolves, Taken, KnownObjects, LookedUpObjects

(* What a role grants comes from its policy ... *)
LEMMA GrantedStands ==
    ASSUME GroupsApart, OpensNoParent, TypeOK, PoliciesInv, PartsInv, AllBuilt,
           NEW x \in BuiltAccess
    PROVE  \/ x \in Stands(export, KnownObjects)
           \/ x \in Stands(export, LookedUpObjects) /\ x.principal \notin MissedNow
<1>1. export # NoExport /\ export \in Exports /\ export \in Seq(Policy)
  BY DEF AllBuilt, TypeOK, Running, PoliciesInv, Exports
<1>2. PICK b \in DOMAIN built : x \in Opens(built[b])
  BY DEF BuiltAccess
<1>3. PICK q : IsPiece(q) /\ Made(graphMap, built[b], q, {})
  BY DEF PartsInv
<1>4. PICK i \in DOMAIN export : q \in PiecesOf(export[i])
  BY <1>3 DEF IsPiece, ToSet
<1> DEFINE p == export[i]
<1>5. p \in ToSet(export) /\ p \in Policy /\ q.objects = p.objects
  <2>1. p \in ToSet(export)
    BY DEF ToSet
  <2> HIDE DEF p
  <2> QED  BY <1>1, <1>4, <2>1, PieceType DEF p
<1>6. PICK m \in built[b].members : \E path \in built[b].rule.paths :
        x = To(m, Opening(path, built[b].rule.cols, built[b].rule.rows))
  BY <1>2, WhatOpens
<1>7. PICK path \in RuleFor(q).paths : x = To(m, Opening(path, RuleFor(q).cols, RuleFor(q).rows))
  BY <1>3, <1>6 DEF Made
<1>8. Opening(path, RuleFor(q).cols, RuleFor(q).rows) \in Opened(p)
  BY <1>1, <1>4, <1>5, PiecesOpen
<1>9. Resolves(graphMap, built[b].members, ToSet(export[i].objects), {})
  BY <1>3, <1>5 DEF Made
<1>10. PICK o \in ToSet(export[i].objects) :
         /\ o.principal = m
         /\ o \in KnownObjects \/ (o \in LookedUpObjects /\ m \in Principal /\ graphMap[m] = "found")
  BY <1>1, <1>9, MembersStand
<1>11. x.principal = m
  BY <1>7 DEF To
<1>12. CASE o \in KnownObjects
  <2>1. o \in ToSet(export[i].objects) \cap KnownObjects
    BY <1>12
  <2> QED  BY <1>7, <1>8, <1>10, <2>1, WhoStands
<1>13. CASE o \in LookedUpObjects /\ m \in Principal /\ graphMap[m] = "found"
  <2>1. o \in ToSet(export[i].objects) \cap LookedUpObjects
    BY <1>13
  <2>2. x \in Stands(export, LookedUpObjects)
    BY <1>7, <1>8, <1>10, <2>1, WhoStands
  <2>3. x.principal \notin MissedNow
    BY <1>11, <1>13, MissedIsMissed
  <2> QED  BY <2>2, <2>3
<1> QED  BY <1>10, <1>12, <1>13

(* ... and what a policy stands for is granted, but to those missed. *)
LEMMA StandingIsGranted ==
    ASSUME OpensNoParent, TypeOK, PoliciesInv, PartsInv, AllBuilt, NEW x,
           \/ x \in Stands(export, KnownObjects)
           \/ x \in Stands(export, LookedUpObjects) /\ x.principal \notin MissedNow
    PROVE  x \in BuiltAccess
<1>1. export # NoExport /\ export \in Exports /\ export \in Seq(Policy)
  BY DEF AllBuilt, TypeOK, Running, PoliciesInv, Exports
<1>2. PICK i \in DOMAIN export : \E o \in ToSet(export[i].objects) :
        /\ o \in KnownObjects \/ (o \in LookedUpObjects /\ x.principal \notin MissedNow)
        /\ \E g \in Opened(export[i]) : x = To(o.principal, g)
  BY WhoStands
<1>3. PICK o \in ToSet(export[i].objects) :
        /\ o \in KnownObjects \/ (o \in LookedUpObjects /\ x.principal \notin MissedNow)
        /\ \E g \in Opened(export[i]) : x = To(o.principal, g)
  BY <1>2
<1>4. PICK g \in Opened(export[i]) : x = To(o.principal, g)
  BY <1>3
<1> DEFINE p == export[i]
<1>5. p \in ToSet(export) /\ p \in Policy
  BY <1>1 DEF ToSet
<1>6. PICK q \in PiecesOf(p) : \E path \in RuleFor(q).paths :
        g = Opening(path, RuleFor(q).cols, RuleFor(q).rows)
  BY <1>1, <1>4, <1>5, PiecesOpen
<1>7. PICK path \in RuleFor(q).paths : g = Opening(path, RuleFor(q).cols, RuleFor(q).rows)
  BY <1>6
<1>8. q.objects = p.objects /\ ToSet(q.objects) \in SUBSET Object
  <2> HIDE DEF p
  <2> QED  BY <1>1, <1>5, PieceType
<1>9. o \in ToSet(q.objects) /\ o.principal \in Principal /\ x.principal = o.principal
  BY <1>4, <1>8 DEF Object, To
<1>10. ASSUME NEW members, Resolves(graphMap, members, ToSet(q.objects), {})
       PROVE  o.principal \in members
  BY <1>3, <1>8, <1>9, <1>10, StandingAreMembers, MissedIsMissed
<1>11. ~Resolves(graphMap, {}, ToSet(q.objects), {})
  BY <1>10
<1>12. PICK b \in DOMAIN built : Made(graphMap, built[b], q, {})
  BY <1>5, <1>7, <1>11, AllAccounted
<1>13. o.principal \in built[b].members /\ path \in built[b].rule.paths
       /\ x = To(o.principal, Opening(path, built[b].rule.cols, built[b].rule.rows))
  BY <1>4, <1>7, <1>10, <1>12 DEF Made
<1>14. x \in Opens(built[b])
  BY <1>13, WhatOpens
<1> QED  BY <1>14 DEF BuiltAccess

LEMMA BuiltIsPublished ==
    ASSUME GroupsApart, OpensNoParent, TypeOK, PoliciesInv, PartsInv, AllBuilt
    PROVE  BuiltAccess \in PS!Published(export)
<1>1. export \in Exports
  BY DEF AllBuilt, TypeOK, Running, PoliciesInv, Exports
<1>2. SureOf[export] = Stands(export, KnownObjects) /\ LookedOf[export] = Stands(export, LookedUpObjects)
  BY <1>1 DEF SureOf, LookedOf, KnownObjects, LookedUpObjects
<1>3. BuiltAccess = SureOf[export] \cup {g \in LookedOf[export] : g.principal \notin MissedNow}
  BY <1>2, GrantedStands, StandingIsGranted
<1> QED  BY <1>3, MissedIsMissed DEF PS!Published

-------------------------------------------------------------------------------
(* What a run works from *)

LEMMA InitRun == Init => RunInv
BY DEF Init, RunInv

LEMMA NextRun ==
    ASSUME ~AdminsInterleave, TypeOK, RunInv, [Next]_vars
    PROVE  RunInv'
<1> USE DEF RunInv, Resting, Running
<1>1. CASE UNCHANGED vars
  BY <1>1 DEF vars, locals, work, agent
<1>2. CASE Environment
  <2>1. pc \in Resting /\ UNCHANGED <<pc, export>>
    BY <1>2 DEF Environment, AdminCreate, AdminEdit, AdminDelete, AdminMayAct
  <2> QED  BY <2>1
<1>3. CASE Run \/ ApplyAgain
  BY <1>3 DEF Run, ApplyAgain, locals
<1>4. ASSUME NEW result \in Resting, End(result) PROVE RunInv'
  BY <1>4 DEF End
<1>5. CASE \/ CallDocumentedHandler \/ WarnNoMembers \/ PutRefused \/ NothingToSync \/ Fail
           \/ PutDataAccessPolicy \/ PutWithoutAnswer
  BY <1>4, <1>5 DEF CallDocumentedHandler, WarnNoMembers, PutRefused, NothingToSync, Fail,
                    PutDataAccessPolicy, PutWithoutAnswer
<1>6. CASE MapPolicy
  BY <1>4, <1>6 DEF MapPolicy
<1>7. CASE GetCurrentAccessPolicy
  BY <1>7 DEF GetCurrentAccessPolicy
<1>8. CASE \/ SplitNextPolicy \/ BuildDataAccessRolePolicy \/ BuildDataAccessPolicy
           \/ AddMember \/ SkipMember \/ FinishRole
  <2>1. /\ pc \in {"build", "lookup"} /\ pc' \in {"build", "lookup"}
        /\ UNCHANGED <<fabric, export, current>>
    BY <1>8 DEF SplitNextPolicy, BuildDataAccessRolePolicy, BuildDataAccessPolicy,
                AddMember, SkipMember, FinishRole
  <2> QED  BY <2>1
<1> QED  BY <1>1, <1>2, <1>3, <1>5, <1>6, <1>7, <1>8 DEF Next, Progress

-------------------------------------------------------------------------------
(* What the item holds after a run that wrote to it *)

(* The roles of the request, ids apart. *)
LEMMA BuiltAreStored ==
    ASSUME TypeOK, NEW T \in Stored(Request), NEW i \in DOMAIN built
    PROVE  \E r \in T : r.name = built[i].name /\ r.members = built[i].members /\ r.rule = built[i].rule
<1>1. PICK f : T = {IF q.id = NoId THEN [q EXCEPT !.id = f[q]] ELSE q : q \in Request}
  BY DEF Stored
<1> DEFINE q == WithId(i)
<1>2. q \in Request /\ q \in DataAccessPolicy
  BY RequestType DEF Request
<1>3. q.name = built[i].name /\ q.members = built[i].members /\ q.rule = built[i].rule
  BY WithIdIsBuilt
<1> HIDE DEF q
<1>4. (IF q.id = NoId THEN [q EXCEPT !.id = f[q]] ELSE q) \in T
  BY <1>1, <1>2
<1> QED  BY <1>2, <1>3, <1>4 DEF DataAccessPolicy

(* A set of roles that is what was built, ids apart, and the unmanaged     *)
(* roles grants what was built, and keeps the foreign roles of the item.   *)
LEMMA ReplacesAccess ==
    ASSUME RunInv, MergeInv, AllBuilt, NEW T,
           \A r \in T : \/ \E i \in DOMAIN built : /\ r.name = built[i].name
                                                   /\ r.members = built[i].members
                                                   /\ r.rule = built[i].rule
                        \/ r \in UnmanagedPolicies,
           UnmanagedPolicies \subseteq T,
           \A i \in DOMAIN built : \E r \in T : /\ r.name = built[i].name
                                                /\ r.members = built[i].members
                                                /\ r.rule = built[i].rule
    PROVE  /\ AccessOf(T) = BuiltAccess
           /\ {r \in T : IsForeign(r)} = {r \in fabric : IsForeign(r)}
<1>1. \A i \in DOMAIN built : EndsWithSuffix(built[i].name)
  BY DEF MergeInv, BuiltBearSuffix
<1>2. \A r : r \in UnmanagedPolicies <=> r \in fabric /\ IsForeign(r)
  BY DEF RunInv, AllBuilt, UnmanagedPolicies, IsForeign
<1>3. \A r \in T : ~IsForeign(r) => \E i \in DOMAIN built : /\ r.members = built[i].members
                                                            /\ r.rule = built[i].rule
  BY <1>2
<1>4. \A i \in DOMAIN built : \E r \in T : /\ ~IsForeign(r) /\ r.members = built[i].members
                                           /\ r.rule = built[i].rule
  BY <1>1 DEF IsForeign
<1>5. \A r \in T : IsForeign(r) => r \in UnmanagedPolicies
  BY <1>1 DEF IsForeign
<1>6. {r \in T : IsForeign(r)} = {r \in fabric : IsForeign(r)}
  BY <1>2, <1>5
<1>7. \A r, q : r.members = q.members /\ r.rule = q.rule => Opens(r) = Opens(q)
  BY DEF Opens
<1>8. AccessOf(T) = BuiltAccess
  BY <1>3, <1>4, <1>7 DEF AccessOf, BuiltAccess
<1> QED  BY <1>6, <1>8

-------------------------------------------------------------------------------
(* Every step is one of PolicySync, or none *)

Access  == UNION {Opens(r) : r \in Managed}
Foreign == fabric \ Managed

LEMMA PhaseOf ==
    ASSUME pc \in Resting \cup Running
    PROVE  /\ Phase = "running" <=> pc \in Running
           /\ pc \in {"synced", "unchanged"} => Phase = "done"
           /\ pc \in {"failed", "empty"} => Phase = "failed"
BY DEF Phase, Resting, Running

LEMMA AccessIs == Access = AccessOf(fabric) /\ Foreign = {r \in fabric : IsForeign(r)}
BY DEF Access, Foreign, AccessOf, Managed

LEMMA ItemStays ==
    ASSUME UNCHANGED fabric
    PROVE  UNCHANGED <<Access, Foreign>>
BY DEF Access, Foreign, Managed, Opens, IsForeign, IsDefaultReader

(* The whole list is replaced. *)
LEMMA PutPublishes ==
    ASSUME GroupsApart, OpensNoParent, TypeOK, PoliciesInv, PartsInv, MergeInv, RunInv, Put
    PROVE  Access' \in PS!Published(export) /\ UNCHANGED Foreign
<1>1. AllBuilt /\ fabric' \in Stored(Request)
  BY DEF Put
<1>2. \A r \in fabric' : \/ \E i \in DOMAIN built : /\ r.name = built[i].name
                                                    /\ r.members = built[i].members
                                                    /\ r.rule = built[i].rule
                         \/ r \in UnmanagedPolicies
  BY <1>1, StoredRoles DEF MergeInv
<1>3. UnmanagedPolicies \subseteq fabric'
  BY <1>1, StoredRoles DEF MergeInv
<1>4. \A i \in DOMAIN built : \E r \in fabric' : /\ r.name = built[i].name
                                                 /\ r.members = built[i].members
                                                 /\ r.rule = built[i].rule
  BY <1>1, BuiltAreStored
<1>5. /\ AccessOf(fabric') = BuiltAccess
      /\ {r \in fabric' : IsForeign(r)} = {r \in fabric : IsForeign(r)}
  BY <1>1, <1>2, <1>3, <1>4, ReplacesAccess
<1>6. Access' = AccessOf(fabric') /\ Foreign' = {r \in fabric' : IsForeign(r)}
  BY DEF Access, Foreign, AccessOf, Managed, Opens, IsForeign, IsDefaultReader
<1> QED  BY <1>1, <1>5, <1>6, AccessIs, BuiltIsPublished

(* Nothing to sync: the item holds the grants of the export already. *)
LEMMA NothingPublishes ==
    ASSUME GroupsApart, OpensNoParent, TypeOK, PoliciesInv, PartsInv, MergeInv, RunInv, FiniteInv,
           NothingToSync
    PROVE  Access' \in PS!Published(export) /\ UNCHANGED Foreign
<1>1. AllBuilt /\ SyncCount = 0 /\ UNCHANGED fabric
  BY DEF NothingToSync
<1>2. fabric = Request
  BY <1>1, NothingCounted DEF SkipsOnlyWhenInSync, RunInv, AllBuilt
<1>3. \A r \in fabric : \/ \E i \in DOMAIN built : /\ r.name = built[i].name
                                                   /\ r.members = built[i].members
                                                   /\ r.rule = built[i].rule
                        \/ r \in UnmanagedPolicies
  BY <1>2, WithIdIsBuilt DEF Request
<1>4. UnmanagedPolicies \subseteq fabric
  BY <1>2 DEF Request
<1>5. \A i \in DOMAIN built : \E r \in fabric : /\ r.name = built[i].name
                                                /\ r.members = built[i].members
                                                /\ r.rule = built[i].rule
  BY <1>2, WithIdIsBuilt DEF Request
<1>6. AccessOf(fabric) = BuiltAccess
  BY <1>1, <1>3, <1>4, <1>5, ReplacesAccess
<1> QED  BY <1>1, <1>6, AccessIs, ItemStays, BuiltIsPublished

LEMMA InitImplements == Init => PS!Init
<1> SUFFICES ASSUME Init PROVE PS!Init
  OBVIOUS
<1>1. Access = {} /\ Foreign = {}
  BY DEF Init, Access, Foreign, Managed
<1>2. export = NoExport /\ Phase = "idle"
  BY DEF Init, Phase, Running
<1> QED  BY <1>1, <1>2 DEF PS!Init, Access, Foreign

(* A run that ends without a PUT leaves the item as it is. *)
LEMMA EndAborts ==
    ASSUME TypeOK, pc \in Running, NEW result \in {"failed", "empty"}, End(result), UNCHANGED fabric
    PROVE  PS!Abort
<1>1. Phase = "running" /\ Phase' = "failed" /\ export' = NoExport
  BY DEF End, Phase, Resting, Running
<1> QED  BY <1>1, ItemStays DEF PS!Abort, PS!item, Access, Foreign

LEMMA EndPublishes ==
    ASSUME TypeOK, AllBuilt, NEW result \in {"synced", "unchanged", "failed"}, End(result),
           Access' \in PS!Published(export) /\ UNCHANGED Foreign
    PROVE  PS!Publish
<1>1. Phase' \in {"done", "failed"} /\ export' = NoExport
  BY DEF End, Phase, Resting, Running
<1>2. export # NoExport
  BY DEF AllBuilt, TypeOK, Running
<1> QED  BY <1>1, <1>2 DEF PS!Publish, Access, Foreign

LEMMA NextImplements ==
    ASSUME ~AdminsInterleave, GroupsApart, OpensNoParent, TypeOK, PoliciesInv, PartsInv, MergeInv,
           RunInv, FiniteInv, [Next]_vars
    PROVE  [PS!Next]_(PS!vars)
<1>1. ASSUME UNCHANGED <<fabric, export>>, UNCHANGED Phase PROVE UNCHANGED PS!vars
  BY <1>1, ItemStays DEF PS!vars, PS!item, Access, Foreign
<1>2. CASE UNCHANGED vars
  <2>1. UNCHANGED Phase
    BY <1>2 DEF vars, Phase, Running
  <2> QED  BY <1>1, <1>2, <2>1 DEF vars, locals
<1>3. CASE \/ GetCurrentAccessPolicy \/ SplitNextPolicy \/ BuildDataAccessRolePolicy
           \/ BuildDataAccessPolicy \/ AddMember \/ SkipMember \/ FinishRole
  <2>1. pc \in Running /\ pc' \in Running /\ UNCHANGED <<fabric, export>>
    BY <1>3 DEF GetCurrentAccessPolicy, SplitNextPolicy, BuildDataAccessRolePolicy,
                BuildDataAccessPolicy, AddMember, SkipMember, FinishRole, Running
  <2>2. UNCHANGED Phase
    BY <2>1 DEF Phase, Running
  <2> QED  BY <1>1, <2>1, <2>2
<1>4. CASE Run \/ ApplyAgain
  <2>1. pc \in Resting /\ pc' = "map" /\ UNCHANGED <<fabric, export>>
    BY <1>4 DEF Run, ApplyAgain, locals
  <2>2. Phase # "running" /\ Phase' = "running"
    BY <2>1 DEF Phase, Resting, Running
  <2> QED  BY <2>1, <2>2, ItemStays DEF PS!Next, PS!Start, PS!item, Access, Foreign
<1>5. CASE Environment
  <2>1. pc \in Resting /\ UNCHANGED <<pc, export>>
    BY <1>5 DEF Environment, AdminCreate, AdminEdit, AdminDelete, AdminMayAct
  <2>2. Phase # "running" /\ UNCHANGED Phase
    BY <2>1 DEF Phase, Resting, Running
  <2> QED  BY <2>1, <2>2 DEF PS!Next, PS!Administer
<1>6. CASE MapPolicy
  <2>1. pc = "map" /\ pc \in Running /\ UNCHANGED fabric /\ export = NoExport
    BY <1>6 DEF MapPolicy, Running, RunInv
  <2>2. CASE End("empty")
    BY <2>1, <2>2, EndAborts DEF PS!Next
  <2>3. CASE export' \in Export \ {NoExport} /\ pc' = "apply"
    <3>1. Phase = "running" /\ UNCHANGED Phase
      BY <2>1, <2>3 DEF Phase, Running
    <3> QED  BY <2>1, <2>3, <3>1, ItemStays
                DEF PS!Next, PS!Read, PS!item, Access, Foreign, Exports
  <2> QED  BY <1>6, <2>2, <2>3 DEF MapPolicy
<1>7. CASE CallDocumentedHandler \/ WarnNoMembers \/ PutRefused \/ Fail
  <2>1. pc \in Running /\ End("failed") /\ UNCHANGED fabric
    BY <1>7 DEF CallDocumentedHandler, WarnNoMembers, PutRefused, Fail, AllBuilt, Running
  <2> QED  BY <2>1, EndAborts DEF PS!Next
<1>8. CASE PutDataAccessPolicy \/ PutWithoutAnswer
  <2>1. Put /\ AllBuilt /\ \E result \in {"synced", "failed"} : End(result)
    BY <1>8 DEF PutDataAccessPolicy, PutWithoutAnswer, Put
  <2> QED  BY <2>1, PutPublishes, EndPublishes DEF PS!Next
<1>9. CASE NothingToSync
  <2>1. AllBuilt /\ End("unchanged")
    BY <1>9 DEF NothingToSync
  <2> QED  BY <1>9, <2>1, NothingPublishes, EndPublishes DEF PS!Next
<1> QED  BY <1>2, <1>3, <1>4, <1>5, <1>6, <1>7, <1>8, <1>9 DEF Next, Progress

(* The agent implements PolicySync, with administrators away while it      *)
(* works, a suffix that sanitising leaves alone, groups exported as groups *)
(* and no denial below a parent that is opened: every step of a run is one *)
(* of PolicySync or changes nothing there, and the one that changes the    *)
(* item publishes exactly its export (weaver.py:111-124, 238-316).         *)
THEOREM AgentImplementsPolicySync ==
    ASSUME ~AdminsInterleave, SuffixSurvives, GroupsApart, OpensNoParent
    PROVE  Spec => ImplementsPolicySync
<1>1. Init => RunInv
  BY InitRun
<1>2. TypeOK /\ RunInv /\ [Next]_vars => RunInv'
  BY NextRun
<1>3. Init => FiniteInv
  BY InitFinite
<1>4. TypeOK /\ FiniteInv /\ [Next]_vars => FiniteInv'
  BY NextFinite
<1>5. Init => PS!Init
  BY InitImplements
<1>6. /\ TypeOK /\ PoliciesInv /\ PartsInv /\ MergeInv /\ RunInv /\ FiniteInv
      /\ [Next]_vars
      => [PS!Next]_(PS!vars)
  BY NextImplements
<1> QED  BY <1>1, <1>2, <1>3, <1>4, <1>5, <1>6, PartsInvariant, MergeInvariant, PTL
            DEF Spec, ImplementsPolicySync, PS!Spec
===============================================================================
