-------------------------- MODULE WeaverPolicyProofs --------------------------
(***************************************************************************)
(* More theorems about WeaverAgent, for every value of its constants: what *)
(* a policy denies or filters goes with every part of it, its principals   *)
(* become the members they are, and nothing to sync means that the item is *)
(* in sync.                                                                *)
(***************************************************************************)
EXTENDS WeaverAgentProofs, FiniteSetTheorems

-------------------------------------------------------------------------------
(* From the policies of the export to the roles built *)

SameSource(p, q) ==
    IF RoleBased THEN p.role = q.role ELSE p.schema = q.schema /\ p.table = q.table
ComesFrom(r, p) ==
    IF RoleBased THEN r.origin[1] = p.role ELSE r.origin = <<p.schema, p.table>>

(* No two policies of an export are of the same role or table: the         *)
(* connectors make one per grantee, principal or name.                     *)
PoliciesApart ==
    \A e \in Export : e # NoExport =>
        \A i, j \in DOMAIN e : SameSource(e[i], e[j]) => i = j

(* A principal that is exported without an id as a group is never exported *)
(* without an id as something else.                                        *)
Exported(o) ==
    /\ ~o.known
    /\ \E e \in Export \ {NoExport} : \E i \in DOMAIN e : o \in ToSet(e[i].objects)
GroupsApart ==
    \A o, q \in Object :
        Exported(o) /\ Exported(q) /\ o.principal = q.principal
        => (o.kind = "GROUP" <=> q.kind = "GROUP")

(* A policy at work is one of the export, or a part of one, with all of    *)
(* its principals and constraints.                                         *)
PartOf(q) ==
    \E i \in DOMAIN export :
        /\ SameSource(q, export[i])
        /\ q.objects = export[i].objects
        /\ RoleBased => q.cols = export[i].cols /\ q.rows = export[i].rows

(* A role carries the constraints of the policy it comes from. *)
Carries(r, policy) ==
    CarriesConstraints(r, IF ColumnSecurity THEN policy.cols ELSE {},
                          IF RowSecurity THEN policy.rows ELSE {})

(* The members of a role are the principals that have an id, in the export *)
(* or by Graph; those in rest are still to come.  A group that brings no   *)
(* id is left open: it is a member if it was found as something else.      *)
Taken(cache, o, members) ==
    \/ o.known /\ o.principal \in members
    \/ ~o.known /\ o.kind = "GROUP"
    \/ ~o.known /\ cache[o.principal] = "found" /\ o.principal \in members
    \/ ~o.known /\ cache[o.principal] = "missing"
Resolves(cache, members, objects, rest) ==
    /\ rest \subseteq objects
    /\ \A p \in members : \E o \in objects :
         o.principal = p /\ (o.known \/ cache[p] = "found")
    /\ \A o \in objects \ rest : Taken(cache, o, members)

BuiltFrom(r, rest) ==
    \E i \in DOMAIN export :
        /\ ComesFrom(r, export[i])
        /\ RoleBased => Carries(r, export[i])
        /\ Resolves(graphMap, r.members, ToSet(export[i].objects), rest)

(* What the cache of the lookups says is true, but for a transient error,  *)
(* and it speaks of principals that can be looked up.                      *)
CacheInv ==
    \A p \in Principal : graphMap[p] # "unasked" =>
        /\ graphMap[p] = "found" => p \in Directory
        /\ graphMap[p] = "missing" => p \notin Directory \/ TransientErrors
        /\ \E o \in Object : Exported(o) /\ o.principal = p /\ o.kind # "GROUP"

PoliciesInv ==
    /\ pc \notin {"build", "lookup"} => todo = <<>> /\ parts = <<>> /\ built = <<>>
    /\ export \in Export \cup {NoExport}
    /\ \A i \in DOMAIN todo : PartOf(todo[i])
    /\ \A i \in DOMAIN parts : PartOf(parts[i])
    /\ \A i \in DOMAIN built : BuiltFrom(built[i], {})
    /\ pc = "lookup" => BuiltFrom(dap, ToSet(pending))
    /\ CacheInv

(* What the rule built for a policy keeps of its constraints: all of them, *)
(* on every table it opens.                                                *)
LEMMA RuleCarries ==
    ASSUME NEW p \in RolePolicy, NEW r, r.rule = RuleOf(p)
    PROVE  Carries(r, p)
<1>1. \A x, paths : x \in Path /\ x \in paths => MatchesTablePaths(x, paths)
  <2> SUFFICES ASSUME NEW x \in Path, NEW paths, x \in paths
               PROVE  MatchesTablePaths(x, paths)
    OBVIOUS
  <2>1. Len(x) <= Len(x)
    BY DEF Path
  <2> QED  BY <2>1 DEF MatchesTablePaths, IsPrefix
<1>2. ASSUME ColumnSecurity, NEW c \in p.cols, c.grant, PathOf(c) \in RuleOf(p).paths
      PROVE  [path |-> PathOf(c), columns |-> c.columns] \in RuleOf(p).cols
  <2>1. c \in ActiveColumns(p)
    BY <1>2 DEF ActiveColumns
  <2>2. c.columns # {}
    BY <1>2, <2>1 DEF RuleOf, TablesWithAllColumnsDenied
  <2>3. PathOf(c) \in Path
    BY PathType DEF RolePolicy, ColumnConstraint
  <2>4. MatchesTablePaths(PathOf(c), RuleOf(p).paths)
    BY <1>1, <1>2, <2>3
  <2> QED  BY <2>1, <2>2, <2>4 DEF RuleOf
<1>3. ASSUME RowSecurity, NEW c \in p.rows, c.filter # "true", PathOf(c) \in RuleOf(p).paths
      PROVE  [path |-> PathOf(c), filter |-> c.filter] \in RuleOf(p).rows
  <2>1. c \in ActiveRows(p)
    BY <1>3 DEF ActiveRows
  <2>2. c.filter \notin {DenyAll, "false"}
    BY <1>3, <2>1 DEF RuleOf, TablesWithAllRowsDenied
  <2>3. PathOf(c) \in Path
    BY PathType DEF RolePolicy, RowConstraint
  <2>4. MatchesTablePaths(PathOf(c), RuleOf(p).paths)
    BY <1>1, <1>3, <2>3
  <2> QED  BY <1>3, <2>1, <2>2, <2>4 DEF RuleOf
<1> QED  BY <1>2, <1>3 DEF Carries, CarriesConstraints

(* Splitting changes the number and the scopes of a policy, nothing else. *)
LEMMA PartsKeepTheRest ==
    ASSUME NEW p \in RolePolicy, NEW i \in DOMAIN SplitPermissionScopes(p)
    PROVE  LET q == SplitPermissionScopes(p)[i]
           IN  /\ q.role = p.role /\ q.objects = p.objects
               /\ q.cols = p.cols /\ q.rows = p.rows
<1>1. CASE Len(p.scopes) <= MaxScopes
  <2>1. SplitPermissionScopes(p) = <<p>>
    BY <1>1 DEF SplitPermissionScopes
  <2> QED  BY <2>1
<1>2. CASE ~(Len(p.scopes) <= MaxScopes)
  <2> DEFINE total == (Len(p.scopes) + MaxScopes - 1) \div MaxScopes
             part(j) == SplitOffNewRolePolicy(p, j, (j - 1) * MaxScopes, j * MaxScopes)
  <2>1. SplitPermissionScopes(p) = [j \in 1 .. total |-> part(j)]
    BY <1>2 DEF SplitPermissionScopes
  <2>2. \A j : /\ part(j).role = p.role /\ part(j).objects = p.objects
              /\ part(j).cols = p.cols /\ part(j).rows = p.rows
    BY DEF SplitOffNewRolePolicy, RolePolicy
  <2> HIDE DEF total, part
  <2>3. SplitPermissionScopes(p)[i] = part(i)
    BY <2>1
  <2> QED  BY <2>2, <2>3
<1> QED  BY <1>1, <1>2

LEMMA InitPolicies == Init => PoliciesInv
BY DEF Init, PoliciesInv, CacheInv

(* What is built, and what the cache says, stands while the cache grows.   *)
CacheGrows == \A p \in Principal : graphMap[p] # "unasked" => graphMap'[p] = graphMap[p]

LEMMA ResolvedStay ==
    ASSUME NEW members \in SUBSET Principal, NEW objects \in SUBSET Object, NEW rest,
           Resolves(graphMap, members, objects, rest), CacheGrows
    PROVE  Resolves(graphMap', members, objects, rest)
<1>1. \A o \in objects : o.principal \in Principal
  BY DEF Object
<1> QED  BY <1>1 DEF Resolves, Taken, CacheGrows

LEMMA ObjectsType ==
    ASSUME TypeOK, NEW i \in DOMAIN export, export # NoExport
    PROVE  \A o \in ToSet(export[i].objects) : o \in Object
<1>1. export[i] \in Policy
  BY DEF TypeOK
<1>2. export[i].objects \in Seq(Object)
  BY <1>1 DEF Policy, RolePolicy, TablePolicy
<1> QED  BY <1>2 DEF ToSet

LEMMA BuiltStays ==
    ASSUME TypeOK, NEW r \in DataAccessPolicy, NEW rest, export # NoExport, export' = export,
           BuiltFrom(r, rest), CacheGrows
    PROVE  \E i \in DOMAIN export' :
             /\ ComesFrom(r, export'[i])
             /\ RoleBased => Carries(r, export'[i])
             /\ Resolves(graphMap', r.members, ToSet(export'[i].objects), rest)
<1>1. PICK i \in DOMAIN export : /\ ComesFrom(r, export[i])
                                 /\ RoleBased => Carries(r, export[i])
                                 /\ Resolves(graphMap, r.members, ToSet(export[i].objects), rest)
  BY DEF BuiltFrom
<1>2. ToSet(export[i].objects) \subseteq Object
  BY ObjectsType
<1>3. r.members \subseteq Principal
  BY DEF DataAccessPolicy
<1> QED  BY <1>1, <1>2, <1>3, ResolvedStay

(* The policies at work and the roles built stand while the run looks up   *)
(* principals, and the cache only grows.                                   *)
LEMMA WorkStays ==
    ASSUME TypeOK, PoliciesInv, UNCHANGED <<export, built>>, CacheGrows,
           pc \in {"build", "lookup"}
    PROVE  /\ \A p : PartOf(p) => (\E i \in DOMAIN export' :
                 /\ SameSource(p, export'[i])
                 /\ p.objects = export'[i].objects
                 /\ RoleBased => p.cols = export'[i].cols /\ p.rows = export'[i].rows)
           /\ (\A i \in DOMAIN built : BuiltFrom(built[i], {}))'
           /\ export' \in Export \cup {NoExport}
<1>1. export # NoExport
  BY DEF TypeOK, Running
<1>2. ASSUME NEW i \in DOMAIN built PROVE built[i] \in DataAccessPolicy /\ BuiltFrom(built[i], {})
  BY DEF TypeOK, PoliciesInv
<1>3. (\A i \in DOMAIN built : BuiltFrom(built[i], {}))'
  <2> SUFFICES ASSUME NEW i \in DOMAIN built' PROVE BuiltFrom(built[i], {})'
    OBVIOUS
  <2>1. i \in DOMAIN built /\ built'[i] = built[i]
    OBVIOUS
  <2> DEFINE r == built[i]
  <2>2. r \in DataAccessPolicy /\ BuiltFrom(r, {})
    BY <1>2, <2>1
  <2>3. \E k \in DOMAIN export' :
             /\ ComesFrom(r, export'[k])
             /\ RoleBased => Carries(r, export'[k])
             /\ Resolves(graphMap', r.members, ToSet(export'[k].objects), {})
    <3> HIDE DEF r
    <3> QED  BY <1>1, <2>2, BuiltStays
  <2> QED
    BY <2>1, <2>3
       DEF BuiltFrom, ComesFrom, Carries, CarriesConstraints, Resolves, Taken
<1> QED  BY <1>3 DEF PartOf, PoliciesInv

(* The principal looked up is one of the policy's, and what is learnt of   *)
(* it is true.                                                             *)
LEMMA LookupKeepsCache ==
    ASSUME TypeOK, PoliciesInv, pc = "lookup", pending # <<>>,
           NEW answer \in {"found", "missing"}, Lookup(Head(pending), answer)
    PROVE  CacheInv' /\ CacheGrows
<1> DEFINE o == Head(pending)
<1>1. o \in Object /\ o \in ToSet(pending)
  BY HeadTailProperties DEF TypeOK, ToSet
<1>2. PICK i \in DOMAIN export : ToSet(pending) \subseteq ToSet(export[i].objects)
  BY DEF PoliciesInv, BuiltFrom, Resolves
<1>3. export \in Export /\ export # NoExport
  BY DEF TypeOK, Running, PoliciesInv
<1>4. ~o.known => Exported(o)
  BY <1>1, <1>2, <1>3 DEF Exported
<1>5. o.principal \in Principal
  BY <1>1 DEF Object
<1>6. CASE AsksGraph(o)
  <2>1. graphMap' = [graphMap EXCEPT ![o.principal] = answer]
    BY <1>6 DEF Lookup
  <2>2. ~o.known /\ graphMap[o.principal] = "unasked" /\ o.kind # "GROUP"
    BY <1>6 DEF AsksGraph
  <2>3. answer \in GraphAnswers(o.principal)
    BY <2>2 DEF Lookup, LookupAnswers
  <2>4. /\ answer = "found" => o.principal \in Directory
        /\ answer = "missing" => o.principal \notin Directory \/ TransientErrors
    BY <2>3 DEF GraphAnswers
  <2> HIDE DEF o
  <2>5. /\ graphMap'[o.principal] = answer
        /\ \A p \in Principal \ {o.principal} : graphMap'[p] = graphMap[p]
    BY <1>5, <2>1 DEF TypeOK
  <2>6. CacheGrows
    BY <2>2, <2>5 DEF CacheGrows
  <2>7. CacheInv'
    <3> SUFFICES ASSUME NEW p \in Principal, graphMap'[p] # "unasked"
                 PROVE  /\ graphMap'[p] = "found" => p \in Directory
                        /\ graphMap'[p] = "missing" => p \notin Directory \/ TransientErrors
                        /\ \E q \in Object : Exported(q) /\ q.principal = p /\ q.kind # "GROUP"
      BY DEF CacheInv
    <3>1. CASE p = o.principal
      BY <1>1, <1>4, <2>2, <2>4, <2>5, <3>1
    <3>2. CASE p # o.principal
      BY <2>5, <3>2 DEF PoliciesInv, CacheInv
    <3> QED  BY <3>1, <3>2
  <2> QED  BY <2>6, <2>7
<1>7. CASE ~AsksGraph(o)
  <2>1. graphMap' = graphMap
    BY <1>7 DEF Lookup
  <2> QED  BY <2>1 DEF CacheGrows, PoliciesInv, CacheInv
<1> QED  BY <1>6, <1>7

(* After the lookup of a principal the cache holds the answer, unless it   *)
(* brings its id or is a group.                                            *)
LEMMA LookupAnswered ==
    ASSUME TypeOK, NEW o \in Object, NEW answer \in {"found", "missing"}, Lookup(o, answer)
    PROVE  /\ o.known => answer = "found"
           /\ ~o.known => \/ graphMap'[o.principal] = answer
                          \/ o.kind = "GROUP" /\ answer = "missing"
<1>1. o.principal \in Principal
  BY DEF Object
<1>2. CASE AsksGraph(o)
  BY <1>1, <1>2 DEF Lookup, AsksGraph, TypeOK
<1>3. CASE ~AsksGraph(o)
  BY <1>1, <1>3 DEF Lookup, LookupAnswers, AsksGraph, TypeOK
<1> QED  BY <1>2, <1>3

(* A role with one principal less to come: it has joined the members, or   *)
(* was missed.                                                             *)
LEMMA MemberResolves ==
    ASSUME TypeOK, PoliciesInv, pc = "lookup", pending # <<>>,
           NEW answer \in {"found", "missing"}, Lookup(Head(pending), answer),
           pending' = Tail(pending),
           dap'.members = IF answer = "found" THEN dap.members \cup {Head(pending).principal}
                          ELSE dap.members,
           NEW objects \in SUBSET Object,
           Resolves(graphMap, dap.members, objects, ToSet(pending))
    PROVE  Resolves(graphMap', dap'.members, objects, ToSet(pending'))
<1> DEFINE o == Head(pending)
<1>1. /\ o \in Object /\ dap \in DataAccessPolicy
      /\ ToSet(pending) = {o} \cup ToSet(Tail(pending))
  <2>1. pending \in Seq(Object) /\ dap \in DataAccessPolicy
    BY DEF TypeOK
  <2>2. o = pending[1] /\ 1 \in DOMAIN pending /\ Len(pending) \in Nat
    BY <2>1
  <2>3. \A i \in DOMAIN pending : pending[i] = o \/ pending[i] \in ToSet(Tail(pending))
    <3> SUFFICES ASSUME NEW i \in DOMAIN pending, i # 1 PROVE pending[i] \in ToSet(Tail(pending))
      BY <2>2
    <3>1. i - 1 \in DOMAIN Tail(pending) /\ Tail(pending)[i - 1] = pending[i]
      BY <2>1
    <3> QED  BY <3>1 DEF ToSet
  <2>4. \A i \in DOMAIN Tail(pending) : i + 1 \in DOMAIN pending
                                        /\ Tail(pending)[i] = pending[i + 1]
    BY <2>1
  <2>5. ToSet(Tail(pending)) \subseteq ToSet(pending)
    BY <2>4 DEF ToSet
  <2>6. o \in ToSet(pending)
    BY <2>2 DEF ToSet
  <2>7. ToSet(pending) \subseteq {o} \cup ToSet(Tail(pending))
    BY <2>3 DEF ToSet
  <2> QED  BY <2>1, <2>2, <2>5, <2>6, <2>7
<1>2. CacheGrows
  BY LookupKeepsCache
<1>3. Resolves(graphMap', dap.members, objects, ToSet(pending))
  <2>1. dap.members \in SUBSET Principal
    BY <1>1 DEF DataAccessPolicy
  <2> QED  BY <1>2, <2>1, ResolvedStay
<1>4. /\ o.known => answer = "found"
      /\ ~o.known => \/ graphMap'[o.principal] = answer
                     \/ o.kind = "GROUP" /\ answer = "missing"
  BY <1>1, LookupAnswered
<1>5. o \in objects /\ ToSet(Tail(pending)) \subseteq objects
  BY <1>1, <1>3 DEF Resolves
<1>6. dap'.members = IF answer = "found" THEN dap.members \cup {o.principal} ELSE dap.members
  OBVIOUS
<1>7. o.known \in BOOLEAN
  BY <1>1 DEF Object
<1> HIDE DEF o
<1>8. ASSUME NEW p \in dap'.members
      PROVE  \E q \in objects : q.principal = p /\ (q.known \/ graphMap'[p] = "found")
  <2>1. CASE p \in dap.members
    BY <1>3, <2>1 DEF Resolves
  <2>2. CASE p \notin dap.members
    <3>1. answer = "found" /\ p = o.principal
      BY <1>6, <2>2
    <3>2. o.known \/ graphMap'[p] = "found"
      BY <1>4, <1>7, <3>1
    <3> QED  BY <1>5, <3>1, <3>2
  <2> QED  BY <2>1, <2>2
<1>9. ASSUME NEW q \in objects \ ToSet(Tail(pending)) PROVE Taken(graphMap', q, dap'.members)
  <2>1. CASE q = o
    BY <1>4, <1>6, <1>7, <2>1 DEF Taken
  <2>2. CASE q # o
    <3>1. q \in objects \ ToSet(pending)
      BY <1>1, <2>2
    <3> QED  BY <1>3, <1>6, <3>1 DEF Resolves, Taken
  <2> QED  BY <2>1, <2>2
<1> QED  BY <1>5, <1>8, <1>9 DEF Resolves

LEMMA MemberTaken ==
    ASSUME TypeOK, PoliciesInv, pc = "lookup", pending # <<>>, export' = export,
           NEW answer \in {"found", "missing"}, Lookup(Head(pending), answer),
           pending' = Tail(pending),
           dap'.origin = dap.origin, dap'.rule = dap.rule,
           dap'.members = IF answer = "found" THEN dap.members \cup {Head(pending).principal}
                          ELSE dap.members
    PROVE  BuiltFrom(dap, ToSet(pending))'
<1>1. PICK i \in DOMAIN export :
        /\ ComesFrom(dap, export[i])
        /\ RoleBased => Carries(dap, export[i])
        /\ Resolves(graphMap, dap.members, ToSet(export[i].objects), ToSet(pending))
  BY DEF PoliciesInv, BuiltFrom
<1>2. ToSet(export[i].objects) \subseteq Object
  BY ObjectsType DEF TypeOK, Running
<1>3. Resolves(graphMap', dap'.members, ToSet(export'[i].objects), ToSet(pending'))
  BY <1>1, <1>2, MemberResolves
<1>4. ComesFrom(dap', export[i]) /\ (RoleBased => Carries(dap', export[i]))
  BY <1>1 DEF ComesFrom, Carries, CarriesConstraints
<1> QED  BY <1>3, <1>4 DEF BuiltFrom, Resolves, Taken

LEMMA EndPolicies ==
    ASSUME TypeOK, PoliciesInv, NEW result \in Resting, End(result)
    PROVE  PoliciesInv'
<1>1. /\ todo' = <<>> /\ parts' = <<>> /\ built' = <<>> /\ export' = NoExport
      /\ pc' # "lookup"
  BY DEF End, Resting
<1>2. CacheInv'
  BY DEF End, NewAgent, agent, PoliciesInv, CacheInv
<1> QED  BY <1>1, <1>2 DEF PoliciesInv

LEMMA NextPolicies == TypeOK /\ PoliciesInv /\ [Next]_vars => PoliciesInv'
<1> SUFFICES ASSUME TypeOK, PoliciesInv, [Next]_vars PROVE PoliciesInv'
  OBVIOUS
<1>1. ASSUME UNCHANGED <<pc, export, todo, parts, dap, pending, built, graphMap>>
      PROVE  PoliciesInv'
  BY <1>1 DEF PoliciesInv, PartOf, BuiltFrom, Carries, CarriesConstraints, Resolves, Taken,
              SameSource, ComesFrom, CacheInv
<1>2. CASE UNCHANGED vars \/ Environment
  BY <1>1, <1>2
     DEF vars, locals, work, agent, Environment, AdminCreate, AdminEdit, AdminDelete
<1>3. CASE Run \/ ApplyAgain
  <2>1. /\ todo' = <<>> /\ parts' = <<>> /\ built' = <<>> /\ export' = export
        /\ pc' = "map"
    BY <1>3 DEF Run, ApplyAgain, Resting, PoliciesInv, locals, work
  <2>2. CacheInv'
    BY <1>3 DEF Run, ApplyAgain, NewAgent, agent, PoliciesInv, CacheInv
  <2> QED  BY <2>1, <2>2 DEF PoliciesInv
<1>4. CASE MapPolicy /\ pc' = "apply"
  <2>1. /\ todo' = <<>> /\ parts' = <<>> /\ built' = <<>> /\ export' \in Export
        /\ graphMap' = graphMap
    BY <1>4 DEF MapPolicy, End, PoliciesInv, work, agent
  <2>2. CacheInv'
    BY <2>1 DEF PoliciesInv, CacheInv
  <2> QED  BY <1>4, <2>1, <2>2 DEF PoliciesInv
<1>5. CASE GetCurrentAccessPolicy
  <2>1. /\ todo' = export /\ parts' = <<>> /\ built' = <<>> /\ export' = export
        /\ pc' = "build" /\ graphMap' = graphMap
    BY <1>5 DEF GetCurrentAccessPolicy, PoliciesInv, agent
  <2>2. ASSUME NEW i \in DOMAIN todo' PROVE PartOf(todo[i])'
    BY <2>1, <2>2 DEF PartOf, SameSource
  <2>3. CacheInv'
    BY <2>1 DEF PoliciesInv, CacheInv
  <2> QED  BY <2>1, <2>2, <2>3 DEF PoliciesInv
<1>6. CASE SplitNextPolicy
  <2>1. /\ pc = "build" /\ todo # <<>> /\ todo' = Tail(todo)
        /\ UNCHANGED <<pc, export, dap, built, graphMap>>
    BY <1>6 DEF SplitNextPolicy, agent
  <2>2. /\ \A p : PartOf(p) => PartOf(p)'
        /\ (\A i \in DOMAIN built : BuiltFrom(built[i], {}))'
        /\ export' \in Export \cup {NoExport}
    BY <2>1, WorkStays DEF CacheGrows, PartOf
  <2>3. todo \in Seq(Policy) /\ Head(todo) = todo[1] /\ 1 \in DOMAIN todo
    BY <2>1 DEF TypeOK
  <2>4. \A i \in DOMAIN Tail(todo) : i + 1 \in DOMAIN todo /\ Tail(todo)[i] = todo[i + 1]
    BY <2>1, <2>3
  <2>5. Head(todo) \in Policy /\ PartOf(Head(todo))
    BY <2>3 DEF PoliciesInv
  <2>6. \A i \in DOMAIN parts' : PartOf(parts'[i])
    <3>1. CASE RoleBased
      <4>1. parts' = SplitPermissionScopes(Head(todo)) /\ Head(todo) \in RolePolicy
        BY <1>6, <2>5, <3>1 DEF SplitNextPolicy, Policy
      <4> QED  BY <2>5, <3>1, <4>1, PartsKeepTheRest DEF PartOf, SameSource
    <3>2. CASE ~RoleBased
      BY <1>6, <2>5, <3>2 DEF SplitNextPolicy
    <3> QED  BY <3>1, <3>2
  <2>7. \A i \in DOMAIN todo' : PartOf(todo'[i])
    BY <2>1, <2>4 DEF PoliciesInv
  <2>8. /\ (\A i \in DOMAIN todo : PartOf(todo[i]))'
        /\ (\A i \in DOMAIN parts : PartOf(parts[i]))'
    BY <2>1, <2>6, <2>7 DEF PartOf, SameSource
  <2>9. CacheInv'
    BY <2>1 DEF PoliciesInv, CacheInv
  <2> QED  BY <2>1, <2>2, <2>8, <2>9 DEF PoliciesInv
<1>7. ASSUME NEW r, pc = "build", parts # <<>>, parts' = Tail(parts),
             UNCHANGED <<export, todo, built, graphMap>>,
             \/ UNCHANGED pc
             \/ /\ pc' = "lookup" /\ dap' = r /\ pending' = Head(parts).objects
                /\ r.members = {} /\ ComesFrom(r, Head(parts))
                /\ RoleBased => Carries(r, Head(parts))
      PROVE  PoliciesInv'
  <2> DEFINE p == Head(parts)
  <2>1. /\ \A q : PartOf(q) => (\E i \in DOMAIN export' :
                 /\ SameSource(q, export'[i])
                 /\ q.objects = export'[i].objects
                 /\ RoleBased => q.cols = export'[i].cols /\ q.rows = export'[i].rows)
        /\ (\A i \in DOMAIN built : BuiltFrom(built[i], {}))'
        /\ export' \in Export \cup {NoExport}
    BY <1>7, WorkStays DEF CacheGrows
  <2>2. parts \in Seq(Policy) /\ p = parts[1] /\ 1 \in DOMAIN parts
    BY <1>7 DEF TypeOK
  <2>3. \A i \in DOMAIN Tail(parts) : i + 1 \in DOMAIN parts /\ Tail(parts)[i] = parts[i + 1]
    BY <1>7, <2>2
  <2>4. PartOf(p)
    BY <2>2 DEF PoliciesInv
  <2>5. /\ (\A i \in DOMAIN todo : PartOf(todo[i]))'
        /\ (\A i \in DOMAIN parts : PartOf(parts[i]))'
    BY <1>7, <2>1, <2>3 DEF PoliciesInv, PartOf
  <2>6. (pc = "lookup" => BuiltFrom(dap, ToSet(pending)))'
    <3> SUFFICES ASSUME pc' = "lookup" PROVE BuiltFrom(dap, ToSet(pending))'
      OBVIOUS
    <3>1. /\ dap' = r /\ pending' = p.objects /\ r.members = {}
          /\ ComesFrom(r, p) /\ (RoleBased => Carries(r, p))
      BY <1>7
    <3> HIDE DEF p
    <3>2. PICK i \in DOMAIN export :
            /\ SameSource(p, export[i])
            /\ p.objects = export[i].objects
            /\ RoleBased => p.cols = export[i].cols /\ p.rows = export[i].rows
      BY <2>4 DEF PartOf
    <3>3. ComesFrom(r, export[i])
      BY <3>1, <3>2 DEF ComesFrom, SameSource
    <3>4. RoleBased => Carries(r, export[i])
      BY <3>1, <3>2 DEF Carries
    <3>5. BuiltFrom(dap, ToSet(pending))' <=>
            \E k \in DOMAIN export :
               /\ ComesFrom(r, export[k])
               /\ RoleBased => Carries(r, export[k])
               /\ Resolves(graphMap, r.members, ToSet(export[k].objects), ToSet(p.objects))
      BY <1>7, <3>1 DEF BuiltFrom, ComesFrom, Carries, CarriesConstraints, Resolves, Taken
    <3>6. Resolves(graphMap, r.members, ToSet(export[i].objects), ToSet(p.objects))
      BY <3>1, <3>2 DEF Resolves
    <3> QED  BY <3>3, <3>4, <3>5, <3>6
  <2>7. CacheInv'
    BY <1>7 DEF PoliciesInv, CacheInv
  <2>8. pc' \in {"build", "lookup"}
    BY <1>7
  <2> QED  BY <2>1, <2>5, <2>6, <2>7, <2>8 DEF PoliciesInv
<1>8. CASE BuildDataAccessRolePolicy
  <2> DEFINE p == Head(parts)
  <2>1. /\ RoleBased /\ pc = "build" /\ parts # <<>> /\ parts' = Tail(parts)
        /\ UNCHANGED <<export, todo, built, graphMap>>
    BY <1>8 DEF BuildDataAccessRolePolicy
  <2>2. PICK name : \/ UNCHANGED pc
                    \/ /\ pc' = "lookup" /\ pending' = p.objects
                       /\ dap' = NewRole(name, RuleOf(p), <<p.role, p.part>>)
    BY <1>8 DEF BuildDataAccessRolePolicy
  <2> DEFINE r == NewRole(name, RuleOf(p), <<p.role, p.part>>)
  <2>3. p \in RolePolicy
    BY <2>1, HeadTailProperties DEF TypeOK, Policy
  <2>4. r.members = {} /\ r.rule = RuleOf(p) /\ r.origin = <<p.role, p.part>>
    BY DEF NewRole
  <2> HIDE DEF r
  <2>5. Carries(r, p)
    BY <2>3, <2>4, RuleCarries
  <2>6. ComesFrom(r, p)
    BY <2>1, <2>4 DEF ComesFrom
  <2>7. \/ UNCHANGED pc
        \/ pc' = "lookup" /\ pending' = p.objects /\ dap' = r
    BY <2>2 DEF r
  <2> QED  BY <1>7, <2>1, <2>4, <2>5, <2>6, <2>7
<1>9. CASE BuildDataAccessPolicy
  <2> DEFINE p == Head(parts)
             r == NewRole(GetRoleName(p), [paths |-> {PathOf(p)}, cols |-> {}, rows |-> {}],
                          <<p.schema, p.table>>)
  <2>1. /\ ~RoleBased /\ pc = "build" /\ parts # <<>> /\ parts' = Tail(parts)
        /\ UNCHANGED <<export, todo, built, graphMap>>
        /\ pc' = "lookup" /\ pending' = p.objects /\ dap' = r
    BY <1>9 DEF BuildDataAccessPolicy, agent
  <2>2. r.members = {} /\ r.origin = <<p.schema, p.table>>
    BY DEF NewRole
  <2> HIDE DEF r
  <2>3. ComesFrom(r, p)
    BY <2>1, <2>2 DEF ComesFrom
  <2> QED  BY <1>7, <2>1, <2>2, <2>3
<1>10. CASE AddMember \/ SkipMember
  <2>1. PICK answer \in {"found", "missing"} :
          /\ Lookup(Head(pending), answer)
          /\ dap' = IF answer = "found"
                    THEN [dap EXCEPT !.members = @ \cup {Head(pending).principal}] ELSE dap
    BY <1>10 DEF AddMember, SkipMember
  <2>2. /\ pc = "lookup" /\ pending # <<>> /\ pending' = Tail(pending)
        /\ UNCHANGED <<pc, export, todo, parts, built>>
    BY <1>10 DEF AddMember, SkipMember
  <2>3. CacheInv' /\ CacheGrows
    BY <2>1, <2>2, LookupKeepsCache
  <2>4. dap \in DataAccessPolicy
    BY <2>2 DEF TypeOK
  <2>5. /\ dap'.origin = dap.origin /\ dap'.rule = dap.rule
        /\ dap'.members = IF answer = "found" THEN dap.members \cup {Head(pending).principal}
                          ELSE dap.members
    BY <2>1, <2>4 DEF DataAccessPolicy
  <2>6. BuiltFrom(dap, ToSet(pending))'
    BY <2>1, <2>2, <2>5, MemberTaken
  <2>7. /\ \A q : PartOf(q) => (\E i \in DOMAIN export' :
                 /\ SameSource(q, export'[i])
                 /\ q.objects = export'[i].objects
                 /\ RoleBased => q.cols = export'[i].cols /\ q.rows = export'[i].rows)
        /\ (\A i \in DOMAIN built : BuiltFrom(built[i], {}))'
        /\ export' \in Export \cup {NoExport}
    BY <2>2, <2>3, WorkStays
  <2>8. /\ (\A i \in DOMAIN todo : PartOf(todo[i]))'
        /\ (\A i \in DOMAIN parts : PartOf(parts[i]))'
    BY <2>2, <2>7 DEF PoliciesInv, PartOf
  <2> QED  BY <2>2, <2>3, <2>6, <2>7, <2>8 DEF PoliciesInv
<1>11. CASE FinishRole
  <2>1. /\ pc = "lookup" /\ pc' = "build" /\ built \in Seq(DataAccessPolicy)
        /\ pending = <<>> /\ UNCHANGED <<export, todo, parts, graphMap>>
    BY <1>11 DEF FinishRole, TypeOK, agent
  <2>2. BuiltFrom(dap, {})
    <3>1. ToSet(pending) = {}
      BY <2>1 DEF ToSet
    <3>2. BuiltFrom(dap, ToSet(pending))
      BY <2>1 DEF PoliciesInv
    <3> QED  BY <3>1, <3>2
  <2>3. built' = built \/ built' = Append(built, dap)
    BY <1>11 DEF FinishRole
  <2>4. \A i \in DOMAIN built' : BuiltFrom(built'[i], {})
    <3>1. CASE built' = built
      BY <3>1 DEF PoliciesInv
    <3>2. CASE built' = Append(built, dap)
      <4>1. /\ DOMAIN built' = 1 .. Len(built) + 1 /\ DOMAIN built = 1 .. Len(built)
            /\ \A i \in 1 .. Len(built) : built'[i] = built[i]
            /\ built'[Len(built) + 1] = dap /\ Len(built) \in Nat
        BY <2>1, <3>2, AppendProperties
      <4>2. \A i \in 1 .. Len(built) : BuiltFrom(built[i], {})
        BY <4>1 DEF PoliciesInv
      <4> QED  BY <2>2, <4>1, <4>2
    <3> QED  BY <2>3, <3>1, <3>2
  <2>5. /\ (\A i \in DOMAIN todo : PartOf(todo[i]))'
        /\ (\A i \in DOMAIN parts : PartOf(parts[i]))'
    BY <2>1 DEF PoliciesInv, PartOf, SameSource
  <2>6. (\A i \in DOMAIN built : BuiltFrom(built[i], {}))'
    BY <2>1, <2>4 DEF BuiltFrom, ComesFrom, Carries, CarriesConstraints, Resolves, Taken
  <2>7. CacheInv' /\ export' \in Export \cup {NoExport}
    BY <2>1 DEF PoliciesInv, CacheInv
  <2> QED  BY <2>1, <2>5, <2>6, <2>7 DEF PoliciesInv
<1>12. CASE \/ MapPolicy /\ pc' # "apply"
            \/ CallDocumentedHandler \/ WarnNoMembers \/ PutRefused \/ NothingToSync \/ Fail
            \/ PutDataAccessPolicy \/ PutWithoutAnswer
  BY <1>12, EndPolicies
     DEF MapPolicy, CallDocumentedHandler, WarnNoMembers, PutRefused, NothingToSync, Fail,
         PutDataAccessPolicy, PutWithoutAnswer, Resting
<1> QED
  BY <1>2, <1>3, <1>4, <1>5, <1>6, <1>8, <1>9, <1>10, <1>11, <1>12 DEF Next, Progress

(* The policy a role comes from is the only one it can come from. *)
LEMMA OnePolicy ==
    ASSUME PoliciesApart, TypeOK, PoliciesInv, NEW b \in DOMAIN built
    PROVE  \E i \in DOMAIN export :
             /\ export \in Export /\ export # NoExport
             /\ RoleBased => Carries(built[b], export[i])
             /\ Resolves(graphMap, built[b].members, ToSet(export[i].objects), {})
             /\ \A j \in DOMAIN export : ComesFrom(built[b], export[j]) <=> j = i
<1>1. PICK i \in DOMAIN export :
        /\ ComesFrom(built[b], export[i])
        /\ RoleBased => Carries(built[b], export[i])
        /\ Resolves(graphMap, built[b].members, ToSet(export[i].objects), {})
  BY DEF PoliciesInv, BuiltFrom
<1>2. pc \in {"build", "lookup"}
  BY DEF PoliciesInv
<1>3. export \in Export /\ export # NoExport
  BY <1>2 DEF TypeOK, Running, PoliciesInv
<1>4. ASSUME NEW j \in DOMAIN export, ComesFrom(built[b], export[j]) PROVE j = i
  <2>1. SameSource(export[i], export[j])
    BY <1>1, <1>4 DEF ComesFrom, SameSource
  <2> QED  BY <1>3, <2>1 DEF PoliciesApart
<1> QED  BY <1>1, <1>3, <1>4

LEMMA PoliciesTravel ==
    ASSUME PoliciesApart, TypeOK, PoliciesInv
    PROVE  ConstraintsTravel
<1> SUFFICES ASSUME RoleBased, NEW b \in DOMAIN built
             PROVE  Carries(built[b], export[PolicyOf(built[b])])
  BY DEF ConstraintsTravel, Carries
<1>1. PICK i \in DOMAIN export :
        /\ Carries(built[b], export[i])
        /\ \A j \in DOMAIN export : ComesFrom(built[b], export[j]) <=> j = i
  BY OnePolicy
<1>2. PolicyOf(built[b]) = i
  BY <1>1 DEF PolicyOf, ComesFrom
<1> QED  BY <1>1, <1>2

(* The principals the properties speak of are those of that policy. *)
LEMMA ObjectsOfOne ==
    ASSUME TypeOK, NEW r, NEW i \in DOMAIN export,
           \A j \in DOMAIN export : ComesFrom(r, export[j]) <=> j = i
    PROVE  Objects(r.origin) = ToSet(export[i].objects)
<1>1. {j \in DOMAIN export : IF RoleBased THEN r.origin[1] = export[j].role
                             ELSE r.origin = <<export[j].schema, export[j].table>>} = {i}
  BY DEF ComesFrom
<1> QED  BY <1>1 DEF Objects

(* Whether a principal that is only looked up is a member of a role is     *)
(* what the cache says of it.                                              *)
LEMMA MembersAsCached ==
    ASSUME PoliciesApart, TypeOK, PoliciesInv,
           NEW b \in DOMAIN built, NEW p \in LookedUp(b)
    PROVE  p \in built[b].members <=> graphMap[p] = "found"
<1>1. PICK i \in DOMAIN export :
        /\ Resolves(graphMap, built[b].members, ToSet(export[i].objects), {})
        /\ \A j \in DOMAIN export : ComesFrom(built[b], export[j]) <=> j = i
  BY OnePolicy
<1> DEFINE objects == ToSet(export[i].objects)
<1>2. Objects(built[b].origin) = objects
  BY <1>1, ObjectsOfOne
<1> HIDE DEF objects
<1>3. Resolves(graphMap, built[b].members, objects, {})
  BY <1>1 DEF objects
<1>4. PICK o \in objects : o.principal = p /\ ~o.known /\ o.kind # "GROUP"
  BY <1>2 DEF LookedUp
<1>5. \A q \in objects : q.principal = p => ~q.known
  BY <1>2 DEF LookedUp
<1>6. Taken(graphMap, o, built[b].members)
  BY <1>3 DEF Resolves
<1>7. graphMap[p] = "found" => p \in built[b].members
  BY <1>4, <1>6 DEF Taken
<1>8. p \in built[b].members => graphMap[p] = "found"
  BY <1>3, <1>5 DEF Resolves
<1> QED  BY <1>7, <1>8

LEMMA ResolvedAlike ==
    ASSUME PoliciesApart, TypeOK, PoliciesInv
    PROVE  ResolvesAlike
BY MembersAsCached DEF ResolvesAlike

LEMMA IdentifiedMembers ==
    ASSUME PoliciesApart, GroupsApart, ~TransientErrors, TypeOK, PoliciesInv
    PROVE  MembersAreIdentified
<1> SUFFICES ASSUME NEW b \in DOMAIN built
             PROVE  built[b].members
                    = {o.principal : o \in {o \in Objects(built[b].origin) : Identified(o)}}
  BY DEF MembersAreIdentified
<1>1. PICK i \in DOMAIN export :
        /\ export \in Export /\ export # NoExport
        /\ Resolves(graphMap, built[b].members, ToSet(export[i].objects), {})
        /\ \A j \in DOMAIN export : ComesFrom(built[b], export[j]) <=> j = i
  BY OnePolicy
<1> DEFINE objects == ToSet(export[i].objects)
<1>2. Objects(built[b].origin) = objects
  BY <1>1, ObjectsOfOne
<1>3. \A o \in objects : /\ o \in Object /\ o.principal \in Principal
                         /\ ~o.known => Exported(o)
  BY <1>1, ObjectsType DEF Object, Exported
<1>4. Resolves(graphMap, built[b].members, objects, {})
  BY <1>1
<1> HIDE DEF objects
<1>5. ASSUME NEW p \in built[b].members
      PROVE  \E o \in objects : o.principal = p /\ Identified(o)
  <2>1. PICK o \in objects : o.principal = p /\ (o.known \/ graphMap[p] = "found")
    BY <1>4 DEF Resolves
  <2>2. CASE ~o.known /\ graphMap[p] = "found"
    <3>1. p \in Directory
      BY <1>3, <2>1, <2>2 DEF PoliciesInv, CacheInv
    <3>2. PICK q \in Object : Exported(q) /\ q.principal = p /\ q.kind # "GROUP"
      BY <1>3, <2>1, <2>2 DEF PoliciesInv, CacheInv
    <3>3. o.kind # "GROUP"
      BY <1>3, <2>1, <2>2, <3>2 DEF GroupsApart
    <3> QED  BY <2>1, <3>1, <3>3 DEF Identified
  <2> QED  BY <2>1, <2>2 DEF Identified
<1>6. ASSUME NEW o \in objects, Identified(o)
      PROVE  o.principal \in built[b].members
  <2>1. Taken(graphMap, o, built[b].members)
    BY <1>4 DEF Resolves
  <2>2. ~o.known => o.kind # "GROUP" /\ o.principal \in Directory
    BY <1>6 DEF Identified
  <2>3. ~o.known => graphMap[o.principal] # "missing"
    BY <1>3, <2>2 DEF PoliciesInv, CacheInv
  <2> QED  BY <2>1, <2>2, <2>3 DEF Taken
<1> QED  BY <1>2, <1>5, <1>6

LEMMA PoliciesInvariant == Spec => [](TypeOK /\ PoliciesInv)
<1>1. Init => PoliciesInv
  BY InitPolicies
<1>2. TypeOK /\ PoliciesInv /\ [Next]_vars => PoliciesInv'
  BY NextPolicies
<1> QED  BY <1>1, <1>2, TypeCorrect, PTL DEF Spec

(* When the policies of an export are of different roles, whatever the     *)
(* source denies or filters for a policy stays denied or filtered in every *)
(* role the weaver builds of it, in each of its parts (weaver.py:207-236,  *)
(* 714-779).                                                               *)
THEOREM ConstraintsFollowTables == ASSUME PoliciesApart PROVE Spec => []ConstraintsTravel
<1>1. TypeOK /\ PoliciesInv => ConstraintsTravel
  BY PoliciesTravel
<1> QED  BY <1>1, PoliciesInvariant, PTL

(* However often Graph fails, a principal that is looked up is a member of *)
(* all the roles of a run that name it or of none (weaver.py:620-650,      *)
(* 809-831).                                                               *)
THEOREM LookupsAgree == ASSUME PoliciesApart PROVE Spec => []ResolvesAlike
<1>1. TypeOK /\ PoliciesInv => ResolvesAlike
  BY ResolvedAlike
<1> QED  BY <1>1, PoliciesInvariant, PTL

(* When Graph does not fail, the members of a role are the principals of   *)
(* its policy that have an id, in the export or in the directory, and      *)
(* nobody else, even if the agent has been used before                     *)
(* (weaver.py:620-650, 809-831).                                           *)
THEOREM MembersAreRight ==
    ASSUME PoliciesApart, GroupsApart, ~TransientErrors
    PROVE  Spec => []MembersAreIdentified
<1>1. TypeOK /\ PoliciesInv => MembersAreIdentified
  BY IdentifiedMembers
<1> QED  BY <1>1, PoliciesInvariant, PTL

-------------------------------------------------------------------------------
(* Nothing to sync *)

(* The four counters of a run are cardinalities: they say something about  *)
(* the sets they count because these are finite.                           *)
FiniteInv == IsFiniteSet(fabric) /\ IsFiniteSet(current)

LEMMA ImageFinite ==
    ASSUME NEW S, IsFiniteSet(S), NEW f, f = [x \in S |-> f[x]]
    PROVE  IsFiniteSet({f[x] : x \in S})
<1> DEFINE T == {f[x] : x \in S}
<1>1. f \in Surjection(S, T)
  BY DEF Surjection
<1> QED  BY <1>1, FS_Surjection

LEMMA RequestFinite ==
    ASSUME TypeOK, FiniteInv
    PROVE  IsFiniteSet(Request)
<1> DEFINE f == [i \in DOMAIN built |-> WithId(i)]
<1>1. IsFiniteSet(DOMAIN built)
  <2>1. DOMAIN built = 1 .. Len(built) /\ Len(built) \in Int
    BY DEF TypeOK
  <2> QED  BY <2>1, FS_Interval
<1>2. IsFiniteSet({f[i] : i \in DOMAIN built})
  <2>1. f = [i \in DOMAIN built |-> f[i]]
    OBVIOUS
  <2> HIDE DEF f
  <2> QED  BY <1>1, <2>1, ImageFinite
<1>3. {f[i] : i \in DOMAIN built} = {WithId(i) : i \in DOMAIN built}
  OBVIOUS
<1>4. IsFiniteSet(UnmanagedPolicies)
  BY FS_Subset DEF UnmanagedPolicies, FiniteInv
<1> QED  BY <1>2, <1>3, <1>4, FS_Union DEF Request

LEMMA StoredFinite ==
    ASSUME NEW S, IsFiniteSet(S), NEW T \in Stored(S)
    PROVE  IsFiniteSet(T)
<1>1. PICK ids \in NewIds(S) : T = {IF r.id = NoId THEN [r EXCEPT !.id = ids[r]] ELSE r : r \in S}
  BY DEF Stored
<1> DEFINE f == [r \in S |-> IF r.id = NoId THEN [r EXCEPT !.id = ids[r]] ELSE r]
<1>2. T = {f[r] : r \in S}
  BY <1>1
<1>3. f = [r \in S |-> f[r]]
  OBVIOUS
<1> HIDE DEF f
<1> QED  BY <1>2, <1>3, ImageFinite

LEMMA InitFinite == Init => FiniteInv
BY FS_EmptySet DEF Init, FiniteInv

LEMMA NextFinite == TypeOK /\ FiniteInv /\ [Next]_vars => FiniteInv'
<1> SUFFICES ASSUME TypeOK, FiniteInv, [Next]_vars PROVE FiniteInv'
  OBVIOUS
<1> USE DEF FiniteInv
<1>1. CASE \/ UNCHANGED vars \/ Run \/ ApplyAgain \/ SplitNextPolicy
           \/ BuildDataAccessRolePolicy \/ BuildDataAccessPolicy
           \/ AddMember \/ SkipMember \/ FinishRole
           \/ MapPolicy /\ current' = current
  BY <1>1 DEF vars, locals, Run, ApplyAgain, MapPolicy, SplitNextPolicy,
              BuildDataAccessRolePolicy, BuildDataAccessPolicy,
              AddMember, SkipMember, FinishRole
<1>2. CASE GetCurrentAccessPolicy
  BY <1>2 DEF GetCurrentAccessPolicy
<1>3. CASE \/ MapPolicy /\ current' # current
           \/ CallDocumentedHandler \/ WarnNoMembers \/ PutRefused \/ NothingToSync \/ Fail
  BY <1>3, FS_EmptySet
     DEF MapPolicy, End, CallDocumentedHandler, WarnNoMembers, PutRefused, NothingToSync, Fail
<1>4. CASE PutDataAccessPolicy \/ PutWithoutAnswer
  <2>1. fabric' \in Stored(Request) /\ current' = {}
    BY <1>4 DEF PutDataAccessPolicy, PutWithoutAnswer, Put, End
  <2> QED  BY <2>1, RequestFinite, StoredFinite, FS_EmptySet
<1>5. CASE Environment
  <2>1. current' = current
    BY <1>5 DEF Environment, AdminCreate, AdminEdit, AdminDelete
  <2>2. PICK S, x : \/ fabric' = S \cup {x} /\ (S = fabric \/ \E y : S = fabric \ {y})
                    \/ fabric' = fabric \ {x}
    BY <1>5 DEF Environment, AdminCreate, AdminEdit, AdminDelete
  <2> QED  BY <2>1, <2>2, FS_AddElement, FS_RemoveElement
<1> QED  BY <1>1, <1>2, <1>3, <1>4, <1>5 DEF Next, Progress

(* The counters are all zero only when nothing is built, nothing listed is *)
(* deleted and nothing is carried over: then nothing is listed.            *)
LEMMA NothingCounted ==
    ASSUME TypeOK, FiniteInv
    PROVE  SkipsOnlyWhenInSync
<1> SUFFICES ASSUME SyncCount = 0 PROVE Request = current
  BY DEF SkipsOnlyWhenInSync
<1>1. /\ IsFiniteSet(UpdatedPolicies) /\ IsFiniteSet(DeletedPolicies)
      /\ IsFiniteSet(UnmanagedPolicies)
  BY FS_Subset DEF UpdatedPolicies, DeletedPolicies, UnmanagedPolicies, FiniteInv
<1>2. /\ Cardinality(UpdatedPolicies) \in Nat /\ Cardinality(DeletedPolicies) \in Nat
      /\ Cardinality(UnmanagedPolicies) \in Nat
  BY <1>1, FS_CardinalityType
<1>3. Len(built) \in Nat
  BY DEF TypeOK
<1>4. Len(built) = 0 /\ Cardinality(DeletedPolicies) = 0 /\ Cardinality(UnmanagedPolicies) = 0
  BY <1>2, <1>3 DEF SyncCount
<1>5. DeletedPolicies = {} /\ UnmanagedPolicies = {}
  BY <1>1, <1>4, FS_EmptySet
<1>6. DOMAIN built = {}
  BY <1>3, <1>4 DEF TypeOK
<1>7. Request = {}
  BY <1>5, <1>6 DEF Request
<1>8. current = {}
  BY <1>5, <1>7 DEF DeletedPolicies
<1> QED  BY <1>7, <1>8

(* A run that finds nothing to sync leaves the item as a PUT would have:   *)
(* no role that should go is left behind, although the decision is taken   *)
(* from four numbers (weaver.py:299-305).                                  *)
THEOREM SkipsAreRight == Spec => []SkipsOnlyWhenInSync
<1>1. Init => FiniteInv
  BY InitFinite
<1>2. TypeOK /\ FiniteInv /\ [Next]_vars => FiniteInv'
  BY NextFinite
<1>3. TypeOK /\ FiniteInv => SkipsOnlyWhenInSync
  BY NothingCounted
<1> QED  BY <1>1, <1>2, <1>3, TypeCorrect, PTL DEF Spec
===============================================================================
