--------------------------- MODULE WeaverAgentProofs ---------------------------
(***************************************************************************)
(* Theorems about WeaverAgent, for every value of its constants: the type  *)
(* invariant, the names of one run, and what a write keeps and drops.      *)
(***************************************************************************)
EXTENDS WeaverAgent, SequenceTheorems, TLAPS

-------------------------------------------------------------------------------
(* Types of the operators *)

LEMMA PathType ==
    ASSUME NEW x, x.schema \in Schema \cup {None}, x.table \in Table \cup {None}
    PROVE  PathOf(x) \in Path
<1> DEFINE item == <<x.schema, x.table>>
           name == IF item \in DOMAIN Mirror THEN Mirror[item] ELSE x.table
           Segment == Schema \cup Table \cup MirrorName \cup {None}
<1>1. name \in Segment
  BY DEF MirrorName
<1>2. <<>> \in Seq(Segment) /\ <<x.schema>> \in Seq(Segment)
  OBVIOUS
<1>3. <<name>> \in Seq(Segment) /\ <<x.schema, name>> \in Seq(Segment)
  <2> HIDE DEF name
  <2> QED  BY <1>1
<1> QED  BY <1>1, <1>2, <1>3, RuleAssumption DEF PathOf, GetTableMapping, Path

LEMMA RuleType ==
    ASSUME NEW p \in RolePolicy
    PROVE  RuleOf(p) \in Rule
<1>1. TablePaths(p) \subseteq Path
  <2> SUFFICES ASSUME NEW s \in ToSet(p.scopes)
               PROVE  PathOf(s) \in Path
    BY DEF TablePaths
  <2>1. s \in Scope
    BY DEF RolePolicy, ToSet
  <2> QED  BY <2>1, PathType DEF Scope
<1>2. \A c \in p.cols : PathOf(c) \in Path /\ c.columns \in SUBSET Column
  BY PathType DEF RolePolicy, ColumnConstraint
<1>3. \A r \in p.rows : PathOf(r) \in Path /\ r.filter \in Filter
  BY PathType DEF RolePolicy, RowConstraint
<1>4. RuleOf(p).paths \subseteq Path
  BY <1>1 DEF RuleOf
<1>5. RuleOf(p).cols \subseteq [path : Path, columns : SUBSET Column]
  BY <1>2 DEF RuleOf, ActiveColumns
<1>6. RuleOf(p).rows \subseteq [path : Path, filter : Filter]
  BY <1>3 DEF RuleOf, ActiveRows
<1>7. RuleOf(p) = [paths |-> RuleOf(p).paths, cols |-> RuleOf(p).cols, rows |-> RuleOf(p).rows]
  BY DEF RuleOf
<1> QED  BY <1>4, <1>5, <1>6, <1>7 DEF Rule

LEMMA SplitType ==
    ASSUME NEW p \in RolePolicy
    PROVE  SplitPermissionScopes(p) \in Seq(RolePolicy)
<1>1. CASE Len(p.scopes) <= MaxScopes
  BY <1>1 DEF SplitPermissionScopes
<1>2. CASE ~(Len(p.scopes) <= MaxScopes)
  <2> DEFINE total == (Len(p.scopes) + MaxScopes - 1) \div MaxScopes
             part(i) == SplitOffNewRolePolicy(p, i, (i - 1) * MaxScopes, i * MaxScopes)
  <2>1. Len(p.scopes) \in Nat /\ MaxScopes \in Nat \ {0}
    BY RuleAssumption DEF RolePolicy
  <2>2. total \in Nat
    <3>1. \A n \in Nat, m \in Nat \ {0} : (n + m - 1) \div m \in Nat
      OBVIOUS
    <3> QED  BY <2>1, <3>1
  <2>3. ASSUME NEW i \in 1 .. total PROVE part(i) \in RolePolicy
    <3> DEFINE last == IF i * MaxScopes > Len(p.scopes) THEN Len(p.scopes) ELSE i * MaxScopes
    <3>1. (i - 1) * MaxScopes \in Nat /\ i * MaxScopes \in Nat /\ last \in Nat
      BY <2>1, <2>2, SMT
    <3>2. \A k \in (i - 1) * MaxScopes + 1 .. last : p.scopes[k] \in Scope
      <4> SUFFICES ASSUME NEW k \in (i - 1) * MaxScopes + 1 .. last PROVE p.scopes[k] \in Scope
        OBVIOUS
      <4>1. k \in 1 .. Len(p.scopes)
        BY <3>1, <2>1
      <4> QED  BY <4>1 DEF RolePolicy
    <3>3. SubSeq(p.scopes, (i - 1) * MaxScopes + 1, last) \in Seq(Scope)
      BY <3>1, <3>2, SubSeqProperties
    <3>4. part(i) = [p EXCEPT !.part = i,
                              !.scopes = SubSeq(p.scopes, (i - 1) * MaxScopes + 1, last)]
      BY DEF SplitOffNewRolePolicy
    <3> DEFINE slice == SubSeq(p.scopes, (i - 1) * MaxScopes + 1, last)
    <3>5. i \in Nat /\ slice \in Seq(Scope) /\ part(i) = [p EXCEPT !.part = i, !.scopes = slice]
      BY <2>2, <3>3, <3>4
    <3> HIDE DEF slice, total, part
    <3> QED  BY <3>5 DEF RolePolicy
  <2>4. [i \in 1 .. total |-> part(i)] \in Seq(RolePolicy)
    <3>1. [i \in 1 .. total |-> part(i)] \in [1 .. total -> RolePolicy]
      BY <2>3, Zenon
    <3> HIDE DEF total, part
    <3> QED  BY <2>2, <3>1
  <2> QED  BY <1>2, <2>4 DEF SplitPermissionScopes
<1> QED  BY <1>1, <1>2

LEMMA NumberedNameType ==
    ASSUME NEW base \in Name, NEW k \in Nat
    PROVE  NumberedName(base, k) \in Name
<1> DEFINE stem == IF Suffix = <<>> THEN <<>>
                   ELSE SubSeq(base, 1, Len(base) - Len(Suffix))
<1>1. stem \in Seq(Token)
  <2>1. Len(base) - Len(Suffix) \in Int
    BY AgentAssumption DEF Name
  <2>2. \A i \in 1 .. Len(base) - Len(Suffix) : base[i] \in Token
    BY AgentAssumption DEF Name
  <2>3. SubSeq(base, 1, Len(base) - Len(Suffix)) \in Seq(Token)
    BY <2>1, <2>2, SubSeqProperties
  <2> QED  BY <2>3
<1>2. << <<"number", k>> >> \in Seq(Token)
  BY DEF Token
<1> HIDE DEF stem
<1>3. stem \o << <<"number", k>> >> \in Seq(Token)
  BY <1>1, <1>2, ConcatProperties
<1>4. (stem \o << <<"number", k>> >>) \o Suffix \in Seq(Token)
  BY <1>3, AgentAssumption, ConcatProperties
<1> QED  BY <1>4 DEF NumberedName, Name, stem

LEMMA BaseNameType ==
    ASSUME NEW p \in RolePolicy
    PROVE  BaseName(PartStem(p)) \in Name
<1>1. Stem[p.role] \in Seq(Token) /\ p.part \in Nat
  BY AgentAssumption DEF RolePolicy
<1>2. << <<"word", "Part">>, <<"number", p.part>> >> \in Seq(Token)
  BY <1>1, AgentAssumption DEF Token
<1>3. PartStem(p) \in Seq(Token)
  BY <1>1, <1>2, ConcatProperties DEF PartStem
<1>4. PartStem(p) \o CleanSuffix \in Seq(Token)
  BY <1>3, AgentAssumption, ConcatProperties
<1>5. << <<"word", "ID">> >> \in Seq(Token)
  BY AgentAssumption DEF Token
<1>6. << <<"word", "ID">> >> \o (PartStem(p) \o CleanSuffix) \in Seq(Token)
  BY <1>4, <1>5, ConcatProperties
<1> QED  BY <1>4, <1>6 DEF BaseName, Name

(* The name found is a name, and nobody uses it. *)
LEMMA FreshNameIsFresh ==
    ASSUME NEW base \in Name, NEW used, NEW name \in FreshName(base, used)
    PROVE  name \in Name /\ name \notin used
<1>1. CASE base \notin used
  BY <1>1 DEF FreshName
<1>2. CASE base \in used
  <2>1. PICK k \in 1 .. MaxNumber : name = NumberedName(base, k) /\ name \notin used
    BY <1>2 DEF FreshName
  <2>2. k \in Nat
    BY AgentAssumption
  <2> QED  BY <2>1, <2>2, NumberedNameType
<1> QED  BY <1>1, <1>2

LEMMA GetRoleNameType ==
    ASSUME NEW p \in TablePolicy
    PROVE  GetRoleName(p) \in Name
<1>1. TableStem[<<p.schema, p.table>>] \in Seq(Token)
  BY AgentAssumption DEF TablePolicy
<1> QED  BY <1>1, AgentAssumption, ConcatProperties DEF GetRoleName, Name

-------------------------------------------------------------------------------
(* The type invariant *)

LEMMA RequestType ==
    ASSUME TypeOK
    PROVE  Request \subseteq DataAccessPolicy
<1>1. ASSUME NEW i \in DOMAIN built PROVE WithId(i) \in DataAccessPolicy
  <2>1. built[i] \in DataAccessPolicy
    BY DEF TypeOK
  <2> DEFINE found == {p \in UpdatedPolicies : SameName(built[i], p)}
  <2>2. ASSUME found # {} PROVE (CHOOSE p \in found : TRUE).id \in RoleId \cup {NoId}
    <3>1. (CHOOSE p \in found : TRUE) \in found
      BY <2>2
    <3>2. found \subseteq DataAccessPolicy
      BY DEF UpdatedPolicies, TypeOK
    <3> HIDE DEF found
    <3> QED  BY <3>1, <3>2 DEF DataAccessPolicy
  <2> DEFINE id == (CHOOSE p \in found : TRUE).id
  <2>3. \/ WithId(i) = built[i]
        \/ found # {} /\ WithId(i) = [built[i] EXCEPT !.id = id]
    BY DEF WithId
  <2> HIDE DEF found
  <2>4. CASE found # {} /\ WithId(i) = [built[i] EXCEPT !.id = id]
    <3>1. id \in RoleId \cup {NoId}
      BY <2>2, <2>4
    <3> HIDE DEF id
    <3> QED  BY <2>1, <2>4, <3>1 DEF DataAccessPolicy
  <2> QED  BY <2>1, <2>3, <2>4
<1>2. UnmanagedPolicies \subseteq DataAccessPolicy
  BY DEF UnmanagedPolicies, TypeOK
<1> QED  BY <1>1, <1>2 DEF Request

(* Fabric gives an id to every role it stores. *)
LEMMA StoredType ==
    ASSUME NEW S \in SUBSET DataAccessPolicy, NEW T \in Stored(S)
    PROVE  T \subseteq DataAccessPolicy /\ \A r \in T : r.id \in RoleId
<1>1. PICK f \in NewIds(S) : T = {IF r.id = NoId THEN [r EXCEPT !.id = f[r]] ELSE r : r \in S}
  BY DEF Stored
<1>2. f \in [{r \in S : r.id = NoId} -> RoleId]
  BY DEF NewIds
<1>3. ASSUME NEW r \in S
      PROVE  LET q == IF r.id = NoId THEN [r EXCEPT !.id = f[r]] ELSE r
             IN  q \in DataAccessPolicy /\ q.id \in RoleId
  <2>1. r \in DataAccessPolicy
    OBVIOUS
  <2>2. CASE r.id = NoId
    <3>1. f[r] \in RoleId
      BY <1>2, <2>2
    <3> QED  BY <2>1, <2>2, <3>1 DEF DataAccessPolicy
  <2>3. CASE r.id # NoId
    BY <2>1, <2>3 DEF DataAccessPolicy
  <2> QED  BY <2>2, <2>3
<1> QED  BY <1>1, <1>3

LEMMA EndType ==
    ASSUME TypeOK, NEW result \in Resting, End(result), fabric' \subseteq DataAccessPolicy
    PROVE  TypeOK'
<1>1. usedNames' \subseteq Name /\ graphMap' \in [Principal -> {"unasked", "found", "missing"}]
  BY DEF End, NewAgent, agent, TypeOK
<1>2. pc' \in Resting /\ pc' \notin Running
  BY DEF End, Resting, Running
<1>3. /\ export' = NoExport /\ todo' = <<>> /\ parts' = <<>> /\ dap' = None
      /\ pending' = <<>> /\ built' = <<>> /\ current' = {} /\ touched' = {}
  BY DEF End
<1> QED  BY <1>1, <1>2, <1>3 DEF TypeOK, Running

LEMMA NewRoleType ==
    ASSUME NEW name \in Name, NEW rule \in Rule, NEW origin \in Origin
    PROVE  NewRole(name, rule, origin) \in DataAccessPolicy
BY DEF NewRole, DataAccessPolicy

LEMMA LookupType ==
    ASSUME TypeOK, NEW o \in Object, NEW answer \in {"found", "missing"}, Lookup(o, answer)
    PROVE  graphMap' \in [Principal -> {"unasked", "found", "missing"}]
<1>1. o.principal \in Principal
  BY DEF Object
<1> QED  BY <1>1 DEF Lookup, TypeOK

LEMMA InitType == Init => TypeOK
BY DEF Init, TypeOK, Resting, Running

LEMMA NextType == TypeOK /\ [Next]_vars => TypeOK'
<1> SUFFICES ASSUME TypeOK, [Next]_vars PROVE TypeOK'
  OBVIOUS
<1>1. CASE UNCHANGED vars
  BY <1>1 DEF vars, locals, work, agent, TypeOK
<1>2. CASE Run
  BY <1>2 DEF Run, NewAgent, locals, work, TypeOK, Running
<1>3. CASE ApplyAgain
  BY <1>3 DEF ApplyAgain, agent, locals, work, TypeOK, Running
<1>4. CASE MapPolicy
  <2>1. CASE End("empty")
    BY <1>4, <2>1, EndType DEF MapPolicy, Resting, TypeOK
  <2>2. CASE /\ export' \in Export \ {NoExport} /\ pc' = "apply"
             /\ UNCHANGED <<work, built, current, touched, agent>>
    <3>1. export' \in Seq(Policy) /\ export' # NoExport
      BY <2>2, AgentAssumption
    <3> QED  BY <1>4, <2>2, <3>1 DEF MapPolicy, work, agent, TypeOK, Running
  <2> QED  BY <1>4, <2>1, <2>2 DEF MapPolicy
<1>5. CASE GetCurrentAccessPolicy
  <2>1. export \in Seq(Policy) /\ export # NoExport
    BY <1>5 DEF GetCurrentAccessPolicy, TypeOK, Running
  <2> QED  BY <1>5, <2>1 DEF GetCurrentAccessPolicy, agent, TypeOK, Running
<1>6. CASE SplitNextPolicy
  <2>1. Head(todo) \in Policy /\ Tail(todo) \in Seq(Policy)
    BY <1>6, HeadTailProperties DEF SplitNextPolicy, TypeOK
  <2>2. parts' \in Seq(Policy)
    <3>1. CASE RoleBased
      <4>1. Policy = RolePolicy
        BY <3>1 DEF Policy
      <4>2. parts' = SplitPermissionScopes(Head(todo))
        BY <1>6, <3>1 DEF SplitNextPolicy
      <4> QED  BY <2>1, <4>1, <4>2, SplitType
    <3>2. CASE ~RoleBased
      BY <1>6, <2>1, <3>2 DEF SplitNextPolicy
    <3> QED  BY <3>1, <3>2
  <2> QED  BY <1>6, <2>1, <2>2 DEF SplitNextPolicy, agent, TypeOK
<1>7. CASE BuildDataAccessRolePolicy
  <2> DEFINE p == Head(parts)
  <2>1. p \in RolePolicy /\ Tail(parts) \in Seq(Policy)
    BY <1>7, HeadTailProperties DEF BuildDataAccessRolePolicy, TypeOK, Policy
  <2>2. PICK name \in FreshName(BaseName(PartStem(p)), usedNames) :
             /\ usedNames' = usedNames \cup {name}
             /\ IF RuleOf(p).paths = {}
                THEN UNCHANGED <<pc, dap, pending>>
                ELSE /\ pc' = "lookup"
                     /\ dap' = NewRole(name, RuleOf(p), <<p.role, p.part>>)
                     /\ pending' = p.objects
    BY <1>7 DEF BuildDataAccessRolePolicy
  <2>3. name \in Name
    BY <2>1, BaseNameType, FreshNameIsFresh
  <2>4. NewRole(name, RuleOf(p), <<p.role, p.part>>) \in DataAccessPolicy
    <3>1. <<p.role, p.part>> \in Origin
      BY <2>1 DEF RolePolicy, Origin
    <3> HIDE DEF p
    <3> QED  BY <2>1, <2>3, <3>1, RuleType, NewRoleType
  <2>5. p.objects \in Seq(Object)
    BY <2>1 DEF RolePolicy
  <2>6. /\ pc = "build" /\ parts' = Tail(parts)
        /\ UNCHANGED <<fabric, export, todo, built, current, graphMap, touched>>
    BY <1>7 DEF BuildDataAccessRolePolicy
  <2>7. usedNames' \subseteq Name
    BY <2>2, <2>3 DEF TypeOK
  <2>8. CASE RuleOf(p).paths = {}
    BY <2>1, <2>2, <2>6, <2>7, <2>8 DEF TypeOK
  <2>9. CASE RuleOf(p).paths # {}
    <3> HIDE DEF p
    <3>1. pc' = "lookup" /\ dap' \in DataAccessPolicy /\ pending' \in Seq(Object)
      BY <2>2, <2>4, <2>5, <2>9
    <3> QED  BY <2>1, <2>6, <2>7, <3>1 DEF TypeOK, Running
  <2> QED  BY <2>8, <2>9
<1>8. CASE BuildDataAccessPolicy
  <2> DEFINE p == Head(parts)
             rule == [paths |-> {PathOf(p)}, cols |-> {}, rows |-> {}]
  <2>1. p \in TablePolicy /\ Tail(parts) \in Seq(Policy)
    BY <1>8, HeadTailProperties DEF BuildDataAccessPolicy, TypeOK, Policy
  <2>2. rule \in Rule
    BY <2>1, PathType DEF TablePolicy, Rule
  <2>3. <<p.schema, p.table>> \in Origin
    BY <2>1 DEF TablePolicy, Origin
  <2>4. NewRole(GetRoleName(p), rule, <<p.schema, p.table>>) \in DataAccessPolicy
    BY <2>1, <2>2, <2>3, GetRoleNameType, NewRoleType
  <2>5. p.objects \in Seq(Object)
    BY <2>1 DEF TablePolicy
  <2>6. /\ dap' = NewRole(GetRoleName(p), rule, <<p.schema, p.table>>)
        /\ pending' = p.objects /\ pc = "build" /\ pc' = "lookup" /\ parts' = Tail(parts)
        /\ UNCHANGED <<fabric, export, todo, built, current, usedNames, graphMap, touched>>
    BY <1>8 DEF BuildDataAccessPolicy, agent
  <2> HIDE DEF p, rule
  <2> QED  BY <2>1, <2>4, <2>5, <2>6 DEF TypeOK, Running
<1>9. ASSUME pc = "lookup", pending # <<>>
      PROVE  /\ Head(pending) \in Object /\ Tail(pending) \in Seq(Object)
             /\ Head(pending).principal \in Principal
  <2>1. Head(pending) \in Object /\ Tail(pending) \in Seq(Object)
    BY <1>9, HeadTailProperties DEF TypeOK
  <2> QED  BY <2>1 DEF Object
<1>10. CASE AddMember
  <2>1. pc = "lookup" /\ pending # <<>>
    BY <1>10 DEF AddMember
  <2>2. graphMap' \in [Principal -> {"unasked", "found", "missing"}]
    BY <1>9, <1>10, <2>1, LookupType DEF AddMember
  <2>3. [dap EXCEPT !.members = @ \cup {Head(pending).principal}] \in DataAccessPolicy
    <3> DEFINE who == Head(pending).principal
    <3>1. who \in Principal /\ dap \in DataAccessPolicy
      BY <1>9, <2>1 DEF TypeOK
    <3> HIDE DEF who
    <3>2. [dap EXCEPT !.members = @ \cup {who}] \in DataAccessPolicy
      BY <3>1 DEF DataAccessPolicy
    <3> QED  BY <3>2 DEF who
  <2> QED  BY <1>9, <1>10, <2>1, <2>2, <2>3 DEF AddMember, TypeOK
<1>11. CASE SkipMember
  <2>1. pc = "lookup" /\ pending # <<>>
    BY <1>11 DEF SkipMember
  <2>2. graphMap' \in [Principal -> {"unasked", "found", "missing"}]
    BY <1>9, <1>11, <2>1, LookupType DEF SkipMember
  <2> QED  BY <1>9, <1>11, <2>1, <2>2 DEF SkipMember, TypeOK
<1>12. CASE FinishRole
  <2>1. pc = "lookup" /\ dap \in DataAccessPolicy
    BY <1>12 DEF FinishRole, TypeOK
  <2>2. built' \in Seq(DataAccessPolicy)
    BY <1>12, <2>1, AppendProperties DEF FinishRole, TypeOK
  <2> QED  BY <1>12, <2>1, <2>2 DEF FinishRole, agent, TypeOK, Running
<1>13. ASSUME UNCHANGED fabric, NEW result \in Resting, End(result) PROVE TypeOK'
  BY <1>13, EndType DEF TypeOK
<1>14. CASE CallDocumentedHandler \/ WarnNoMembers \/ PutRefused \/ NothingToSync \/ Fail
  BY <1>13, <1>14
     DEF CallDocumentedHandler, WarnNoMembers, PutRefused, NothingToSync, Fail, Resting
<1>15. CASE PutDataAccessPolicy \/ PutWithoutAnswer
  <2>1. fabric' \subseteq DataAccessPolicy
    BY <1>15, RequestType, StoredType DEF PutDataAccessPolicy, PutWithoutAnswer, Put
  <2> QED  BY <1>15, <2>1, EndType DEF PutDataAccessPolicy, PutWithoutAnswer, Resting
<1>16. CASE Environment
  <2>1. ASSUME NEW name \in AdminName, NEW members \in AdminMembers, AdminCreate(name, members)
        PROVE  TypeOK'
    <3>1. name \in Name /\ members \in SUBSET Principal
      BY AgentAssumption
    <3>2. ASSUME NEW id \in RoleId
          PROVE  [name |-> name, id |-> id, members |-> members, origin |-> Admin,
                  rule |-> [paths |-> {<<>>}, cols |-> {}, rows |-> {}]] \in DataAccessPolicy
      <4>1. <<>> \in Path
        BY DEF Path
      <4> QED  BY <3>1, <4>1 DEF DataAccessPolicy, Rule, Origin
    <3>3. fabric' \subseteq DataAccessPolicy
      BY <2>1, <3>2 DEF AdminCreate, TypeOK
    <3>4. touched' \subseteq Name
      BY <2>1, <3>1 DEF AdminCreate, Touch, TypeOK
    <3> QED  BY <2>1, <3>3, <3>4 DEF AdminCreate, work, agent, TypeOK
  <2>2. ASSUME NEW role \in fabric, NEW members \in AdminMembers, AdminEdit(role, members)
        PROVE  TypeOK'
    <3>1. role \in DataAccessPolicy /\ members \in SUBSET Principal
      BY AgentAssumption DEF TypeOK
    <3>2. [role EXCEPT !.members = members, !.origin = Admin] \in DataAccessPolicy
      BY <3>1 DEF DataAccessPolicy, Origin
    <3>3. fabric' \subseteq DataAccessPolicy
      BY <2>2, <3>2 DEF AdminEdit, TypeOK
    <3>4. touched' \subseteq Name
      BY <2>2, <3>1 DEF AdminEdit, Touch, TypeOK, DataAccessPolicy
    <3> QED  BY <2>2, <3>3, <3>4 DEF AdminEdit, work, agent, TypeOK
  <2>3. ASSUME NEW role \in fabric, AdminDelete(role)
        PROVE  TypeOK'
    <3>1. fabric' \subseteq DataAccessPolicy
      BY <2>3 DEF AdminDelete, TypeOK
    <3>2. touched' \subseteq Name
      BY <2>3 DEF AdminDelete, Touch, TypeOK, DataAccessPolicy
    <3> QED  BY <2>3, <3>1, <3>2 DEF AdminDelete, work, agent, TypeOK
  <2> QED  BY <1>16, <2>1, <2>2, <2>3 DEF Environment
<1> QED
  BY <1>1, <1>2, <1>3, <1>4, <1>5, <1>6, <1>7, <1>8, <1>10, <1>11, <1>12, <1>14, <1>15, <1>16
     DEF Next, Progress

(* Every state the program reaches has the shape the model gives it; in    *)
(* particular a role is under construction while members are looked up,    *)
(* and nothing past the connector runs without an export.                  *)
THEOREM TypeCorrect == Spec => []TypeOK
<1>1. Init => TypeOK
  BY InitType
<1>2. TypeOK /\ [Next]_vars => TypeOK'
  BY NextType
<1> QED  BY <1>1, <1>2, PTL DEF Spec

-------------------------------------------------------------------------------
(* The names of one run *)

(* However a run ends, nothing it built is left. *)
LEMMA EndNames ==
    ASSUME NEW result \in Resting, End(result)
    PROVE  NamesInv'
<1>1. built' = <<>> /\ pc' # "lookup"
  BY DEF End, Resting
<1> QED  BY <1>1 DEF NamesInv, NothingBuiltYet, NamesInUse, BuiltNamesDistinct

LEMMA InitNames == Init => NamesInv
BY DEF Init, NamesInv, NothingBuiltYet, NamesInUse, BuiltNamesDistinct

LEMMA NextNames == TypeOK /\ NamesInv /\ [Next]_vars => NamesInv'
<1> SUFFICES ASSUME TypeOK, NamesInv, [Next]_vars PROVE NamesInv'
  OBVIOUS
<1> USE DEF NamesInv
<1>1. ASSUME UNCHANGED <<pc, dap, built, usedNames>> PROVE NamesInv'
  BY <1>1 DEF NothingBuiltYet, NamesInUse, BuiltNamesDistinct
<1>2. CASE UNCHANGED vars \/ Environment
  BY <1>1, <1>2
     DEF vars, locals, work, agent, Environment, AdminCreate, AdminEdit, AdminDelete
<1>3. CASE Run \/ ApplyAgain \/ (MapPolicy /\ pc' = "apply")
  <2>1. built = <<>> /\ built' = built /\ pc' \notin {"build", "lookup"}
    BY <1>3 DEF Run, ApplyAgain, MapPolicy, End, Resting, NothingBuiltYet, locals
  <2> QED  BY <2>1 DEF NothingBuiltYet, NamesInUse, BuiltNamesDistinct
<1>4. CASE GetCurrentAccessPolicy
  BY <1>4 DEF GetCurrentAccessPolicy, agent, NothingBuiltYet, NamesInUse, BuiltNamesDistinct
<1>5. CASE SplitNextPolicy
  BY <1>1, <1>5 DEF SplitNextPolicy, agent
<1>6. CASE BuildDataAccessRolePolicy
  <2> DEFINE p == Head(parts)
  <2>1. p \in RolePolicy
    BY <1>6, HeadTailProperties DEF BuildDataAccessRolePolicy, TypeOK, Policy
  <2>2. PICK name \in FreshName(BaseName(PartStem(p)), usedNames) :
             /\ usedNames' = usedNames \cup {name}
             /\ \/ UNCHANGED <<pc, dap>>
                \/ pc' = "lookup" /\ dap' = NewRole(name, RuleOf(p), <<p.role, p.part>>)
    BY <1>6 DEF BuildDataAccessRolePolicy
  <2>3. name \notin usedNames
    BY <2>1, <2>2, BaseNameType, FreshNameIsFresh
  <2>4. pc = "build" /\ RoleBased /\ built' = built
    BY <1>6 DEF BuildDataAccessRolePolicy
  <2>5. pc' = "lookup" => dap'.name = name
    BY <2>2, <2>4 DEF NewRole
  <2>6. \A i \in DOMAIN built : built[i].name \in usedNames
    BY <2>4 DEF NamesInUse
  <2>7. pc' \in {"build", "lookup"}
    BY <2>2, <2>4
  <2> HIDE DEF p
  <2> QED  BY <2>2, <2>3, <2>4, <2>5, <2>6, <2>7
           DEF NothingBuiltYet, NamesInUse, BuiltNamesDistinct
<1>7. CASE BuildDataAccessPolicy
  BY <1>7 DEF BuildDataAccessPolicy, NothingBuiltYet, NamesInUse, BuiltNamesDistinct
<1>8. CASE AddMember
  <2>1. pc = "lookup" /\ dap \in DataAccessPolicy
    BY <1>8 DEF AddMember, TypeOK
  <2>2. dap'.name = dap.name
    BY <1>8, <2>1 DEF AddMember, DataAccessPolicy
  <2> QED  BY <1>8, <2>1, <2>2 DEF AddMember, NothingBuiltYet, NamesInUse, BuiltNamesDistinct
<1>9. CASE SkipMember
  BY <1>1, <1>9 DEF SkipMember
<1>10. CASE FinishRole
  <2>1. pc = "lookup" /\ pc' = "build" /\ dap \in DataAccessPolicy
        /\ built \in Seq(DataAccessPolicy) /\ usedNames' = usedNames
    BY <1>10 DEF FinishRole, TypeOK, agent
  <2>2. CASE built' = built
    BY <2>1, <2>2 DEF NothingBuiltYet, NamesInUse, BuiltNamesDistinct
  <2>3. CASE built' = Append(built, dap)
    <3>1. /\ DOMAIN built' = 1 .. Len(built) + 1 /\ DOMAIN built = 1 .. Len(built)
          /\ \A i \in 1 .. Len(built) : built'[i] = built[i]
          /\ built'[Len(built) + 1] = dap /\ Len(built) \in Nat
      BY <2>1, <2>3, AppendProperties
    <3>2. ASSUME RoleBased
          PROVE  /\ \A i \in DOMAIN built' : built'[i].name \in usedNames
                 /\ \A i, j \in DOMAIN built' : built'[i].name = built'[j].name => i = j
      <4>1. \A i \in 1 .. Len(built) : built[i].name \in usedNames /\ built[i].name # dap.name
        BY <2>1, <3>1, <3>2 DEF NamesInUse
      <4>2. \A i, j \in 1 .. Len(built) : built[i].name = built[j].name => i = j
        BY <3>1, <3>2 DEF BuiltNamesDistinct
      <4>3. dap.name \in usedNames
        BY <2>1, <3>2 DEF NamesInUse
      <4> QED  BY <3>1, <4>1, <4>2, <4>3
    <3> QED  BY <2>1, <3>2 DEF NothingBuiltYet, NamesInUse, BuiltNamesDistinct
  <2> QED  BY <1>10, <2>2, <2>3 DEF FinishRole
<1>11. CASE \/ MapPolicy /\ pc' # "apply"
            \/ CallDocumentedHandler \/ WarnNoMembers \/ PutRefused \/ NothingToSync \/ Fail
            \/ PutDataAccessPolicy \/ PutWithoutAnswer
  BY <1>11, EndNames
     DEF MapPolicy, CallDocumentedHandler, WarnNoMembers, PutRefused, NothingToSync, Fail,
         PutDataAccessPolicy, PutWithoutAnswer, Resting
<1> QED
  BY <1>2, <1>3, <1>4, <1>5, <1>6, <1>7, <1>8, <1>9, <1>10, <1>11 DEF Next, Progress

(* No two roles one run builds have the same name, whatever the source     *)
(* calls its policies, however many parts they have and even when the      *)
(* agent is used again (weaver.py:690-698).                                *)
THEOREM BuiltNamesAreDistinct == Spec => []BuiltNamesDistinct
<1>1. Init => NamesInv
  BY InitNames
<1>2. TypeOK /\ NamesInv /\ [Next]_vars => NamesInv'
  BY NextNames
<1>3. NamesInv => BuiltNamesDistinct
  BY DEF NamesInv
<1> QED  BY <1>1, <1>2, <1>3, TypeCorrect, PTL DEF Spec

-------------------------------------------------------------------------------
(* The suffix *)

(* A sequence whose last elements are those of t ends with t. *)
LEMMA EndsWith ==
    ASSUME NEW S, NEW s \in Seq(S), NEW t \in Seq(S), Len(t) <= Len(s),
           \A i \in 1 .. Len(t) : s[Len(s) - Len(t) + i] = t[i]
    PROVE  IsSuffix(t, s)
<1> DEFINE rs == Reverse(s)
           rt == Reverse(t)
           n  == Len(t)
<1>1. /\ n \in Nat /\ Len(s) \in Nat
      /\ Len(rs) = Len(s) /\ \A i \in 1 .. Len(s) : rs[i] = s[Len(s) - i + 1]
      /\ Len(rt) = n /\ \A i \in 1 .. n : rt[i] = t[n - i + 1]
  BY DEF Reverse
<1>2. \A i \in 1 .. n : rs[i] = rt[i]
  <2> SUFFICES ASSUME NEW i \in 1 .. n PROVE rs[i] = rt[i]
    OBVIOUS
  <2>1. n - i + 1 \in 1 .. n /\ i \in 1 .. Len(s)
    BY <1>1
  <2>2. s[Len(s) - n + (n - i + 1)] = t[n - i + 1]
    BY <2>1
  <2>3. Len(s) - n + (n - i + 1) = Len(s) - i + 1
    BY <1>1, <2>1
  <2> QED  BY <1>1, <2>1, <2>2, <2>3
<1>3. \A i \in 1 .. n : rt[i] \in S
  <2> SUFFICES ASSUME NEW i \in 1 .. n PROVE rt[i] \in S
    OBVIOUS
  <2>1. n - i + 1 \in 1 .. n
    BY <1>1
  <2> QED  BY <1>1, <2>1
<1> HIDE DEF rs, rt
<1>4. /\ SubSeq(rt, 1, n) \in Seq(S) /\ Len(SubSeq(rt, 1, n)) = n
      /\ \A i \in 1 .. n : SubSeq(rt, 1, n)[i] = rt[i]
  <2>1. IF 1 <= n THEN n - 1 + 1 = n ELSE n = 0
    BY <1>1
  <2> QED  BY <1>1, <1>3, <2>1, SubSeqProperties
<1>5. /\ SubSeq(rs, 1, n) \in Seq(S) /\ Len(SubSeq(rs, 1, n)) = n
      /\ \A i \in 1 .. n : SubSeq(rs, 1, n)[i] = rs[i]
  <2>1. IF 1 <= n THEN n - 1 + 1 = n ELSE n = 0
    BY <1>1
  <2>2. \A i \in 1 .. n : rs[i] \in S
    BY <1>2, <1>3
  <2> QED  BY <1>1, <2>1, <2>2, SubSeqProperties
<1>6. SubSeq(rt, 1, n) = SubSeq(rs, 1, n)
  BY <1>1, <1>2, <1>4, <1>5, SeqEqual
<1>7. IsPrefix(rt, rs)
  BY <1>1, <1>6 DEF IsPrefix
<1> QED  BY <1>7 DEF IsSuffix, rs, rt

LEMMA LowerProperties ==
    ASSUME NEW name \in Name
    PROVE  /\ Lower(name) \in Seq({LowerToken(t) : t \in Token})
           /\ Len(Lower(name)) = Len(name)
           /\ \A i \in 1 .. Len(name) : Lower(name)[i] = LowerToken(name[i])
<1>1. /\ DOMAIN name = 1 .. Len(name) /\ Len(name) \in Nat
      /\ \A i \in 1 .. Len(name) : name[i] \in Token
  BY DEF Name
<1>2. \A i \in 1 .. Len(name) : Lower(name)[i] = LowerToken(name[i])
  BY <1>1 DEF Lower
<1>3. Lower(name) \in [1 .. Len(name) -> {LowerToken(t) : t \in Token}]
  BY <1>1 DEF Lower
<1> QED  BY <1>1, <1>2, <1>3

LEMMA BearsSuffix ==
    ASSUME NEW stem \in Seq(Token)
    PROVE  EndsWithSuffix(stem \o ManagedSuffix)
<1> DEFINE name == stem \o ManagedSuffix
           low  == Lower(name)
           lows == Lower(ManagedSuffix)
           S == {LowerToken(t) : t \in Token}
<1>1. ManagedSuffix \in Name /\ ManagedSuffix \in Seq(Token)
  BY AgentAssumption DEF Name
<1>2. /\ name \in Name /\ Len(name) = Len(stem) + Len(ManagedSuffix)
      /\ \A i \in 1 .. Len(stem) + Len(ManagedSuffix) :
           name[i] = IF i <= Len(stem) THEN stem[i] ELSE ManagedSuffix[i - Len(stem)]
  BY <1>1, ConcatProperties DEF Name
<1>3. Len(stem) \in Nat /\ Len(ManagedSuffix) \in Nat
  BY <1>1
<1> HIDE DEF name
<1>4. low \in Seq(S) /\ Len(low) = Len(name) /\ \A i \in 1 .. Len(name) : low[i] = LowerToken(name[i])
  BY <1>2, LowerProperties
<1>5. /\ lows \in Seq(S) /\ Len(lows) = Len(ManagedSuffix)
      /\ \A i \in 1 .. Len(ManagedSuffix) : lows[i] = LowerToken(ManagedSuffix[i])
  BY <1>1, LowerProperties
<1>6. \A i \in 1 .. Len(lows) : low[Len(low) - Len(lows) + i] = lows[i]
  <2> SUFFICES ASSUME NEW i \in 1 .. Len(ManagedSuffix)
               PROVE  low[Len(stem) + i] = lows[i]
    BY <1>2, <1>3, <1>4, <1>5
  <2>1. Len(stem) + i \in 1 .. Len(name)
    BY <1>2, <1>3
  <2>2. name[Len(stem) + i] = ManagedSuffix[i]
    BY <1>2, <1>3, <2>1
  <2> QED  BY <1>4, <1>5, <2>1, <2>2
<1>7. Len(lows) <= Len(low)
  BY <1>2, <1>3, <1>4, <1>5
<1> HIDE DEF low, lows, S
<1>8. IsSuffix(lows, low)
  BY <1>4, <1>5, <1>6, <1>7, EndsWith
<1> QED  BY <1>8 DEF EndsWithSuffix, low, lows, name

(* Every name the weaver gives bears the suffix if sanitising spares it. *)
LEMMA RoleNameBearsSuffix ==
    ASSUME SuffixSurvives, NEW p \in RolePolicy, NEW used,
           NEW name \in FreshName(BaseName(PartStem(p)), used)
    PROVE  EndsWithSuffix(name)
<1> DEFINE base == BaseName(PartStem(p))
<1>1. PartStem(p) \in Seq(Token)
  <2>1. Stem[p.role] \in Seq(Token) /\ p.part \in Nat
    BY AgentAssumption DEF RolePolicy
  <2>2. << <<"word", "Part">>, <<"number", p.part>> >> \in Seq(Token)
    BY <2>1, AgentAssumption DEF Token
  <2> QED  BY <2>1, <2>2, ConcatProperties DEF PartStem
<1>2. EndsWithSuffix(base)
  <2>1. << <<"word", "ID">> >> \in Seq(Token)
    BY AgentAssumption DEF Token
  <2>2. << <<"word", "ID">> >> \o PartStem(p) \in Seq(Token)
    BY <1>1, <2>1, ConcatProperties
  <2>3. << <<"word", "ID">> >> \o (PartStem(p) \o ManagedSuffix)
        = (<< <<"word", "ID">> >> \o PartStem(p)) \o ManagedSuffix
    BY <1>1, <2>1, AgentAssumption, ConcatAssociative
  <2>4. \/ base = PartStem(p) \o ManagedSuffix
        \/ base = << <<"word", "ID">> >> \o (PartStem(p) \o ManagedSuffix)
    BY DEF BaseName, SuffixSurvives
  <2> QED  BY <1>1, <2>2, <2>3, <2>4, BearsSuffix
<1>3. ASSUME NEW k \in Nat PROVE EndsWithSuffix(NumberedName(base, k))
  <2> DEFINE stem == IF Suffix = <<>> THEN <<>> ELSE SubSeq(base, 1, Len(base) - Len(Suffix))
  <2>1. base \in Seq(Token)
    BY BaseNameType DEF Name
  <2>2. SubSeq(base, 1, Len(base) - Len(Suffix)) \in Seq(Token)
    <3>1. Len(base) - Len(Suffix) \in Int
      BY <2>1, AgentAssumption
    <3>2. \A i \in 1 .. Len(base) - Len(Suffix) : base[i] \in Token
      BY <2>1, AgentAssumption
    <3> QED  BY <3>1, <3>2, SubSeqProperties
  <2>3. stem \in Seq(Token)
    BY <2>2
  <2>4. << <<"number", k>> >> \in Seq(Token)
    BY DEF Token
  <2> HIDE DEF stem
  <2>5. stem \o << <<"number", k>> >> \in Seq(Token)
    BY <2>3, <2>4, ConcatProperties
  <2>6. NumberedName(base, k) = (stem \o << <<"number", k>> >>) \o ManagedSuffix
    BY DEF NumberedName, stem, SuffixSurvives
  <2> QED  BY <2>5, <2>6, BearsSuffix
<1> HIDE DEF base
<1>4. CASE base \notin used
  BY <1>2, <1>4 DEF FreshName, base
<1>5. CASE base \in used
  <2>1. PICK k \in 1 .. MaxNumber : name = NumberedName(base, k)
    BY <1>5 DEF FreshName, base
  <2>2. k \in Nat
    BY AgentAssumption
  <2> QED  BY <1>3, <2>1, <2>2
<1> QED  BY <1>4, <1>5

LEMMA TableNameBearsSuffix ==
    ASSUME SuffixSurvives, NEW p \in TablePolicy
    PROVE  EndsWithSuffix(GetRoleName(p))
<1>1. TableStem[<<p.schema, p.table>>] \in Seq(Token)
  BY AgentAssumption DEF TablePolicy
<1> QED  BY <1>1, BearsSuffix DEF GetRoleName, SuffixSurvives

-------------------------------------------------------------------------------
(* What a PUT leaves in Fabric *)

LEMMA WithIdIsBuilt ==
    ASSUME TypeOK, NEW i \in DOMAIN built
    PROVE  /\ WithId(i).name = built[i].name /\ WithId(i).members = built[i].members
           /\ WithId(i).rule = built[i].rule /\ WithId(i).origin = built[i].origin
<1>1. built[i] \in DataAccessPolicy
  BY DEF TypeOK
<1>2. PICK id : WithId(i) = [built[i] EXCEPT !.id = id] \/ WithId(i) = built[i]
  BY DEF WithId
<1> QED  BY <1>1, <1>2 DEF DataAccessPolicy

(* What Fabric stores of the request are the roles built, with ids, and    *)
(* the unmanaged roles as they were listed: no other, and all of these.    *)
LEMMA StoredRoles ==
    ASSUME TypeOK, RolesHaveIds, NEW T \in Stored(Request)
    PROVE  /\ \A r \in T : \/ \E i \in DOMAIN built : /\ r.name = built[i].name
                                                      /\ r.members = built[i].members
                                                      /\ r.rule = built[i].rule
                                                      /\ r.origin = built[i].origin
                           \/ r \in UnmanagedPolicies
           /\ UnmanagedPolicies \subseteq T
<1>1. PICK f : T = {IF q.id = NoId THEN [q EXCEPT !.id = f[q]] ELSE q : q \in Request}
  BY DEF Stored
<1>2. \A q \in UnmanagedPolicies : q.id # NoId
  BY AgentAssumption DEF UnmanagedPolicies, RolesHaveIds
<1>3. ASSUME NEW r \in T
      PROVE  \/ \E i \in DOMAIN built : /\ r.name = built[i].name
                                        /\ r.members = built[i].members
                                        /\ r.rule = built[i].rule
                                        /\ r.origin = built[i].origin
             \/ r \in UnmanagedPolicies
  <2>1. PICK q \in Request : r = IF q.id = NoId THEN [q EXCEPT !.id = f[q]] ELSE q
    BY <1>1
  <2>2. CASE q \in UnmanagedPolicies
    BY <1>2, <2>1, <2>2
  <2>3. ASSUME NEW i \in DOMAIN built, q = WithId(i)
        PROVE  /\ r.name = built[i].name /\ r.members = built[i].members
               /\ r.rule = built[i].rule /\ r.origin = built[i].origin
    <3>1. q \in DataAccessPolicy
      BY RequestType
    <3>2. /\ r.name = q.name /\ r.members = q.members
          /\ r.rule = q.rule /\ r.origin = q.origin
      BY <2>1, <3>1 DEF DataAccessPolicy
    <3> QED  BY <2>3, <3>2, WithIdIsBuilt
  <2> QED  BY <2>2, <2>3 DEF Request
<1>4. UnmanagedPolicies \subseteq T
  <2> SUFFICES ASSUME NEW q \in UnmanagedPolicies PROVE q \in T
    OBVIOUS
  <2>1. q \in Request
    BY DEF Request
  <2> QED  BY <1>1, <1>2, <2>1
<1> QED  BY <1>3, <1>4

LEMMA PutKeepsForeign ==
    ASSUME TypeOK, MergeInv, Put
    PROVE  ForeignRoles(fabric') = ForeignRoles(fabric)
<1>1. ForeignRoles(current) = ForeignRoles(fabric)
  BY DEF Put, AllBuilt, MergeInv, ListingStands
<1>2. /\ \A r \in fabric' : (\E i \in DOMAIN built : r.name = built[i].name) \/ r \in UnmanagedPolicies
      /\ UnmanagedPolicies \subseteq fabric'
  BY StoredRoles DEF Put, MergeInv
<1>3. \A r \in current : r \in UnmanagedPolicies <=> IsForeign(r)
  BY DEF UnmanagedPolicies, IsForeign
<1>4. UnmanagedPolicies \subseteq current
  BY DEF UnmanagedPolicies
<1>5. ASSUME NEW r \in fabric', IsForeign(r) PROVE r \in UnmanagedPolicies
  BY <1>2, <1>5 DEF IsForeign, MergeInv, BuiltBearSuffix
<1> QED  BY <1>1, <1>2, <1>3, <1>4, <1>5 DEF ForeignRoles

LEMMA PutLeavesNoStaleRole ==
    ASSUME TypeOK, MergeInv, Put
    PROVE  NoStaleRole
<1>1. \A r \in fabric' : \/ \E i \in DOMAIN built : /\ r.name = built[i].name
                                                    /\ r.members = built[i].members
                                                    /\ r.rule = built[i].rule
                                                    /\ r.origin = built[i].origin
                         \/ r \in UnmanagedPolicies
  BY StoredRoles DEF Put, MergeInv
<1>2. \A r \in UnmanagedPolicies : r.origin = Admin /\ ~EndsWithSuffix(r.name)
  BY DEF UnmanagedPolicies, MergeInv, OursBearSuffix
<1> QED  BY <1>1, <1>2 DEF NoStaleRole

LEMMA PutMerge ==
    ASSUME TypeOK, MergeInv, Put
    PROVE  /\ \A r \in fabric' : r.id \in RoleId
           /\ \A r \in fabric' : r.origin = Admin \/ EndsWithSuffix(r.name)
<1>1. Request \in SUBSET DataAccessPolicy
  BY RequestType
<1>2. \A r \in fabric' : r.id \in RoleId
  BY <1>1, StoredType DEF Put
<1>3. \A r \in fabric' : (\E i \in DOMAIN built : r.name = built[i].name) \/ r \in UnmanagedPolicies
  BY StoredRoles DEF Put, MergeInv
<1>4. \A r \in UnmanagedPolicies : r.origin = Admin
  BY DEF UnmanagedPolicies, MergeInv, OursBearSuffix
<1> QED  BY <1>2, <1>3, <1>4 DEF MergeInv, BuiltBearSuffix

LEMMA EndMerge ==
    ASSUME NEW result \in Resting, End(result),
           \A r \in fabric' : r.id \in RoleId,
           \A r \in fabric' : r.origin = Admin \/ EndsWithSuffix(r.name)
    PROVE  MergeInv'
<1>1. built' = <<>> /\ current' = {} /\ pc' \notin {"build", "lookup"}
  BY DEF End, Resting
<1> QED  BY <1>1 DEF MergeInv, RolesHaveIds, OursBearSuffix, BuiltBearSuffix, ListingStands

LEMMA EnvironmentMerge ==
    ASSUME TypeOK, MergeInv, Environment
    PROVE  MergeInv'
<1> DEFINE Foreign(S, T) == {r \in S : IsForeign(r) /\ r.name \notin T}
<1>1. UNCHANGED <<pc, dap, built, current>>
  BY DEF Environment, AdminCreate, AdminEdit, AdminDelete, work
<1>2. BuiltBearSuffix'
  BY <1>1 DEF MergeInv, BuiltBearSuffix
<1>3. ASSUME NEW name, Touch(name), pc \in {"build", "lookup"},
             Foreign(fabric', touched \cup {name}) = Foreign(fabric, touched \cup {name})
      PROVE  ListingStands'
  <2>1. touched' = touched \cup {name}
    BY <1>3 DEF Touch
  <2>2. Foreign(current, touched) = Foreign(fabric, touched)
    BY <1>3 DEF MergeInv, ListingStands, ForeignRoles
  <2>3. Foreign(current, touched \cup {name}) = Foreign(fabric, touched \cup {name})
    BY <2>2
  <2>4. Foreign(current', touched') = Foreign(fabric', touched')
    BY <1>1, <1>3, <2>1, <2>3
  <2> QED  BY <2>4 DEF ListingStands, ForeignRoles
<1>4. ASSUME NEW name,  NEW S, Touch(name), \A r \in S : r.name = name /\ r.id \in RoleId,
             \A r \in S : r.origin = Admin,
             \A r \in fabric' : r \in fabric \/ r \in S,
             \A r \in fabric : r \in fabric' \/ r.name = name
      PROVE  MergeInv'
  <2>1. RolesHaveIds' /\ OursBearSuffix'
    BY <1>1, <1>4 DEF MergeInv, RolesHaveIds, OursBearSuffix
  <2>2. CASE pc \in {"build", "lookup"}
    <3>1. Foreign(fabric', touched \cup {name}) = Foreign(fabric, touched \cup {name})
      BY <1>4
    <3> QED  BY <1>2, <1>3, <1>4, <2>1, <2>2, <3>1 DEF MergeInv
  <2>3. CASE pc \notin {"build", "lookup"}
    BY <1>1, <1>2, <2>1, <2>3 DEF MergeInv, ListingStands
  <2> QED  BY <2>2, <2>3
<1>5. ASSUME NEW name \in AdminName, NEW members \in AdminMembers, AdminCreate(name, members)
      PROVE  MergeInv'
  <2>1. PICK id \in RoleId : fabric' = fabric \cup
             {[name |-> name, id |-> id, members |-> members, origin |-> Admin,
               rule |-> [paths |-> {<<>>}, cols |-> {}, rows |-> {}]]}
    BY <1>5 DEF AdminCreate
  <2> DEFINE S == {[name |-> name, id |-> id, members |-> members, origin |-> Admin,
                    rule |-> [paths |-> {<<>>}, cols |-> {}, rows |-> {}]]}
  <2>2. \A r \in S : r.name = name /\ r.id \in RoleId /\ r.origin = Admin
    OBVIOUS
  <2>3. fabric' = fabric \cup S
    BY <2>1
  <2> HIDE DEF S
  <2> QED  BY <1>4, <1>5, <2>2, <2>3 DEF AdminCreate
<1>6. ASSUME NEW role \in fabric, NEW members \in AdminMembers, AdminEdit(role, members)
      PROVE  MergeInv'
  <2> DEFINE S == {[role EXCEPT !.members = members, !.origin = Admin]}
  <2>1. role \in DataAccessPolicy /\ role.id \in RoleId
    BY DEF TypeOK, MergeInv, RolesHaveIds
  <2>2. \A r \in S : r.name = role.name /\ r.id \in RoleId /\ r.origin = Admin
    BY <2>1 DEF DataAccessPolicy
  <2>3. fabric' = (fabric \ {role}) \cup S
    BY <1>6 DEF AdminEdit
  <2> HIDE DEF S
  <2> QED  BY <1>4, <1>6, <2>2, <2>3 DEF AdminEdit
<1>7. ASSUME NEW role \in fabric, AdminDelete(role)
      PROVE  MergeInv'
  <2> DEFINE S == {}
  <2>1. fabric' = (fabric \ {role}) \cup S
    BY <1>7 DEF AdminDelete
  <2>2. \A r \in S : r.name = role.name /\ r.id \in RoleId /\ r.origin = Admin
    OBVIOUS
  <2> HIDE DEF S
  <2> QED  BY <1>4, <1>7, <2>1, <2>2 DEF AdminDelete
<1> QED  BY <1>5, <1>6, <1>7 DEF Environment

LEMMA InitMerge == Init => MergeInv
BY DEF Init, MergeInv, RolesHaveIds, OursBearSuffix, BuiltBearSuffix, ListingStands

LEMMA NextMerge ==
    ASSUME SuffixSurvives, TypeOK, NothingBuiltYet, MergeInv, [Next]_vars
    PROVE  MergeInv'
<1>1. ASSUME UNCHANGED <<pc, dap, built, current, fabric, touched>> PROVE MergeInv'
  BY <1>1 DEF MergeInv, RolesHaveIds, OursBearSuffix, BuiltBearSuffix, ListingStands, ForeignRoles
<1>2. CASE UNCHANGED vars
  BY <1>1, <1>2 DEF vars, locals, work, agent
<1>3. CASE Environment
  BY <1>3, EnvironmentMerge
<1>4. CASE Run \/ ApplyAgain \/ (MapPolicy /\ pc' = "apply")
  <2>1. /\ UNCHANGED <<dap, built, current, fabric, touched>>
        /\ pc' \notin {"build", "lookup"}
    BY <1>4 DEF Run, ApplyAgain, MapPolicy, End, Resting, locals, work
  <2> QED  BY <2>1 DEF MergeInv, RolesHaveIds, OursBearSuffix, BuiltBearSuffix, ListingStands
<1>5. CASE GetCurrentAccessPolicy
  <2>1. current' = fabric /\ fabric' = fabric /\ built' = built /\ pc' = "build"
    BY <1>5 DEF GetCurrentAccessPolicy
  <2> QED  BY <2>1 DEF MergeInv, RolesHaveIds, OursBearSuffix, BuiltBearSuffix, ListingStands
<1>6. ASSUME UNCHANGED <<built, current, fabric, touched>>,
             pc \in {"build", "lookup"}, pc' \in {"build", "lookup"},
             pc' = "lookup" => EndsWithSuffix(dap'.name)
      PROVE  MergeInv'
  BY <1>6 DEF MergeInv, RolesHaveIds, OursBearSuffix, BuiltBearSuffix, ListingStands, ForeignRoles
<1>7. CASE SplitNextPolicy
  BY <1>1, <1>7 DEF SplitNextPolicy
<1>8. CASE BuildDataAccessRolePolicy
  <2> DEFINE p == Head(parts)
  <2>1. p \in RolePolicy
    BY <1>8, HeadTailProperties DEF BuildDataAccessRolePolicy, TypeOK, Policy
  <2>2. PICK name \in FreshName(BaseName(PartStem(p)), usedNames) :
             \/ UNCHANGED <<pc, dap>>
             \/ pc' = "lookup" /\ dap' = NewRole(name, RuleOf(p), <<p.role, p.part>>)
    BY <1>8 DEF BuildDataAccessRolePolicy
  <2>3. EndsWithSuffix(name)
    BY <2>1, <2>2, RoleNameBearsSuffix
  <2>4. pc = "build" /\ UNCHANGED <<built, current, fabric, touched>>
    BY <1>8 DEF BuildDataAccessRolePolicy
  <2>5. pc' = "lookup" => dap'.name = name
    BY <2>2, <2>4 DEF NewRole
  <2>6. pc' \in {"build", "lookup"}
    BY <2>2, <2>4
  <2> HIDE DEF p
  <2> QED  BY <1>6, <2>3, <2>4, <2>5, <2>6
<1>9. CASE BuildDataAccessPolicy
  <2> DEFINE p == Head(parts)
  <2>1. p \in TablePolicy
    BY <1>9, HeadTailProperties DEF BuildDataAccessPolicy, TypeOK, Policy
  <2>2. dap'.name = GetRoleName(p)
    BY <1>9 DEF BuildDataAccessPolicy, NewRole
  <2>3. EndsWithSuffix(dap'.name)
    BY <2>1, <2>2, TableNameBearsSuffix
  <2> HIDE DEF p
  <2> QED  BY <1>6, <1>9, <2>3 DEF BuildDataAccessPolicy
<1>10. CASE AddMember
  <2>1. pc = "lookup" /\ dap \in DataAccessPolicy
    BY <1>10 DEF AddMember, TypeOK
  <2>2. dap'.name = dap.name
    BY <1>10, <2>1 DEF AddMember, DataAccessPolicy
  <2>3. EndsWithSuffix(dap'.name)
    BY <2>1, <2>2 DEF MergeInv, BuiltBearSuffix
  <2> QED  BY <1>6, <1>10, <2>1, <2>3 DEF AddMember
<1>11. CASE SkipMember
  BY <1>1, <1>11 DEF SkipMember
<1>12. CASE FinishRole
  <2>1. /\ pc = "lookup" /\ pc' = "build" /\ dap \in DataAccessPolicy
        /\ built \in Seq(DataAccessPolicy) /\ UNCHANGED <<fabric, current, touched>>
    BY <1>12 DEF FinishRole, TypeOK
  <2>2. \A i \in DOMAIN built' : EndsWithSuffix(built'[i].name)
    <3>1. CASE built' = built
      BY <3>1 DEF MergeInv, BuiltBearSuffix
    <3>2. CASE built' = Append(built, dap)
      BY <2>1, <3>2, AppendProperties DEF MergeInv, BuiltBearSuffix
    <3> QED  BY <1>12, <3>1, <3>2 DEF FinishRole
  <2> QED  BY <2>1, <2>2
           DEF MergeInv, RolesHaveIds, OursBearSuffix, BuiltBearSuffix, ListingStands, ForeignRoles
<1>13. CASE \/ MapPolicy /\ pc' # "apply"
            \/ CallDocumentedHandler \/ WarnNoMembers \/ PutRefused \/ NothingToSync \/ Fail
  <2>1. fabric' = fabric /\ \E result \in Resting : End(result)
    BY <1>13 DEF MapPolicy, CallDocumentedHandler, WarnNoMembers, PutRefused, NothingToSync,
                 Fail, Resting
  <2> QED  BY <2>1, EndMerge DEF MergeInv, RolesHaveIds, OursBearSuffix
<1>14. CASE PutDataAccessPolicy \/ PutWithoutAnswer
  <2>1. Put /\ \E result \in Resting : End(result)
    BY <1>14 DEF PutDataAccessPolicy, PutWithoutAnswer, Resting
  <2> QED  BY <2>1, PutMerge, EndMerge
<1> QED
  BY <1>2, <1>3, <1>4, <1>5, <1>7, <1>8, <1>9, <1>10, <1>11, <1>12, <1>13, <1>14
     DEF Next, Progress

(* Every step that changes both pc and Fabric is a PUT. *)
LEMMA OnlyPutWrites ==
    ASSUME TypeOK, [Next]_vars, WeaverWrites
    PROVE  Put
<1>1. fabric' # fabric /\ pc' # pc
  BY DEF WeaverWrites
<1>2. CASE UNCHANGED vars
  BY <1>1, <1>2 DEF vars
<1>3. CASE Environment
  BY <1>1, <1>3 DEF Environment, AdminCreate, AdminEdit, AdminDelete
<1>4. CASE Run \/ ApplyAgain \/ Fail
  BY <1>1, <1>4 DEF Run, ApplyAgain, Fail
<1>5. CASE Progress
  BY <1>1, <1>5
     DEF Progress, MapPolicy, GetCurrentAccessPolicy, SplitNextPolicy,
         BuildDataAccessRolePolicy, BuildDataAccessPolicy, AddMember, SkipMember,
         CallDocumentedHandler, FinishRole, WarnNoMembers, PutDataAccessPolicy,
         PutWithoutAnswer, PutRefused, NothingToSync
<1> QED  BY <1>2, <1>3, <1>4, <1>5 DEF Next

(* The invariant the merge rests on holds in every state. *)
THEOREM MergeInvariant == ASSUME SuffixSurvives PROVE Spec => []MergeInv
<1>1. Init => MergeInv
  BY InitMerge
<1>2. TypeOK /\ NamesInv /\ MergeInv /\ [Next]_vars => MergeInv'
  BY NextMerge DEF NamesInv
<1>3. Init => NamesInv
  BY InitNames
<1>4. TypeOK /\ NamesInv /\ [Next]_vars => NamesInv'
  BY NextNames
<1> QED  BY <1>1, <1>2, <1>3, <1>4, TypeCorrect, PTL DEF Spec

(* The list is read and later replaced as a whole, and administrators act  *)
(* in between: no role the weaver does not manage is lost, changed or      *)
(* resurrected by a PUT, except one written after the listing              *)
(* (weaver.py:282-297).                                                    *)
THEOREM ForeignRolesSurvive == ASSUME SuffixSurvives PROVE Spec => OnlyConcurrentEditsAreLost
<1>1. TypeOK /\ MergeInv /\ [Next]_vars
      => [WeaverWrites => ForeignRoles(fabric') = ForeignRoles(fabric)]_vars
  BY OnlyPutWrites, PutKeepsForeign
<1> QED  BY <1>1, MergeInvariant, TypeCorrect, PTL DEF Spec, OnlyConcurrentEditsAreLost

(* After a PUT no role of an earlier run, and none that bears the suffix,  *)
(* is in Fabric unless this run built it just so (weaver.py:282-297).      *)
THEOREM StaleRolesGo == ASSUME SuffixSurvives PROVE Spec => SyncLeavesNoStaleRole
<1>1. TypeOK /\ MergeInv /\ [Next]_vars => [WeaverWrites => NoStaleRole]_vars
  BY OnlyPutWrites, PutLeavesNoStaleRole
<1> QED  BY <1>1, MergeInvariant, TypeCorrect, PTL DEF Spec, SyncLeavesNoStaleRole
===============================================================================
