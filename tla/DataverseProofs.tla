---------------------------- MODULE DataverseProofs ----------------------------
(***************************************************************************)
(* Theorems about DataverseConnector, for every environment, every change  *)
(* to it while it is fetched, and every way the requests may fail.         *)
(***************************************************************************)
EXTENDS DataverseConnector, FiniteSetTheorems, SequenceTheorems, TLAPS

-------------------------------------------------------------------------------
(* The items of a collection *)

(* Every member of a finite set is served. *)
LEMMA SetToSeqServes ==
    ASSUME NEW S, IsFiniteSet(S)
    PROVE  SetToSeq(S) \in Seq(S) /\ ToSet(SetToSeq(S)) = S
<1> DEFINE n == Cardinality(S)
<1>1. n \in Nat /\ ExistsBijection(1 .. n, S)
  BY FS_CardinalityType
<1>2. PICK f \in Bijection(1 .. n, S) : TRUE
  BY <1>1 DEF ExistsBijection
<1>3. f \in [1 .. n -> S] /\ IsInjective(f)
  BY <1>2 DEF Bijection, Injection, IsInjective
<1>4. SetToSeq(S) \in [1 .. n -> S] /\ IsInjective(SetToSeq(S))
  <2>1. \E g \in [1 .. n -> S] : IsInjective(g)
    BY <1>3
  <2> QED BY <2>1 DEF SetToSeq
<1> DEFINE g == SetToSeq(S)
<1>5. g \in Seq(S)
  BY <1>1, <1>4, SeqDef
<1>6. g \in Injection(1 .. n, S)
  BY <1>4 DEF Injection, IsInjective
<1>7. IsFiniteSet(1 .. n) /\ Cardinality(1 .. n) = n
  BY <1>1, FS_Interval
<1>8. g \in Surjection(1 .. n, S)
  BY <1>6, <1>7, FS_Injection
<1>9. ToSet(g) = S
  BY <1>8 DEF Surjection, ToSet
<1> QED BY <1>5, <1>9

LEMMA HeadOrTail ==
    ASSUME NEW S, NEW s \in Seq(S), s # <<>>
    PROVE  Head(s) \in S /\ Tail(s) \in Seq(S) /\ ToSet(s) \subseteq {Head(s)} \cup ToSet(Tail(s))
<1>1. /\ Head(s) \in S /\ Tail(s) \in Seq(S) /\ Len(Tail(s)) = Len(s) - 1
      /\ \A i \in 1 .. Len(Tail(s)) : Tail(s)[i] = s[i + 1]
  BY HeadTailProperties
<1>2. Len(s) \in Nat /\ DOMAIN s = 1 .. Len(s) /\ DOMAIN Tail(s) = 1 .. Len(Tail(s))
  BY <1>1, LenProperties
<1> SUFFICES ASSUME NEW i \in DOMAIN s PROVE s[i] \in {Head(s)} \cup ToSet(Tail(s))
  BY <1>1 DEF ToSet
<1>3. CASE i = 1
  BY <1>3
<1>4. CASE i # 1
  <2>1. i - 1 \in DOMAIN Tail(s) /\ Tail(s)[i - 1] = s[i]
    BY <1>1, <1>2, <1>4
  <2> QED BY <2>1 DEF ToSet
<1> QED BY <1>3, <1>4

LEMMA EmptyServes == \A S : <<>> \in Seq(S) /\ ToSet(<<>>) = {}
BY DEF ToSet

LEMMA ImageFinite ==
    ASSUME NEW S, IsFiniteSet(S), NEW f, f = [x \in S |-> f[x]]
    PROVE  IsFiniteSet({f[x] : x \in S})
<1> DEFINE T == {f[x] : x \in S}
<1>1. f \in Surjection(S, T)
  BY DEF Surjection
<1> QED  BY <1>1, FS_Surjection

LEMMA RoleIdsFinite ==
    ASSUME NEW roles, IsFiniteSet(roles)
    PROVE  IsFiniteSet({r.id : r \in roles})
<1> DEFINE f == [r \in roles |-> r.id]
<1>1. {r.id : r \in roles} = {f[r] : r \in roles} /\ f = [r \in roles |-> f[r]]
  OBVIOUS
<1> HIDE DEF f
<1> QED BY <1>1, ImageFinite

LEMMA PartsFinite ==
    ASSUME NEW S, IsFiniteSet(S)
    PROVE  IsFiniteSet(S \X (1 .. 3))
<1> DEFINE f(k) == [p \in S |-> <<p, k>>]
           Slice(k) == {f(k)[p] : p \in S}
<1>1. ASSUME NEW k PROVE IsFiniteSet(Slice(k))
  <2> DEFINE g == f(k)
  <2>1. g = [p \in S |-> g[p]] /\ Slice(k) = {g[p] : p \in S}
    OBVIOUS
  <2> HIDE DEF g
  <2> QED BY <2>1, ImageFinite
<1>2. S \X (1 .. 3) = Slice(1) \cup Slice(2) \cup Slice(3)
  OBVIOUS
<1>3. IsFiniteSet(Slice(1)) /\ IsFiniteSet(Slice(2)) /\ IsFiniteSet(Slice(3))
  BY <1>1
<1> HIDE DEF Slice
<1>4. IsFiniteSet(Slice(1) \cup Slice(2))
  BY <1>3, FS_Union
<1>5. IsFiniteSet((Slice(1) \cup Slice(2)) \cup Slice(3))
  BY <1>3, <1>4, FS_Union
<1> QED BY <1>2, <1>5

-------------------------------------------------------------------------------
(* Types *)

LEMMA EnvironmentFields ==
    ASSUME NEW s \in Environment
    PROVE  /\ s.units \subseteq [id : Unit, parent : Unit \cup {None}]
           /\ s.users \subseteq User /\ s.teams \subseteq Team
           /\ s.roles \subseteq [id : SecurityRole, unit : Unit \cup {None}]
           /\ s.depths \subseteq [role : SecurityRole, privilege : Privilege, depth : Depth]
           /\ s.privileges \subseteq [role : SecurityRole, privilege : Privilege, table : Table]
           /\ s.userRoles \subseteq User \X SecurityRole /\ s.teamRoles \subseteq Team \X SecurityRole
           /\ s.members \in [Team -> SUBSET User] /\ s.profiles \subseteq Profile
           /\ s.readable \in [Profile -> SUBSET (Table \X Column)]
           /\ s.profileUsers \in [Profile -> SUBSET User]
           /\ s.profileTeams \in [Profile -> SUBSET Team]
BY DEF Environment

LEMMA PossibleEnvironments == Possible \subseteq Environment
<1> SUFFICES ASSUME NEW c \in Change PROVE c[2] \in Environment
  BY ConnectorAssumption DEF Possible
<1> QED BY ConnectorAssumption

LEMMA PrincipalsType ==
    ASSUME NEW s \in Environment, NEW role
    PROVE  Principals(s, role) \subseteq User \cup Team
BY EnvironmentFields DEF Principals

LEMMA ExpandedType ==
    ASSUME NEW s \in Environment, NEW principals
    PROVE  Expanded(s, principals) \subseteq User
BY EnvironmentFields DEF Expanded

LEMMA ColumnsType ==
    ASSUME NEW s \in Environment, NEW principals, NEW tables, tables \subseteq Table
    PROVE  ColumnConstraints(s, principals, tables)
               \subseteq [profile : Profile, table : Table, columns : SUBSET Column]
<1> SUFFICES ASSUME NEW c \in [profile : s.profiles, table : tables, columns : SUBSET Column \ {{}}]
             PROVE  c \in [profile : Profile, table : Table, columns : SUBSET Column]
  BY DEF ColumnConstraints
<1> QED BY EnvironmentFields

LEMMA RowsType ==
    ASSUME NEW s, NEW role, NEW owners
    PROVE  /\ DOMAIN RowConstraints(s, role, owners) = Tables(s, role)
           /\ Tables(s, role) \subseteq Table
           /\ \A t \in Tables(s, role) : RowConstraints(s, role, owners)[t] \subseteq Row
<1>1. \A depth, unit : RowFilter(s, depth, unit, owners) \subseteq Row
  BY DEF RowFilter
<1> QED BY <1>1, DataverseAssumption DEF RowConstraints, Tables

LEMMA ExportType ==
    ASSUME NEW s \in Environment, NEW p \in BuildRoleBasedExport(s)
    PROVE  IsPolicy(p)
<1>1. PICK role \in SecurityRole : p \in PoliciesOf(s, role)
  BY DEF BuildRoleBasedExport
<1>2. \A u, owners : IsPolicy(OwnPolicy(s, role, u, owners)) \/ u \notin User
  BY ColumnsType, RowsType DEF OwnPolicy, IsPolicy
<1>3. UsersOf(s, role) \subseteq User
  BY EnvironmentFields DEF UsersOf, Resolvable
<1>4. CASE p \in PerPrincipalRoles(s, role) \/ p \in PerPrincipalClsRoles(s, role)
  BY <1>2, <1>3, <1>4 DEF PerPrincipalRoles, PerPrincipalClsRoles
<1>5. CASE p \in SharedRole(s, role)
  <2> DEFINE principals == Principals(s, role)
             groups     == principals \cap Team \cap EntraId
             users      == Expanded(s, principals \ groups) \cap Resolvable(s)
  <2>1. p = [role |-> role, users |-> users, groups |-> groups,
             cols |-> ColumnConstraints(s, principals, Tables(s, role)),
             rows |-> RowConstraints(s, role, {})]
    BY <1>5 DEF SharedRole
  <2>2. users \subseteq User /\ groups \subseteq Team
    BY EnvironmentFields DEF Resolvable
  <2> HIDE DEF users, groups, principals
  <2> QED BY <2>1, <2>2, ColumnsType, RowsType DEF IsPolicy
<1> QED BY <1>1, <1>4, <1>5 DEF PoliciesOf

LEMMA Order ==
    /\ DOMAIN Following = {"units", "users", "teams", "roles", "depths", "privileges", "userRoles",
                           "teamRoles", "members", "profiles", "profile"}
    /\ Following["units"] = "users" /\ Following["users"] = "teams" /\ Following["teams"] = "roles"
    /\ Following["roles"] = "depths" /\ Following["depths"] = "privileges"
    /\ Following["privileges"] = "userRoles" /\ Following["userRoles"] = "teamRoles"
    /\ Following["teamRoles"] = "members" /\ Following["members"] = "profiles"
    /\ Following["profiles"] = "profile" /\ Following["profile"] = "export"
BY DEF Following

(* TypeOK is inductive together with this: the environments are possible   *)
(* ones, what was fetched of them is finite where it is gone through, and  *)
(* what is gone through is of the kind the collection has.                 *)
TypeInv ==
    /\ TypeOK
    /\ dv \in Possible /\ seen \subseteq Possible
    /\ IsFiniteSet(snap.roles) /\ IsFiniteSet(snap.teams) /\ IsFiniteSet(snap.profiles)
    /\ pc = "privileges" => todo \in Seq(SecurityRole)
    /\ pc = "members" => todo \in Seq(Team)
    /\ pc = "profile" => todo \in Seq(Profile \X (1 .. 3))

LEMMA NothingFetchedType == NothingFetched \in Environment
BY DEF NothingFetched, Environment

LEMMA TypeInit == Init => TypeInv
<1> SUFFICES ASSUME Init PROVE TypeInv
  OBVIOUS
<1>1. dv \in Possible /\ snap = NothingFetched /\ pc = "ready" /\ todo = <<>>
  BY DEF Init, Possible
<1>2. IsFiniteSet(snap.roles) /\ IsFiniteSet(snap.teams) /\ IsFiniteSet(snap.profiles)
  BY <1>1, FS_EmptySet DEF NothingFetched
<1> QED BY <1>1, <1>2, PossibleEnvironments, NothingFetchedType, EmptyServes
        DEF Init, TypeInv, TypeOK, Resting

(* Which items come next, when what was fetched is s. *)
LEMMA GoOnType ==
    ASSUME NEW s \in Environment, pc \in DOMAIN Following, GoOn(s),
           IsFiniteSet(s.roles), IsFiniteSet(s.teams), IsFiniteSet(s.profiles)
    PROVE  /\ pc' \in DOMAIN Following \cup {"export"} /\ todo' \in Seq(Item)
           /\ pc' = "privileges" => /\ todo' \in Seq(SecurityRole)
                                    /\ ToSet(todo') = {r.id : r \in s.roles}
           /\ pc' = "members" => todo' \in Seq(Team) /\ ToSet(todo') = s.teams
           /\ pc' = "profile" => /\ todo' \in Seq(Profile \X (1 .. 3))
                                 /\ ToSet(todo') = s.profiles \X (1 .. 3)
<1>1. pc' \in DOMAIN Following \cup {"export"}
  BY Order DEF GoOn
<1>2. CASE pc' = "privileges"
  <2> DEFINE ids == {r.id : r \in s.roles}
  <2>1. IsFiniteSet(ids) /\ ids \subseteq SecurityRole
    BY RoleIdsFinite, EnvironmentFields
  <2>2. todo' = SetToSeq(ids)
    BY <1>2 DEF GoOn, Items
  <2> HIDE DEF ids
  <2>3. todo' \in Seq(ids) /\ ToSet(todo') = ids
    BY <2>1, <2>2, SetToSeqServes
  <2>4. todo' \in Seq(SecurityRole) /\ todo' \in Seq(Item)
    BY <2>1, <2>3, SeqMonotonic DEF Item
  <2> QED BY <1>1, <1>2, <2>3, <2>4 DEF ids
<1>3. CASE pc' = "members"
  <2>1. todo' = SetToSeq(s.teams)
    BY <1>3 DEF GoOn, Items
  <2>2. todo' \in Seq(s.teams) /\ ToSet(todo') = s.teams
    BY <2>1, SetToSeqServes
  <2>3. todo' \in Seq(Team) /\ todo' \in Seq(Item)
    BY <2>2, SeqMonotonic, EnvironmentFields DEF Item
  <2> QED BY <1>1, <1>3, <2>2, <2>3
<1>4. CASE pc' = "profile"
  <2> DEFINE parts == s.profiles \X (1 .. 3)
  <2>1. IsFiniteSet(parts) /\ parts \subseteq Profile \X (1 .. 3)
    BY PartsFinite, EnvironmentFields
  <2>2. todo' = SetToSeq(parts)
    BY <1>4 DEF GoOn, Items
  <2> HIDE DEF parts
  <2>3. todo' \in Seq(parts) /\ ToSet(todo') = parts
    BY <2>1, <2>2, SetToSeqServes
  <2>4. todo' \in Seq(Profile \X (1 .. 3)) /\ todo' \in Seq(Item)
    BY <2>1, <2>3, SeqMonotonic DEF Item
  <2> QED BY <1>1, <1>4, <2>3, <2>4 DEF parts
<1>5. CASE pc' \notin {"privileges", "members", "profile"}
  <2>1. todo' = <<>>
    BY <1>5 DEF GoOn, Items
  <2> QED BY <1>1, <1>5, <2>1, EmptyServes
<1> QED BY <1>2, <1>3, <1>4, <1>5

(* The records of an environment by name, for the provers. *)
UnitRecord      == [id : Unit, parent : Unit \cup {None}]
RoleRecord      == [id : SecurityRole, unit : Unit \cup {None}]
DepthRecord     == [role : SecurityRole, privilege : Privilege, depth : Depth]
PrivilegeRecord == [role : SecurityRole, privilege : Privilege, table : Table]
UserRolePair    == User \X SecurityRole
TeamRolePair    == Team \X SecurityRole
MembersMap      == [Team -> SUBSET User]
ReadableMap     == [Profile -> SUBSET (Table \X Column)]
UsersMap        == [Profile -> SUBSET User]
TeamsMap        == [Profile -> SUBSET Team]

LEMMA EnvironmentRecord ==
    Environment =
        [units : SUBSET UnitRecord, users : SUBSET User, teams : SUBSET Team,
         roles : SUBSET RoleRecord, depths : SUBSET DepthRecord,
         privileges : SUBSET PrivilegeRecord, userRoles : SUBSET UserRolePair,
         teamRoles : SUBSET TeamRolePair, members : MembersMap, profiles : SUBSET Profile,
         readable : ReadableMap, profileUsers : UsersMap, profileTeams : TeamsMap]
BY DEF Environment, UnitRecord, RoleRecord, DepthRecord, PrivilegeRecord, UserRolePair, TeamRolePair,
       MembersMap, ReadableMap, UsersMap, TeamsMap

(* A whole collection is what the source has of it, and nothing else       *)
(* that was fetched changes.                                               *)
LEMMA CollectionFetched ==
    ASSUME TypeInv, FetchCollection
    PROVE  /\ snap' \in Environment
           /\ IsFiniteSet(snap'.roles) /\ IsFiniteSet(snap'.teams) /\ IsFiniteSet(snap'.profiles)
           /\ snap'[pc] = Served(pc)
           /\ \A f \in DOMAIN NothingFetched \ {pc} : snap'[f] = snap[f]
<1>1. /\ snap \in Environment /\ dv \in Environment /\ pc \in Whole
      /\ snap' = [snap EXCEPT ![pc] = Served(pc)]
      /\ IsFiniteSet(snap.roles) /\ IsFiniteSet(snap.teams) /\ IsFiniteSet(snap.profiles)
      /\ IsFiniteSet(dv.roles) /\ IsFiniteSet(dv.teams) /\ IsFiniteSet(dv.profiles)
  BY ServedAssumption DEF TypeInv, TypeOK, FetchCollection
<1>2. DOMAIN snap = DOMAIN NothingFetched
  BY <1>1 DEF Environment, NothingFetched
<1>3. Whole \subseteq DOMAIN snap
  BY <1>2 DEF Whole, NothingFetched
<1>4. snap'[pc] = Served(pc) /\ \A f \in DOMAIN NothingFetched \ {pc} : snap'[f] = snap[f]
  BY <1>1, <1>2, <1>3
<1>5. IsFiniteSet(snap'.roles) /\ IsFiniteSet(snap'.teams) /\ IsFiniteSet(snap'.profiles)
  <2>1. \A f \in {"roles", "teams", "profiles"} : snap'[f] = snap[f] \/ snap'[f] = dv[f]
    BY <1>4 DEF NothingFetched, Served
  <2> QED BY <1>1, <2>1
<1>6. Served(pc) \subseteq dv[pc]
  BY DEF Served
<1>7. snap' \in Environment
  <2>1. CASE pc = "units"
    BY <1>1, <1>6, <2>1, EnvironmentRecord
  <2>2. CASE pc = "users"
    BY <1>1, <1>6, <2>2, EnvironmentRecord
  <2>3. CASE pc = "teams"
    BY <1>1, <1>6, <2>3, EnvironmentRecord
  <2>4. CASE pc = "roles"
    BY <1>1, <1>6, <2>4, EnvironmentRecord
  <2>5. CASE pc = "depths"
    BY <1>1, <1>6, <2>5, EnvironmentRecord
  <2>6. CASE pc = "userRoles"
    BY <1>1, <1>6, <2>6, EnvironmentRecord
  <2>7. CASE pc = "teamRoles"
    BY <1>1, <1>6, <2>7, EnvironmentRecord
  <2>8. CASE pc = "profiles"
    BY <1>1, <1>6, <2>8, EnvironmentRecord
  <2> QED BY <1>1, <2>1, <2>2, <2>3, <2>4, <2>5, <2>6, <2>7, <2>8 DEF Whole
<1> QED BY <1>4, <1>5, <1>7

LEMMA ExceptTwice ==
    ASSUME NEW s, NEW c \in DOMAIN s, NEW p, NEW v
    PROVE  [s EXCEPT ![c][p] = v] = [s EXCEPT ![c] = [s[c] EXCEPT ![p] = v]]
OBVIOUS

(* One item more of what is fetched by items: the privileges of a role. *)
LEMMA PrivilegesFetched ==
    ASSUME TypeInv, FetchPrivileges
    PROVE  /\ snap' \in Environment
           /\ snap'.privileges = snap.privileges \cup {p \in dv.privileges : p.role = Head(todo)}
           /\ \A f \in DOMAIN NothingFetched \ {"privileges"} : snap'[f] = snap[f]
<1> DEFINE more == {p \in dv.privileges : p.role = Head(todo)}
<1>1. snap \in Environment /\ dv \in Environment
  BY DEF TypeInv, TypeOK
<1>2. snap' = [snap EXCEPT !.privileges = snap.privileges \cup more]
  BY <1>1, EnvironmentRecord DEF FetchPrivileges
<1>3. snap.privileges \cup more \in SUBSET PrivilegeRecord
  BY <1>1, EnvironmentRecord
<1> HIDE DEF more
<1>4. /\ snap' \in Environment /\ snap'.privileges = snap.privileges \cup more
      /\ \A f \in DOMAIN NothingFetched \ {"privileges"} : snap'[f] = snap[f]
  BY <1>1, <1>2, <1>3, EnvironmentRecord DEF NothingFetched
<1> QED BY <1>4 DEF more

(* The members of a team. *)
LEMMA MembersFetched ==
    ASSUME TypeInv, FetchMembers
    PROVE  /\ snap' \in Environment
           /\ snap'.members = [snap.members EXCEPT ![Head(todo)] = dv.members[Head(todo)]]
           /\ \A f \in DOMAIN NothingFetched \ {"members"} : snap'[f] = snap[f]
<1> DEFINE all == [snap.members EXCEPT ![Head(todo)] = dv.members[Head(todo)]]
<1>1. snap \in Environment /\ dv \in Environment
  BY DEF TypeInv, TypeOK
<1>2. Head(todo) \in Team
  BY HeadOrTail DEF FetchMembers, TypeInv
<1>3. snap' = [snap EXCEPT !.members = all]
  BY <1>1, EnvironmentRecord DEF FetchMembers
<1>4. all \in MembersMap
  BY <1>1, <1>2, EnvironmentFields DEF MembersMap
<1> HIDE DEF all
<1>5. /\ snap' \in Environment /\ snap'.members = all
      /\ \A f \in DOMAIN NothingFetched \ {"members"} : snap'[f] = snap[f]
  BY <1>1, <1>3, <1>4, EnvironmentRecord DEF NothingFetched
<1> QED BY <1>5 DEF all

(* A part of a profile. *)
LEMMA ProfileFetched ==
    ASSUME TypeInv, FetchProfile
    PROVE  /\ snap' \in Environment
           /\ \E p \in Profile, k \in 1 .. 3 :
                  /\ Head(todo) = <<p, k>>
                  /\ snap'[Part[k]] = [snap[Part[k]] EXCEPT ![p] = dv[Part[k]][p]]
                  /\ \A f \in DOMAIN NothingFetched \ {Part[k]} : snap'[f] = snap[f]
<1>1. snap \in Environment /\ dv \in Environment
  BY DEF TypeInv, TypeOK
<1>2. Head(todo) \in Profile \X (1 .. 3)
  BY HeadOrTail DEF FetchProfile, TypeInv
<1>3. PICK p \in Profile, k \in 1 .. 3 : Head(todo) = <<p, k>>
  BY <1>2
<1> DEFINE part == Part[k]
           all  == [snap[part] EXCEPT ![p] = dv[part][p]]
<1>4. part \in {"readable", "profileUsers", "profileTeams"}
  BY DEF Part
<1>5. part \in DOMAIN snap /\ DOMAIN snap = DOMAIN NothingFetched
  BY <1>1, <1>4, EnvironmentRecord DEF NothingFetched
<1>6. snap' = [snap EXCEPT ![part] = all]
  <2>1. Head(todo)[1] = p /\ Head(todo)[2] = k
    BY <1>3
  <2>2. snap' = [snap EXCEPT ![Part[Head(todo)[2]]][Head(todo)[1]]
                    = dv[Part[Head(todo)[2]]][Head(todo)[1]]]
    BY Zenon DEF FetchProfile
  <2>3. snap' = [snap EXCEPT ![part][p] = dv[part][p]]
    BY <2>1, <2>2, Zenon
  <2>4. \A v : [snap EXCEPT ![part][p] = v] = [snap EXCEPT ![part] = [snap[part] EXCEPT ![p] = v]]
    BY <1>5, ExceptTwice
  <2> QED BY <2>3, <2>4, Zenon
<1>7. snap'[part] = all /\ \A f \in DOMAIN NothingFetched \ {part} : snap'[f] = snap[f]
  BY <1>5, <1>6
<1>8. snap' \in Environment
  <2>1. \/ part = "readable" /\ all \in ReadableMap
        \/ part = "profileUsers" /\ all \in UsersMap
        \/ part = "profileTeams" /\ all \in TeamsMap
    BY <1>1, <1>4, EnvironmentFields DEF ReadableMap, UsersMap, TeamsMap
  <2> HIDE DEF all, part
  <2> QED BY <1>1, <1>6, <2>1, EnvironmentRecord
<1> QED BY <1>3, <1>7, <1>8

LEMMA ItemFetched ==
    ASSUME TypeInv, FetchPrivileges \/ FetchMembers \/ FetchProfile
    PROVE  /\ snap' \in Environment
           /\ \A f \in DOMAIN NothingFetched \
                  {"privileges", "members", "readable", "profileUsers", "profileTeams"} :
                  snap'[f] = snap[f]
<1>1. \A k \in 1 .. 3 : Part[k] \in {"readable", "profileUsers", "profileTeams"}
  BY DEF Part
<1>2. CASE FetchProfile
  BY <1>1, <1>2, ProfileFetched
<1> QED BY <1>2, PrivilegesFetched, MembersFetched

LEMMA TypeNext == TypeInv /\ [Next]_vars => TypeInv'
<1> SUFFICES ASSUME TypeInv, [Next]_vars PROVE TypeInv'
  OBVIOUS
<1> DEFINE exportOK(e) == \A p \in e : IsPolicy(p)
           finite(s)   == IsFiniteSet(s.roles) /\ IsFiniteSet(s.teams) /\ IsFiniteSet(s.profiles)
           typed(c, q) == /\ q \in Seq(Item)
                          /\ c = "privileges" => q \in Seq(SecurityRole)
                          /\ c = "members" => q \in Seq(Team)
                          /\ c = "profile" => q \in Seq(Profile \X (1 .. 3))
           place       == Resting \cup DOMAIN Following \cup {"export"}
           attempts    == {"first", "unauthorised", "again", "raised"}
<1>1. /\ dv \in Possible /\ seen \subseteq Possible /\ pc \in place /\ typed(pc, todo)
      /\ snap \in Environment /\ finite(snap) /\ token \in {"none", "fresh", "stale"}
      /\ attempt \in attempts /\ exportOK(export) /\ refused \in BOOLEAN
  BY DEF TypeInv, TypeOK
<1>2. ASSUME dv' \in Possible, seen' \subseteq Possible, pc' \in place, typed(pc', todo'),
             snap' \in Environment, finite(snap'), token' \in {"none", "fresh", "stale"},
             attempt' \in attempts, exportOK(export'), refused' \in BOOLEAN
      PROVE  TypeInv'
  BY <1>2, PossibleEnvironments DEF TypeInv, TypeOK
<1>3. todo # <<>> => typed(pc, Tail(todo))
  BY <1>1, HeadOrTail
<1>4. ASSUME NEW s \in Environment, finite(s), pc \in DOMAIN Following, GoOn(s)
      PROVE  pc' \in place /\ typed(pc', todo')
  BY <1>4, GoOnType
<1>5. Raised => token' \in {"none", "fresh", "stale"} /\ attempt' \in attempts /\ refused' \in BOOLEAN
  BY <1>1 DEF Raised
<1>6. Answered => token' \in {"none", "fresh", "stale"} /\ attempt' \in attempts /\ refused' \in BOOLEAN
  BY <1>1 DEF Answered
<1>7. typed("units", <<>>) /\ \A c \in Resting \cup {"export"}, q \in Seq(Item) : typed(c, q)
  BY EmptyServes DEF Resting
<1>8. "failed" \in Resting /\ "units" \in place /\ Whole \subseteq DOMAIN Following
      /\ {"privileges", "members", "profile"} \subseteq DOMAIN Following
  BY Order DEF Resting, Whole
<1>9. finite(NothingFetched)
  BY FS_EmptySet DEF NothingFetched
<1> HIDE DEF exportOK, finite, typed
<1>10. CASE MapPolicy
  <2>1. exportOK(export')
    BY <1>10 DEF MapPolicy, exportOK
  <2> QED BY <1>1, <1>2, <1>7, <1>8, <1>9, <1>10, <2>1, NothingFetchedType DEF MapPolicy
<1>11. CASE FetchCollection
  <2>1. snap' \in Environment /\ finite(snap')
    BY <1>11, CollectionFetched DEF finite
  <2>2. GoOn(snap') /\ pc \in DOMAIN Following
    BY <1>8, <1>11 DEF FetchCollection
  <2>3. pc' \in place /\ typed(pc', todo')
    BY <1>4, <2>1, <2>2
  <2> QED BY <1>1, <1>2, <1>6, <1>11, <2>1, <2>3 DEF FetchCollection
<1>12. CASE FetchPrivileges \/ FetchMembers \/ FetchProfile
  <2>1. snap' \in Environment /\ finite(snap')
    BY <1>1, <1>12, ItemFetched DEF finite, NothingFetched
  <2>2. pc' = pc /\ todo # <<>> /\ todo' = Tail(todo) /\ Answered /\ UNCHANGED <<dv, export, seen>>
    BY <1>12 DEF FetchPrivileges, FetchMembers, FetchProfile
  <2> QED BY <1>1, <1>2, <1>3, <1>6, <2>1, <2>2
<1>13. CASE CollectionFails
  <2>1. typed(pc', todo')
    BY <1>1, <1>7, <1>8, <1>13 DEF CollectionFails, typed
  <2> QED BY <1>1, <1>2, <1>5, <1>8, <1>13, <2>1 DEF CollectionFails
<1>14. CASE ItemFails
  BY <1>1, <1>2, <1>3, <1>5, <1>14 DEF ItemFails
<1>15. CASE ItemsDone
  BY <1>1, <1>2, <1>4, <1>8, <1>15 DEF ItemsDone
<1>16. CASE Export
  <2>1. exportOK(export')
    BY <1>1, <1>16, ExportType DEF Export, exportOK
  <2>2. pc' \in Resting
    BY <1>16 DEF Export, Resting
  <2>3. typed(pc', todo')
    BY <1>1, <1>7, <1>16, <2>2 DEF Export, typed
  <2> QED BY <1>1, <1>2, <1>16, <2>1, <2>2, <2>3 DEF Export
<1>17. CASE TokenExpires
  BY <1>1, <1>2, <1>17 DEF TokenExpires
<1>18. CASE SourceChanges
  <2>1. dv' \in Possible
    BY <1>18 DEF SourceChanges, Possible
  <2> QED BY <1>1, <1>2, <1>18, <2>1 DEF SourceChanges
<1>19. CASE UNCHANGED vars
  BY <1>1, <1>2, <1>19 DEF vars
<1>20. CASE Unauthorised
  BY <1>1, <1>2, <1>20 DEF Unauthorised
<1>21. CASE Renew
  BY <1>1, <1>2, <1>21 DEF Renew
<1>22. CASE Refused
  <2>1. token' \in {"none", "fresh", "stale"}
    BY <1>1, <1>22 DEF Refused
  <2> QED BY <1>1, <1>2, <1>22, <2>1 DEF Refused
<1> QED BY <1>10, <1>11, <1>12, <1>13, <1>14, <1>15, <1>16, <1>17, <1>18, <1>19, <1>20, <1>21, <1>22
        DEF Next, Progress

(* Every variable keeps its type: what was fetched is an environment, and  *)
(* every policy names users as users and teams as groups.                  *)
THEOREM TypeCorrect == Spec => []TypeOK
<1>1. TypeInv => TypeOK
  BY DEF TypeInv
<1> QED BY <1>1, TypeInit, TypeNext, PTL DEF Spec

(* FailsOnlyWhenRefused, strengthened: a GET is sent again with a token    *)
(* that has not expired, and an error is raised only when one was met that *)
(* a new token does not help against.                                      *)
AttemptInv ==
    /\ attempt = "again" => token = "fresh"
    /\ attempt = "raised" => refused
    /\ FailsOnlyWhenRefused

LEMMA AttemptInit == Init => AttemptInv
BY DEF Init, AttemptInv, FailsOnlyWhenRefused

LEMMA AttemptNext == AttemptInv /\ [Next]_vars => AttemptInv'
<1> SUFFICES ASSUME AttemptInv, [Next]_vars PROVE AttemptInv'
  OBVIOUS
<1>1. CASE MapPolicy
  BY <1>1 DEF MapPolicy, AttemptInv, FailsOnlyWhenRefused
<1>2. CASE Unauthorised
  <2>1. attempt = "first" /\ attempt' = "unauthorised"
    BY <1>2 DEF Unauthorised, AttemptInv
  <2> QED BY <1>2, <2>1 DEF Unauthorised, AttemptInv, FailsOnlyWhenRefused
<1>3. CASE Renew
  BY <1>3 DEF Renew, AttemptInv, FailsOnlyWhenRefused
<1>4. CASE Refused
  BY <1>4 DEF Refused, AttemptInv, FailsOnlyWhenRefused
<1>5. CASE FetchCollection \/ ItemsDone
  <2>1. pc' = Following[pc] /\ pc \in DOMAIN Following
    BY <1>5, Order DEF FetchCollection, ItemsDone, GoOn, Whole
  <2>2. pc' # "failed"
    BY <2>1, Order
  <2> QED BY <1>5, <2>2 DEF FetchCollection, ItemsDone, Answered, AttemptInv, FailsOnlyWhenRefused
<1>6. CASE FetchPrivileges \/ FetchMembers \/ FetchProfile
  BY <1>6 DEF FetchPrivileges, FetchMembers, FetchProfile, Answered, AttemptInv, FailsOnlyWhenRefused
<1>7. CASE CollectionFails \/ ItemFails
  BY <1>7 DEF CollectionFails, ItemFails, Raised, AttemptInv, FailsOnlyWhenRefused
<1>8. CASE Export
  BY <1>8 DEF Export, AttemptInv, FailsOnlyWhenRefused
<1>9. CASE TokenExpires \/ SourceChanges \/ UNCHANGED vars
  BY <1>9 DEF TokenExpires, SourceChanges, vars, AttemptInv, FailsOnlyWhenRefused
<1> QED BY <1>1, <1>2, <1>3, <1>4, <1>5, <1>6, <1>7, <1>8, <1>9 DEF Next, Progress

(* A run that has failed met an error a new token does not help against:   *)
(* one that has expired is renewed, and is good for the GET it was renewed *)
(* for (api.py:77-97).                                                     *)
THEOREM FailureExplained == Spec => []FailsOnlyWhenRefused
<1>1. AttemptInv => FailsOnlyWhenRefused
  BY DEF AttemptInv
<1> QED BY <1>1, AttemptInit, AttemptNext, PTL DEF Spec

-------------------------------------------------------------------------------
(* What a run has fetched *)

LEMMA NotAPart == \A k \in 1 .. 3 : Part[k] # "privileges" /\ Part[k] # "members"
BY DEF Part

(* Roles and depths are those of one moment, everything else was there at  *)
(* some moment of the run.                                                 *)
CameFrom(s, envs) ==
    /\ s.roles = {} \/ \E e \in envs : s.roles = e.roles
    /\ s.depths = {} \/ \E e \in envs : s.depths = e.depths
    /\ \A x \in s.units : \E e \in envs : x \in e.units
    /\ \A p \in s.privileges : \E e \in envs : p \in e.privileges
    /\ \A a \in s.userRoles : \E e \in envs : a \in e.userRoles
    /\ \A a \in s.teamRoles : \E e \in envs : a \in e.teamRoles
    /\ \A t \in Team : \A u \in s.members[t] : \E e \in envs : u \in e.members[t]

FetchedInv ==
    /\ pc \notin Resting => dv \in seen
    /\ CameFrom(snap, seen)
    /\ Settled => export = BuildRoleBasedExport(snap)

LEMMA NothingCameFromAnywhere == \A envs : CameFrom(NothingFetched, envs)
BY DEF CameFrom, NothingFetched

LEMMA CameFromMore ==
    ASSUME NEW s, NEW A, NEW B, A \subseteq B, CameFrom(s, A)
    PROVE  CameFrom(s, B)
BY DEF CameFrom

LEMMA FetchedInit == Init => FetchedInv
BY NothingCameFromAnywhere DEF Init, FetchedInv, Resting, Settled

LEMMA FetchedNext == TypeInv /\ FetchedInv /\ [Next]_vars => FetchedInv'
<1> SUFFICES ASSUME TypeInv, FetchedInv, [Next]_vars PROVE FetchedInv'
  OBVIOUS
<1>1. /\ pc \notin Resting => dv \in seen
      /\ CameFrom(snap, seen)
      /\ Settled => export = BuildRoleBasedExport(snap)
  BY DEF FetchedInv
<1>2. ASSUME CameFrom(snap', seen'), dv' \in seen', pc' \notin {"exported", "empty"}
      PROVE  FetchedInv'
  BY <1>2 DEF FetchedInv, Settled
<1>3. /\ Whole \cap Resting = {} /\ "export" \notin Resting
      /\ DOMAIN Following \cap Resting = {} /\ Whole \subseteq DOMAIN Following
      /\ {"privileges", "members", "profile"} \subseteq DOMAIN Following
  BY Order DEF Whole, Resting
<1>4. ASSUME NEW s, GoOn(s), pc \in DOMAIN Following
      PROVE  pc' \in DOMAIN Following \cup {"export"}
  BY <1>4, Order DEF GoOn
<1>5. DOMAIN NothingFetched = {"units", "users", "teams", "roles", "depths", "privileges", "userRoles",
                               "teamRoles", "members", "profiles", "readable", "profileUsers",
                               "profileTeams"}
  BY DEF NothingFetched
<1>6. CASE MapPolicy
  BY <1>6, NothingCameFromAnywhere DEF MapPolicy, FetchedInv, Settled
<1>7. CASE FetchCollection
  <2>1. /\ snap'[pc] = Served(pc) /\ pc \in Whole
        /\ \A f \in DOMAIN NothingFetched \ {pc} : snap'[f] = snap[f]
    BY <1>7, CollectionFetched DEF FetchCollection
  <2>2. dv \in seen /\ seen' = seen /\ dv' = dv
    BY <1>1, <1>3, <1>7 DEF FetchCollection
  <2>3. \A f \in Whole : snap'[f] = snap[f] \/ (f = pc /\ snap'[f] \subseteq dv[f])
    <3>1. Served(pc) \subseteq dv[pc]
      BY DEF Served
    <3>2. Whole \subseteq DOMAIN NothingFetched
      BY <1>5 DEF Whole
    <3>3. snap'[pc] \subseteq dv[pc]
      BY <2>1, <3>1, Zenon
    <3> QED BY <2>1, <3>2, <3>3
  <2>4. \A f \in Whole \ {"userRoles"} : snap'[f] = snap[f] \/ snap'[f] = dv[f]
    BY <1>5, <2>1 DEF Served, Whole
  <2>5. snap'.members = snap.members /\ snap'.privileges = snap.privileges
    BY <1>5, <2>1 DEF Whole
  <2>6. /\ snap'.roles = {} \/ \E e \in seen : snap'.roles = e.roles
        /\ snap'.depths = {} \/ \E e \in seen : snap'.depths = e.depths
    BY <1>1, <2>2, <2>4 DEF CameFrom, Whole
  <2>7. /\ \A x \in snap'.units : \E e \in seen : x \in e.units
        /\ \A a \in snap'.userRoles : \E e \in seen : a \in e.userRoles
        /\ \A a \in snap'.teamRoles : \E e \in seen : a \in e.teamRoles
    BY <1>1, <2>2, <2>3 DEF CameFrom, Whole
  <2>8. CameFrom(snap', seen')
    BY <1>1, <2>2, <2>5, <2>6, <2>7 DEF CameFrom
  <2>9. pc' \notin {"exported", "empty"}
    BY <1>3, <1>4, <1>7, Order DEF FetchCollection
  <2> QED BY <1>2, <2>2, <2>8, <2>9
<1>8. CASE FetchPrivileges \/ FetchMembers \/ FetchProfile
  <2>1. dv \in seen /\ seen' = seen /\ dv' = dv /\ pc' = pc /\ pc \notin Resting
    BY <1>1, <1>3, <1>8 DEF FetchPrivileges, FetchMembers, FetchProfile
  <2>2. /\ snap'.units = snap.units /\ snap'.roles = snap.roles /\ snap'.depths = snap.depths
        /\ snap'.userRoles = snap.userRoles /\ snap'.teamRoles = snap.teamRoles
    BY <1>5, <1>8, ItemFetched
  <2>3. /\ "privileges" \in DOMAIN NothingFetched /\ "members" \in DOMAIN NothingFetched
        /\ snap.members \in [Team -> SUBSET User]
    BY <1>5, EnvironmentFields DEF TypeInv, TypeOK
  <2>4. snap'.privileges \subseteq snap.privileges \cup dv.privileges
    BY <1>8, <2>3, PrivilegesFetched, MembersFetched, ProfileFetched, NotAPart
  <2>5. \A t \in Team : snap'.members[t] = snap.members[t] \/ snap'.members[t] = dv.members[t]
    BY <1>8, <2>3, MembersFetched, PrivilegesFetched, ProfileFetched, NotAPart
  <2>6. CameFrom(snap', seen')
    <3>1. \A p \in snap'.privileges : \E e \in seen : p \in e.privileges
      BY <1>1, <2>1, <2>4 DEF CameFrom
    <3>2. \A t \in Team : \A u \in snap'.members[t] : \E e \in seen : u \in e.members[t]
      BY <1>1, <2>1, <2>5 DEF CameFrom
    <3> QED BY <1>1, <2>1, <2>2, <3>1, <3>2 DEF CameFrom
  <2> QED BY <1>2, <2>1, <2>6 DEF Resting
<1>9. CASE CollectionFails \/ ItemFails
  <2>1. snap' = snap /\ seen' = seen /\ dv' = dv /\ dv \in seen /\ pc' \notin {"exported", "empty"}
    BY <1>1, <1>3, <1>9, Order DEF CollectionFails, ItemFails, Resting
  <2> QED BY <1>1, <1>2, <2>1
<1>10. CASE ItemsDone
  <2>1. snap' = snap /\ seen' = seen /\ dv' = dv /\ dv \in seen /\ pc' \notin {"exported", "empty"}
    BY <1>1, <1>3, <1>4, <1>10, Order DEF ItemsDone
  <2> QED BY <1>1, <1>2, <2>1
<1>11. CASE Export
  BY <1>1, <1>11 DEF Export, FetchedInv, Settled, Resting
<1>12. CASE TokenExpires \/ Unauthorised \/ Renew \/ Refused \/ UNCHANGED vars
  BY <1>1, <1>12 DEF TokenExpires, Unauthorised, Renew, Refused, vars, FetchedInv, Settled
<1>13. CASE SourceChanges
  <2>1. seen \subseteq seen' /\ UNCHANGED <<pc, snap, export>> /\ (pc \notin Resting => dv' \in seen')
    BY <1>13 DEF SourceChanges
  <2>2. CameFrom(snap, seen')
    BY <1>1, <2>1, CameFromMore
  <2> QED BY <1>1, <2>1, <2>2 DEF FetchedInv, Settled
<1> QED BY <1>6, <1>7, <1>8, <1>9, <1>10, <1>11, <1>12, <1>13 DEF Next, Progress

-------------------------------------------------------------------------------
(* Rows *)

DepthsServed(s, role, id) == {d.depth : d \in {d \in s.depths : d.role = role /\ d.privilege = id}}

(* A depth of a table is that of a privilege on it. *)
LEMMA DepthOfSome ==
    ASSUME NEW s, NEW role, NEW table, NEW d
    PROVE  d \in DepthsOf(s, role, table) <=>
               \E p \in s.privileges :
                   /\ p.role = role /\ p.table = table
                   /\ d \in IF DepthsServed(s, role, p.privilege) = {} THEN {"Unknown"}
                            ELSE DepthsServed(s, role, p.privilege)
<1> DEFINE depths(id) == IF DepthsServed(s, role, id) = {} THEN {"Unknown"} ELSE DepthsServed(s, role, id)
           own == {p \in s.privileges : p.role = role /\ p.table = table}
<1>1. DepthsOf(s, role, table) = UNION {depths(id) : id \in {p.privilege : p \in own}}
  BY DEF DepthsOf, DepthsServed
<1> HIDE DEF depths
<1>2. d \in DepthsOf(s, role, table) <=> \E p \in own : d \in depths(p.privilege)
  BY <1>1
<1> QED BY <1>2 DEF depths

LEMMA DepthsType ==
    ASSUME NEW s \in Environment, NEW role, NEW table
    PROVE  DepthsOf(s, role, table) \subseteq Depth
<1>1. \A id : DepthsServed(s, role, id) \subseteq Depth
  BY EnvironmentFields DEF DepthsServed
<1> QED BY <1>1, DepthOfSome DEF Depth

LEMMA StrongestIs ==
    ASSUME NEW depths \in SUBSET Depth, depths # {}
    PROVE  /\ StrongestDepth(depths) \in depths
           /\ \A d \in depths : Rank(StrongestDepth(depths)) >= Rank(d)
<1>1. \E d \in depths : \A e \in depths : Rank(d) >= Rank(e)
  <2>1. /\ Rank("Unknown") = 0 /\ Rank("Basic") = 1 /\ Rank("Local") = 2
        /\ Rank("Deep") = 3 /\ Rank("Global") = 4
    BY DEF Rank
  <2>2. \A d \in depths : d \in {"Unknown", "Basic", "Local", "Deep", "Global"}
    BY DEF Depth
  <2>3. CASE "Global" \in depths
    BY <2>1, <2>2, <2>3
  <2>4. CASE "Global" \notin depths /\ "Deep" \in depths
    BY <2>1, <2>2, <2>4
  <2>5. CASE depths \cap {"Global", "Deep"} = {} /\ "Local" \in depths
    BY <2>1, <2>2, <2>5
  <2>6. CASE depths \cap {"Global", "Deep", "Local"} = {} /\ "Basic" \in depths
    BY <2>1, <2>2, <2>6
  <2>7. CASE depths \cap {"Global", "Deep", "Local", "Basic"} = {}
    BY <2>1, <2>2, <2>7
  <2> QED BY <2>3, <2>4, <2>5, <2>6, <2>7
<1> QED BY <1>1 DEF StrongestDepth

(* A depth of a table comes from one moment, at which the role had it. *)
LEMMA DepthHadSomeMoment ==
    ASSUME NEW s \in Environment, NEW envs \in SUBSET Possible, CameFrom(s, envs),
           NEW role, NEW table \in Tables(s, role), DepthOf(s, role, table) # "Unknown"
    PROVE  DepthOf(s, role, table) \in DepthsIn(role, table, envs)
<1> DEFINE d == DepthOf(s, role, table)
<1>1. d \in DepthsOf(s, role, table)
  BY DepthsType, StrongestIs DEF DepthOf, Tables
<1>2. PICK p \in s.privileges :
               p.role = role /\ p.table = table /\ d \in DepthsServed(s, role, p.privilege)
  BY <1>1, DepthOfSome
<1>3. PICK e \in envs : s.depths = e.depths
  BY <1>2 DEF CameFrom, DepthsServed
<1>4. d \in DepthsServed(e, role, p.privilege)
  BY <1>2, <1>3 DEF DepthsServed
<1>5. PICK q \in e.privileges : q.role = role /\ q.privilege = p.privilege
  <2>1. PICK x \in e.depths : x.role = role /\ x.privilege = p.privilege
    BY <1>4 DEF DepthsServed
  <2> QED BY <2>1, ServedAssumption
<1>6. q.table = table
  <2>1. PICK f \in envs : p \in f.privileges
    BY DEF CameFrom
  <2> QED BY <1>2, <1>5, <2>1, ServedAssumption
<1> HIDE DEF d
<1>7. d \in DepthsOf(e, role, table)
  BY <1>4, <1>5, <1>6, DepthOfSome
<1> QED BY <1>7 DEF d, DepthsIn

LEMMA UnitHadSomeMoment ==
    ASSUME NEW s, NEW envs, CameFrom(s, envs), NEW role, UnitOf(s, role) # None
    PROVE  \E e \in envs : UnitOf(e, role) = UnitOf(s, role)
<1>1. s.roles # {}
  BY DEF UnitOf
<1>2. PICK e \in envs : s.roles = e.roles
  BY <1>1 DEF CameFrom
<1> QED BY <1>2 DEF UnitOf

LEMMA DescendantsAreBelow ==
    ASSUME NEW s, NEW envs, CameFrom(s, envs), NEW role
    PROVE  Descendants(s, UnitOf(s, role)) \subseteq UnitsBelow(role, envs)
<1> SUFFICES ASSUME NEW b \in Descendants(s, UnitOf(s, role)) PROVE b \in UnitsBelow(role, envs)
  OBVIOUS
<1>1. UnitOf(s, role) # None
  BY DEF Descendants
<1>2. PICK e \in envs : UnitOf(e, role) = UnitOf(s, role)
  BY <1>1, UnitHadSomeMoment
<1> DEFINE edges == UNION {f.units : f \in envs}
<1>3. s.units \subseteq edges
  BY DEF CameFrom
<1>4. ASSUME NEW S \in SUBSET Unit, UnitOf(s, role) \in S, \A x \in edges : x.parent \in S => x.id \in S
      PROVE  b \in S
  BY <1>1, <1>3, <1>4 DEF Descendants
<1>5. b \in Unit
  BY <1>1 DEF Descendants
<1> QED BY <1>1, <1>2, <1>4, <1>5 DEF UnitsBelow

(* Whoever has a role by what was fetched had it, himself or through a     *)
(* team he was in.                                                         *)
LEMMA PrincipalsHeld ==
    ASSUME NEW s, NEW envs, CameFrom(s, envs), NEW role \in SecurityRole,
           NEW p \in Principals(s, role)
    PROVE  role \in HeldBy({p}, envs)
<1>1. <<p, role>> \in s.userRoles \/ <<p, role>> \in s.teamRoles
  BY DEF Principals
<1> QED BY <1>1 DEF CameFrom, HeldBy

LEMMA HeldByMore ==
    ASSUME NEW A, NEW B, A \subseteq B, NEW envs
    PROVE  HeldBy(A, envs) \subseteq HeldBy(B, envs)
BY DEF HeldBy

LEMMA MembersWereIn ==
    ASSUME NEW s, NEW envs \in SUBSET Possible, CameFrom(s, envs), NEW t \in Team, NEW u \in s.members[t]
    PROVE  t \in TeamsOf(u, envs)
<1>1. PICK e \in envs : u \in e.members[t]
  BY DEF CameFrom
<1>2. t \in e.teams
  BY <1>1, ServedAssumption
<1> QED BY <1>1, <1>2 DEF TeamsOf

LEMMA UsersHeld ==
    ASSUME NEW s, NEW envs \in SUBSET Possible, CameFrom(s, envs), NEW role \in SecurityRole,
           NEW principals \in SUBSET Principals(s, role), NEW u \in Expanded(s, principals)
    PROVE  role \in HeldBy({u} \cup TeamsOf(u, envs), envs)
<1>1. CASE u \in principals
  <2>1. role \in HeldBy({u}, envs)
    BY <1>1, PrincipalsHeld
  <2> QED BY <2>1, HeldByMore
<1>2. CASE u \notin principals
  <2>1. PICK t \in principals \cap Team : u \in s.members[t]
    BY <1>2 DEF Expanded
  <2>2. role \in HeldBy({t}, envs) /\ {t} \subseteq TeamsOf(u, envs)
    BY <2>1, PrincipalsHeld, MembersWereIn
  <2> QED BY <2>2, HeldByMore
<1> QED BY <1>1, <1>2

Owners(user, role, envs) == {user} \cup {t \in TeamsOf(user, envs) : role \in HeldBy({t}, envs)}

LEMMA FilterGivesNoMore ==
    ASSUME NEW s \in Environment, NEW envs \in SUBSET Possible, CameFrom(s, envs), NEW user, NEW role,
           NEW table \in Tables(s, role), NEW owners, owners \subseteq Owners(user, role, envs)
    PROVE  RowConstraints(s, role, owners)[table] \subseteq RowsByRole(user, role, table, envs)
<1> DEFINE depth  == DepthOf(s, role, table)
           depths == DepthsIn(role, table, envs)
<1>1. RowConstraints(s, role, owners)[table] = RowFilter(s, depth, UnitOf(s, role), owners)
  BY DEF RowConstraints
<1>2. SUFFICES ASSUME NEW r \in RowFilter(s, depth, UnitOf(s, role), owners)
               PROVE  r \in RowsByRole(user, role, table, envs)
  BY <1>1
<1>3. depth # "Unknown"
  BY <1>2 DEF RowFilter
<1>4. depth \in depths
  BY <1>3, DepthHadSomeMoment
<1>5. r \in Row /\ r[2] \in Unit
  BY DEF RowFilter, Row
<1> HIDE DEF depth
<1>6. \/ depth = "Global"
      \/ depth = "Deep"  /\ r[2] \in Descendants(s, UnitOf(s, role))
      \/ depth = "Local" /\ r[2] = UnitOf(s, role)
      \/ depth = "Basic" /\ r[1] \in owners
  BY <1>2 DEF RowFilter
<1>7. \/ "Global" \in depths
      \/ "Deep" \in depths /\ r[2] \in UnitsBelow(role, envs)
      \/ "Local" \in depths /\ \E e \in envs : r[2] = UnitOf(e, role)
      \/ "Basic" \in depths /\ r[1] \in Owners(user, role, envs)
  <2>1. CASE depth = "Deep"
    BY <1>4, <1>6, <2>1, DescendantsAreBelow
  <2>2. CASE depth = "Local"
    <3>1. UnitOf(s, role) # None
      BY <1>5, <1>6, <2>2, DataverseAssumption
    <3> QED BY <1>4, <1>6, <2>2, <3>1, UnitHadSomeMoment
  <2>3. CASE depth = "Global" \/ depth = "Basic"
    BY <1>4, <1>6, <2>3
  <2> QED BY <1>6, <2>1, <2>2, <2>3
<1> HIDE DEF depths
<1> QED BY <1>5, <1>7 DEF RowsByRole, Owners, depths

(* Nobody gets a policy of a role he does not have, and none gives him     *)
(* more rows than the role.                                                *)
LEMMA PolicyGivesNoMore ==
    ASSUME NEW s \in Environment, NEW envs \in SUBSET Possible, CameFrom(s, envs), NEW role \in SecurityRole,
           NEW p \in PoliciesOf(s, role), NEW u \in EffectiveUsers(p, envs), NEW table \in DOMAIN p.rows
    PROVE  /\ role \in HeldBy({u} \cup TeamsOf(u, envs), envs)
           /\ p.rows[table] \subseteq RowsByRole(u, role, table, envs)
<1>1. \A owners : DOMAIN RowConstraints(s, role, owners) = Tables(s, role)
  BY DEF RowConstraints
<1>2. ASSUME NEW v \in UsersOf(s, role), NEW owners, p = OwnPolicy(s, role, v, owners),
             owners \subseteq Owners(v, role, envs)
      PROVE  /\ role \in HeldBy({u} \cup TeamsOf(u, envs), envs)
             /\ p.rows[table] \subseteq RowsByRole(u, role, table, envs)
  <2>1. u = v /\ p.rows = RowConstraints(s, role, owners)
    BY <1>2 DEF OwnPolicy, EffectiveUsers
  <2>2. u \in Expanded(s, Principals(s, role))
    BY <1>2, <2>1 DEF UsersOf
  <2> QED BY <1>1, <1>2, <2>1, <2>2, UsersHeld, FilterGivesNoMore
<1>3. CASE p \in PerPrincipalRoles(s, role)
  <2>1. PICK v \in UsersOf(s, role) : p = OwnPolicy(s, role, v, OwnershipScope(s, Principals(s, role), v))
    BY <1>3 DEF PerPrincipalRoles
  <2>2. OwnershipScope(s, Principals(s, role), v) \subseteq Owners(v, role, envs)
    <3> SUFFICES ASSUME NEW t \in Principals(s, role) \cap s.teams, v \in s.members[t]
                 PROVE  t \in Owners(v, role, envs)
      BY DEF OwnershipScope, Owners
    <3>1. t \in Team
      BY EnvironmentFields
    <3> QED BY <3>1, PrincipalsHeld, MembersWereIn DEF Owners
  <2> QED BY <1>2, <2>1, <2>2
<1>4. CASE p \in PerPrincipalClsRoles(s, role)
  BY <1>2, <1>4 DEF PerPrincipalClsRoles
<1>5. CASE p \in SharedRole(s, role)
  <2> DEFINE groups == Principals(s, role) \cap Team \cap EntraId
             users  == Expanded(s, Principals(s, role) \ groups) \cap Resolvable(s)
  <2>1. p.users = users /\ p.groups = groups /\ p.rows = RowConstraints(s, role, {})
    BY <1>5 DEF SharedRole
  <2>2. p.rows[table] \subseteq RowsByRole(u, role, table, envs)
    BY <1>1, <2>1, FilterGivesNoMore
  <2>3. CASE u \in users
    BY <2>2, <2>3, UsersHeld
  <2>4. CASE u \notin users
    <3>1. PICK t \in groups : t \in TeamsOf(u, envs)
      BY <2>1, <2>4 DEF EffectiveUsers
    <3>2. role \in HeldBy({t}, envs) /\ {t} \subseteq TeamsOf(u, envs)
      BY <3>1, PrincipalsHeld
    <3> QED BY <2>2, <3>2, HeldByMore
  <2> QED BY <2>3, <2>4
<1> QED BY <1>3, <1>4, <1>5 DEF PoliciesOf

LEMMA ExportGivesNoMore == TypeInv /\ FetchedInv => NoRowsGained
<1> SUFFICES ASSUME TypeInv, FetchedInv, Settled, NEW u \in Known(seen), NEW t \in Table,
                    NEW p \in export, u \in EffectiveUsers(p, seen), t \in DOMAIN p.rows,
                    NEW r \in p.rows[t]
             PROVE  r \in RowsInDataverse(u, t, seen)
  BY DEF NoRowsGained, RowsExported
<1>1. snap \in Environment /\ seen \in SUBSET Possible /\ CameFrom(snap, seen)
  BY DEF TypeInv, TypeOK, FetchedInv
<1>2. PICK role \in SecurityRole : p \in PoliciesOf(snap, role)
  BY DEF FetchedInv, BuildRoleBasedExport
<1>3. role \in HeldBy({u} \cup TeamsOf(u, seen), seen) /\ r \in RowsByRole(u, role, t, seen)
  BY <1>1, <1>2, PolicyGivesNoMore
<1>4. ~(\A e \in seen : u \notin e.users)
  BY DEF Known
<1> QED BY <1>3, <1>4 DEF RowsInDataverse

(* NoRowsGained, whatever fails and however the environment changes while  *)
(* it is fetched: nobody reads a row under the export which no combination *)
(* of what was there let him read.                                         *)
THEOREM RowsNeverGained == Spec => []NoRowsGained
<1>1. TypeInv /\ FetchedInv /\ [Next]_vars => TypeInv' /\ FetchedInv'
  BY TypeNext, FetchedNext
<1>2. Init => TypeInv /\ FetchedInv
  BY TypeInit, FetchedInit
<1> QED BY <1>1, <1>2, ExportGivesNoMore, PTL DEF Spec

-------------------------------------------------------------------------------
(* A run that nothing disturbs *)

Place ==
    [units |-> 1, users |-> 2, teams |-> 3, roles |-> 4, depths |-> 5, privileges |-> 6,
     userRoles |-> 7, teamRoles |-> 8, members |-> 9, profiles |-> 10, profile |-> 11,
     export |-> 12, exported |-> 13, empty |-> 13]

ServedBy(e, collection) ==
    IF collection = "userRoles" THEN {a \in e.userRoles : a[1] \in e.users} ELSE e[collection]

(* What comes before the present request, or after it in the list of       *)
(* items, is as the environment e has it.                                  *)
CollectionsServed(e) == \A c \in Whole : Place[pc] > Place[c] => snap[c] = ServedBy(e, c)
PrivilegesServed(e) ==
    Place[pc] >= Place["privileges"] =>
        \A p \in e.privileges : p \in snap.privileges \/ (pc = "privileges" /\ p.role \in ToSet(todo))
MembersServed(e) ==
    Place[pc] >= Place["members"] =>
        \A t \in e.teams : snap.members[t] = e.members[t] \/ (pc = "members" /\ t \in ToSet(todo))
ProfilesServed(e) ==
    Place[pc] >= Place["profile"] =>
        \A p \in e.profiles, k \in 1 .. 3 :
            snap[Part[k]][p] = e[Part[k]][p] \/ (pc = "profile" /\ <<p, k>> \in ToSet(todo))

StillInv ==
    ~refused =>
        \A e \in seen : seen = {e} =>
            /\ pc \notin {"ready", "failed"}
            /\ CollectionsServed(e) /\ PrivilegesServed(e) /\ MembersServed(e) /\ ProfilesServed(e)

LEMMA Places ==
    /\ \A c \in DOMAIN Following : Place[c] \in Int /\ Place[Following[c]] = Place[c] + 1
    /\ \A c, d \in DOMAIN Following : Place[c] = Place[d] => c = d
    /\ Place["units"] = 1 /\ Place["depths"] = 5 /\ Place["privileges"] = 6
    /\ Place["teamRoles"] = 8 /\ Place["members"] = 9 /\ Place["profiles"] = 10
    /\ Place["profile"] = 11 /\ Place["export"] = 12 /\ Place["exported"] = 13 /\ Place["empty"] = 13
    /\ \A c \in Whole : Place[c] >= 1 /\ Place[c] =< 10 /\ c \in DOMAIN Following
BY DEF Following, Place, Whole

LEMMA StillInit == Init => StillInv
BY DEF Init, StillInv

(* After a collection is done, what was served of the ones before stays.   *)
LEMMA StillGoingOn ==
    ASSUME TypeInv, NEW e \in Possible, pc \in DOMAIN Following, GoOn(snap'), snap' \in Environment,
           IsFiniteSet(snap'.roles), IsFiniteSet(snap'.teams), IsFiniteSet(snap'.profiles),
           CollectionsServed(e), PrivilegesServed(e), MembersServed(e), ProfilesServed(e),
           \A f \in DOMAIN NothingFetched \ {pc} : snap'[f] = snap[f],
           pc \in Whole => snap'[pc] = ServedBy(e, pc),
           pc \notin Whole => snap' = snap /\ todo = <<>>
    PROVE  /\ pc' \notin {"ready", "failed"}
           /\ CollectionsServed(e)' /\ PrivilegesServed(e)' /\ MembersServed(e)' /\ ProfilesServed(e)'
<1>1. pc' = Following[pc] /\ Place[pc'] = Place[pc] + 1 /\ Place[pc] \in Int
  BY Places DEF GoOn
<1>2. pc' \notin {"ready", "failed"}
  BY <1>1, Order
<1>3. pc \notin Whole => ToSet(todo) = {}
  BY EmptyServes
<1>4. DOMAIN NothingFetched = {"units", "users", "teams", "roles", "depths", "privileges", "userRoles",
                               "teamRoles", "members", "profiles", "readable", "profileUsers",
                               "profileTeams"}
  BY DEF NothingFetched
<1>5. CollectionsServed(e)'
  <2> SUFFICES ASSUME NEW c \in Whole, Place[pc'] > Place[c] PROVE snap'[c] = ServedBy(e, c)
    BY DEF CollectionsServed
  <2>1. CASE c = pc
    BY <2>1
  <2>2. CASE c # pc
    <3>1. c \in DOMAIN Following /\ Place[c] # Place[pc] /\ Place[c] \in Int
      BY <2>2, Places
    <3>2. snap[c] = ServedBy(e, c)
      BY <1>1, <3>1 DEF CollectionsServed
    <3>3. c \in DOMAIN NothingFetched
      BY <1>4 DEF Whole
    <3> QED BY <2>2, <3>2, <3>3
  <2> QED BY <2>1, <2>2
<1>6. PrivilegesServed(e)'
  <2> SUFFICES ASSUME Place[pc'] >= Place["privileges"], NEW p \in e.privileges
               PROVE  p \in snap'.privileges \/ (pc' = "privileges" /\ p.role \in ToSet(todo'))
    BY DEF PrivilegesServed
  <2>1. CASE pc' = "privileges"
    <3>1. pc = "depths"
      BY <1>1, <2>1, Places, Order
    <3>2. snap'.roles = e.roles
      <4>1. Place["roles"] < Place[pc] /\ "roles" \in Whole
        BY <3>1 DEF Place, Whole
      <4>2. snap.roles = e.roles
        BY <4>1 DEF CollectionsServed, ServedBy
      <4> QED BY <1>4, <3>1, <4>2
    <3>3. ToSet(todo') = {r.id : r \in e.roles}
      BY <2>1, <3>2, GoOnType
    <3> QED BY <2>1, <3>3, ServedAssumption
  <2>2. CASE pc' # "privileges"
    <3>1. Place[pc] >= Place["privileges"]
      <4>1. pc # "depths" /\ "depths" \in DOMAIN Following
        BY <1>1, <2>2, Order
      <4>2. Place[pc] # Place["depths"]
        BY <4>1, Places
      <4> QED BY <1>1, <4>2, Places
    <3>2. p \in snap.privileges
      <4>1. pc = "privileges" => pc \notin Whole
        BY DEF Whole
      <4> QED BY <1>3, <3>1, <4>1 DEF PrivilegesServed
    <3> QED BY <1>4, <3>2 DEF Whole
  <2> QED BY <2>1, <2>2
<1>7. MembersServed(e)'
  <2> SUFFICES ASSUME Place[pc'] >= Place["members"], NEW t \in e.teams
               PROVE  snap'.members[t] = e.members[t] \/ (pc' = "members" /\ t \in ToSet(todo'))
    BY DEF MembersServed
  <2>1. CASE pc' = "members"
    <3>1. pc = "teamRoles"
      BY <1>1, <2>1, Places, Order
    <3>2. snap'.teams = e.teams
      <4>1. Place["teams"] < Place[pc] /\ "teams" \in Whole
        BY <3>1 DEF Place, Whole
      <4>2. snap.teams = e.teams
        BY <4>1 DEF CollectionsServed, ServedBy
      <4> QED BY <1>4, <3>1, <4>2
    <3> QED BY <2>1, <3>2, GoOnType
  <2>2. CASE pc' # "members"
    <3>1. Place[pc] >= Place["members"]
      <4>1. pc # "teamRoles" /\ "teamRoles" \in DOMAIN Following
        BY <1>1, <2>2, Order
      <4>2. Place[pc] # Place["teamRoles"]
        BY <4>1, Places
      <4> QED BY <1>1, <4>2, Places
    <3>2. snap.members[t] = e.members[t]
      <4>1. pc = "members" => pc \notin Whole
        BY DEF Whole
      <4> QED BY <1>3, <3>1, <4>1 DEF MembersServed
    <3> QED BY <1>4, <3>2 DEF Whole
  <2> QED BY <2>1, <2>2
<1>8. ProfilesServed(e)'
  <2> SUFFICES ASSUME Place[pc'] >= Place["profile"], NEW p \in e.profiles, NEW k \in 1 .. 3
               PROVE  snap'[Part[k]][p] = e[Part[k]][p] \/ (pc' = "profile" /\ <<p, k>> \in ToSet(todo'))
    BY DEF ProfilesServed
  <2>1. CASE pc' = "profile"
    <3>1. pc = "profiles"
      BY <1>1, <2>1, Places, Order
    <3>2. snap'.profiles = e.profiles
      BY <3>1 DEF Whole, ServedBy
    <3> QED BY <2>1, <3>2, GoOnType
  <2>2. CASE pc' # "profile"
    <3>1. Place[pc] >= Place["profile"]
      <4>1. pc # "profiles" /\ "profiles" \in DOMAIN Following
        BY <1>1, <2>2, Order
      <4>2. Place[pc] # Place["profiles"]
        BY <4>1, Places
      <4> QED BY <1>1, <4>2, Places
    <3>2. pc \notin Whole
      BY <3>1, Places
    <3>3. snap[Part[k]][p] = e[Part[k]][p]
      BY <1>3, <3>1, <3>2 DEF ProfilesServed
    <3> QED BY <3>2, <3>3
  <2> QED BY <2>1, <2>2
<1> QED BY <1>2, <1>5, <1>6, <1>7, <1>8

LEMMA StillItems ==
    ASSUME TypeInv, NEW e \in seen, pc \in {"privileges", "members", "profile"}, todo # <<>>, dv = e,
           FetchPrivileges \/ FetchMembers \/ FetchProfile,
           CollectionsServed(e), PrivilegesServed(e), MembersServed(e), ProfilesServed(e)
    PROVE  CollectionsServed(e)' /\ PrivilegesServed(e)' /\ MembersServed(e)' /\ ProfilesServed(e)'
<1>1. /\ snap \in Environment /\ e \in Environment /\ pc' = pc /\ todo' = Tail(todo)
      /\ ToSet(todo) \subseteq {Head(todo)} \cup ToSet(todo')
  BY HeadOrTail DEF TypeInv, TypeOK, FetchPrivileges, FetchMembers, FetchProfile
<1>2. /\ Whole \subseteq DOMAIN NothingFetched \
             {"privileges", "members", "readable", "profileUsers", "profileTeams"}
      /\ \A k \in 1 .. 3 : Part[k] \in DOMAIN NothingFetched \ {"privileges", "members"}
      /\ "privileges" \in DOMAIN NothingFetched /\ "members" \in DOMAIN NothingFetched
  BY DEF Whole, NothingFetched, Part
<1>3. CollectionsServed(e)'
  BY <1>1, <1>2, ItemFetched DEF CollectionsServed
<1>4. CASE FetchPrivileges
  <2>1. pc = "privileges" /\ \A f \in DOMAIN NothingFetched \ {"privileges"} : snap'[f] = snap[f]
    BY <1>4, PrivilegesFetched DEF FetchPrivileges
  <2>2. PrivilegesServed(e)'
    <3> SUFFICES ASSUME NEW p \in e.privileges
                 PROVE  p \in snap'.privileges \/ p.role \in ToSet(todo')
      BY <1>1, <2>1 DEF PrivilegesServed
    <3>1. snap'.privileges = snap.privileges \cup {q \in e.privileges : q.role = Head(todo)}
      BY <1>4, PrivilegesFetched
    <3>2. p \in snap.privileges \/ p.role \in ToSet(todo)
      BY <2>1, Places DEF PrivilegesServed
    <3> QED BY <1>1, <3>1, <3>2
  <2>3. MembersServed(e)' /\ ProfilesServed(e)'
    BY <1>1, <2>1, Places DEF MembersServed, ProfilesServed
  <2> QED BY <1>3, <2>2, <2>3
<1>5. CASE FetchMembers
  <2>1. /\ pc = "members" /\ \A f \in DOMAIN NothingFetched \ {"members"} : snap'[f] = snap[f]
        /\ snap'.members = [snap.members EXCEPT ![Head(todo)] = e.members[Head(todo)]]
    BY <1>5, MembersFetched DEF FetchMembers
  <2>2. PrivilegesServed(e)'
    BY <1>1, <1>2, <2>1 DEF PrivilegesServed
  <2>3. MembersServed(e)'
    <3> SUFFICES ASSUME NEW t \in e.teams PROVE snap'.members[t] = e.members[t] \/ t \in ToSet(todo')
      BY <1>1, <2>1 DEF MembersServed
    <3>1. t \in Team /\ snap.members \in [Team -> SUBSET User]
      BY <1>1, EnvironmentFields
    <3>2. snap.members[t] = e.members[t] \/ t \in ToSet(todo)
      BY <2>1, Places DEF MembersServed
    <3> QED BY <1>1, <2>1, <3>1, <3>2
  <2>4. ProfilesServed(e)'
    BY <1>1, <2>1, Places DEF ProfilesServed
  <2> QED BY <1>3, <2>2, <2>3, <2>4
<1>6. CASE FetchProfile
  <2>1. PICK q \in Profile, j \in 1 .. 3 :
            /\ Head(todo) = <<q, j>>
            /\ snap'[Part[j]] = [snap[Part[j]] EXCEPT ![q] = e[Part[j]][q]]
            /\ \A f \in DOMAIN NothingFetched \ {Part[j]} : snap'[f] = snap[f]
    BY <1>6, ProfileFetched
  <2>2. pc = "profile" /\ snap'.privileges = snap.privileges /\ snap'.members = snap.members
    BY <1>2, <1>6, <2>1 DEF FetchProfile
  <2>3. PrivilegesServed(e)' /\ MembersServed(e)'
    BY <1>1, <2>2 DEF PrivilegesServed, MembersServed
  <2>4. ProfilesServed(e)'
    <3> SUFFICES ASSUME NEW p \in e.profiles, NEW k \in 1 .. 3
                 PROVE  snap'[Part[k]][p] = e[Part[k]][p] \/ <<p, k>> \in ToSet(todo')
      BY <1>1, <2>2 DEF ProfilesServed
    <3>1. p \in Profile
      BY <1>1, EnvironmentFields
    <3>2. DOMAIN snap[Part[k]] = Profile
      <4>1. Part[k] \in {"readable", "profileUsers", "profileTeams"}
        BY DEF Part
      <4> QED BY <1>1, <4>1, EnvironmentFields
    <3>3. snap[Part[k]][p] = e[Part[k]][p] \/ <<p, k>> \in ToSet(todo)
      <4>1. Place[pc] >= Place["profile"]
        BY <2>2, Places
      <4> QED BY <4>1, Zenon DEF ProfilesServed
    <3>4. Part[k] = Part[j] => k = j
      <4>1. Part[1] # Part[2] /\ Part[2] # Part[3] /\ Part[1] # Part[3]
        BY DEF Part
      <4>2. \A i \in 1 .. 3 : i = 1 \/ i = 2 \/ i = 3
        OBVIOUS
      <4> QED BY <4>1, <4>2
    <3>5. CASE k = j /\ p = q
      BY <2>1, <3>1, <3>2, <3>5
    <3>6. CASE k = j /\ p # q
      BY <1>1, <2>1, <3>1, <3>2, <3>3, <3>6
    <3>7. CASE k # j
      <4>1. snap'[Part[k]] = snap[Part[k]]
        BY <1>2, <2>1, <3>4, <3>7
      <4>2. <<p, k>> # Head(todo)
        BY <2>1, <3>7
      <4> QED BY <1>1, <3>3, <4>1, <4>2
    <3> QED BY <3>5, <3>6, <3>7
  <2> QED BY <1>3, <2>3, <2>4
<1> QED BY <1>4, <1>5, <1>6

LEMMA StillNext == TypeInv /\ FetchedInv /\ AttemptInv /\ StillInv /\ [Next]_vars => StillInv'
<1> SUFFICES ASSUME TypeInv, FetchedInv, AttemptInv, StillInv, [Next]_vars, ~refused', NEW e, seen' = {e}
             PROVE  /\ pc' \notin {"ready", "failed"}
                    /\ CollectionsServed(e)' /\ PrivilegesServed(e)'
                    /\ MembersServed(e)' /\ ProfilesServed(e)'
  BY DEF StillInv
<1>1. ASSUME seen = {e}, ~refused
      PROVE  /\ pc \notin {"ready", "failed"} /\ e \in Possible /\ e \in seen
             /\ CollectionsServed(e) /\ PrivilegesServed(e) /\ MembersServed(e) /\ ProfilesServed(e)
             /\ pc \notin Resting => dv = e
  BY <1>1 DEF StillInv, TypeInv, FetchedInv
<1>2. ASSUME UNCHANGED <<pc, todo, snap>>, seen = {e}, ~refused
      PROVE  /\ pc' \notin {"ready", "failed"}
             /\ CollectionsServed(e)' /\ PrivilegesServed(e)' /\ MembersServed(e)' /\ ProfilesServed(e)'
  BY <1>1, <1>2 DEF CollectionsServed, PrivilegesServed, MembersServed, ProfilesServed
<1>3. ~Raised /\ ~Refused
  BY DEF Raised, Refused, AttemptInv
<1>4. Whole \subseteq DOMAIN Following /\ {"privileges", "members", "profile"} \subseteq DOMAIN Following
      /\ DOMAIN Following \cap Resting = {}
      /\ {"privileges", "members", "profile"} \cap Whole = {}
  BY Order DEF Whole, Resting
<1>5. CASE MapPolicy
  <2>1. pc' = "units" /\ \A c \in Whole : ~(Place["units"] > Place[c])
    BY <1>5, Places DEF MapPolicy
  <2> QED BY <2>1, Places DEF CollectionsServed, PrivilegesServed, MembersServed, ProfilesServed
<1>6. CASE FetchCollection
  <2>1. seen = {e} /\ ~refused /\ pc \in Whole /\ GoOn(snap')
    BY <1>6 DEF FetchCollection, Answered
  <2>2. dv = e
    BY <1>1, <1>4, <2>1
  <2>3. snap'[pc] = ServedBy(e, pc)
    BY <1>6, <2>2, CollectionFetched DEF Served, ServedBy
  <2> QED BY <1>1, <1>4, <1>6, <2>1, <2>3, CollectionFetched, StillGoingOn
<1>7. CASE FetchPrivileges \/ FetchMembers \/ FetchProfile
  <2>1. /\ seen = {e} /\ ~refused /\ pc \in {"privileges", "members", "profile"} /\ todo # <<>>
        /\ pc' = pc
    BY <1>7 DEF FetchPrivileges, FetchMembers, FetchProfile, Answered
  <2>2. dv = e
    BY <1>1, <1>4, <2>1
  <2> QED BY <1>1, <1>7, <2>1, <2>2, StillItems
<1>8. CASE CollectionFails \/ ItemFails
  BY <1>3, <1>8 DEF CollectionFails, ItemFails
<1>9. CASE ItemsDone
  <2>1. seen = {e} /\ ~refused /\ pc \in {"privileges", "members", "profile"} /\ GoOn(snap')
        /\ snap' = snap /\ todo = <<>>
    BY <1>9 DEF ItemsDone, GoOn, Items
  <2>2. snap' \in Environment
        /\ IsFiniteSet(snap'.roles) /\ IsFiniteSet(snap'.teams) /\ IsFiniteSet(snap'.profiles)
    BY <2>1 DEF TypeInv, TypeOK
  <2> QED BY <1>1, <1>4, <2>1, <2>2, StillGoingOn
<1>10. CASE Export
  <2>1. seen = {e} /\ ~refused /\ pc = "export" /\ pc' \in {"exported", "empty"} /\ snap' = snap
    BY <1>10 DEF Export
  <2>2. /\ CollectionsServed(e) /\ PrivilegesServed(e) /\ MembersServed(e) /\ ProfilesServed(e)
    BY <1>1, <2>1
  <2>3. CollectionsServed(e)'
    BY <2>1, <2>2, Places DEF CollectionsServed
  <2>4. PrivilegesServed(e)' /\ MembersServed(e)' /\ ProfilesServed(e)'
    BY <2>1, <2>2, Places DEF PrivilegesServed, MembersServed, ProfilesServed
  <2> QED BY <2>1, <2>3, <2>4
<1>11. CASE TokenExpires \/ Unauthorised \/ Renew \/ UNCHANGED vars
  BY <1>2, <1>11 DEF TokenExpires, Unauthorised, Renew, vars
<1>12. CASE SourceChanges
  <2>1. UNCHANGED <<pc, todo, snap, refused>> /\ seen' = IF pc \in Resting THEN seen ELSE seen \cup {dv'}
    BY <1>12 DEF SourceChanges
  <2>2. seen = {e}
    BY <2>1 DEF FetchedInv
  <2> QED BY <1>2, <2>1, <2>2
<1> QED BY <1>3, <1>5, <1>6, <1>7, <1>8, <1>9, <1>10, <1>11, <1>12 DEF Next, Progress

(* What was fetched is the environment: all of it that matters. *)
SameAs(s, e) ==
    /\ s.units = e.units /\ s.users = e.users /\ s.teams = e.teams /\ s.roles = e.roles
    /\ s.depths = e.depths /\ s.privileges = e.privileges /\ s.teamRoles = e.teamRoles
    /\ s.userRoles = {a \in e.userRoles : a[1] \in e.users}
    /\ s.members = e.members /\ s.profiles = e.profiles
    /\ \A p \in e.profiles : /\ s.readable[p] = e.readable[p]
                             /\ s.profileUsers[p] = e.profileUsers[p]
                             /\ s.profileTeams[p] = e.profileTeams[p]

LEMMA UndisturbedSame ==
    ASSUME TypeInv, FetchedInv, StillInv, Settled, ~refused, NEW e, seen = {e}
    PROVE  SameAs(snap, e)
<1>1. /\ CollectionsServed(e) /\ PrivilegesServed(e) /\ MembersServed(e) /\ ProfilesServed(e)
      /\ e \in Possible /\ snap \in Environment /\ CameFrom(snap, {e})
  BY DEF StillInv, TypeInv, TypeOK, FetchedInv
<1>2. Place[pc] = 13 /\ pc \notin {"privileges", "members", "profile"}
  BY Places DEF Settled
<1>3. \A c \in Whole : snap[c] = ServedBy(e, c)
  BY <1>1, <1>2, Places DEF CollectionsServed
<1>4. /\ snap.units = e.units /\ snap.users = e.users /\ snap.teams = e.teams /\ snap.roles = e.roles
      /\ snap.depths = e.depths /\ snap.teamRoles = e.teamRoles /\ snap.profiles = e.profiles
      /\ snap.userRoles = {a \in e.userRoles : a[1] \in e.users}
  BY <1>3 DEF Whole, ServedBy
<1>5. snap.privileges = e.privileges
  <2>1. e.privileges \subseteq snap.privileges
    BY <1>1, <1>2, Places DEF PrivilegesServed
  <2>2. snap.privileges \subseteq e.privileges
    BY <1>1 DEF CameFrom
  <2> QED BY <2>1, <2>2
<1>6. snap.members = e.members
  <2>1. snap.members \in [Team -> SUBSET User] /\ e.members \in [Team -> SUBSET User]
    BY <1>1, PossibleEnvironments, EnvironmentFields
  <2>2. ASSUME NEW t \in Team PROVE snap.members[t] = e.members[t]
    <3>1. CASE t \in e.teams
      BY <1>1, <1>2, <3>1, Places DEF MembersServed
    <3>2. CASE t \notin e.teams
      <4>1. e.members[t] = {}
        BY <1>1, <3>2, ServedAssumption
      <4> QED BY <1>1, <4>1 DEF CameFrom
    <3> QED BY <3>1, <3>2
  <2> QED BY <2>1, <2>2
<1>7. ASSUME NEW p \in e.profiles
      PROVE  /\ snap.readable[p] = e.readable[p] /\ snap.profileUsers[p] = e.profileUsers[p]
             /\ snap.profileTeams[p] = e.profileTeams[p]
  <2>1. \A k \in 1 .. 3 : snap[Part[k]][p] = e[Part[k]][p]
    <3>1. Place[pc] >= Place["profile"] /\ pc # "profile"
      BY <1>2, Places
    <3> QED BY <1>1, <3>1, Zenon DEF ProfilesServed
  <2>2. Part[1] = "readable" /\ Part[2] = "profileUsers" /\ Part[3] = "profileTeams"
    BY DEF Part
  <2>3. 1 \in 1 .. 3 /\ 2 \in 1 .. 3 /\ 3 \in 1 .. 3
    OBVIOUS
  <2> QED BY <2>1, <2>2, <2>3
<1> QED BY <1>4, <1>5, <1>6, <1>7 DEF SameAs

LEMMA SameRole ==
    ASSUME NEW s, NEW e, SameAs(s, e), NEW role
    PROVE  /\ UnitOf(s, role) = UnitOf(e, role) /\ Tables(s, role) = Tables(e, role)
           /\ \A t : DepthOf(s, role, t) = DepthOf(e, role, t)
           /\ \A t : DepthsOf(s, role, t) = DepthsIn(role, t, {e})
<1>1. s.privileges = e.privileges /\ s.depths = e.depths /\ s.roles = e.roles
  BY DEF SameAs
<1>2. \A t : DepthsOf(s, role, t) = DepthsOf(e, role, t)
  BY <1>1 DEF DepthsOf
<1>3. \A t : DepthsIn(role, t, {e}) = DepthsOf(e, role, t)
  BY DEF DepthsIn
<1> QED BY <1>1, <1>2, <1>3 DEF UnitOf, Tables, DepthOf

LEMMA BelowAreDescendants ==
    ASSUME NEW s, NEW e, SameAs(s, e), NEW role
    PROVE  UnitsBelow(role, {e}) \subseteq Descendants(s, UnitOf(s, role))
<1> SUFFICES ASSUME NEW b \in UnitsBelow(role, {e}) PROVE b \in Descendants(s, UnitOf(s, role))
  OBVIOUS
<1>1. UNION {f.units : f \in {e}} = e.units
  OBVIOUS
<1>2. /\ b \in Unit /\ UnitOf(e, role) # None
      /\ \A S \in SUBSET Unit :
             /\ UnitOf(e, role) \in S
             /\ \A x \in e.units : x.parent \in S => x.id \in S
             => b \in S
  BY <1>1 DEF UnitsBelow
<1>3. UnitOf(s, role) = UnitOf(e, role) /\ s.units = e.units
  BY SameRole DEF SameAs
<1> QED BY <1>2, <1>3 DEF Descendants

(* Whoever has the role in Dataverse is among those it was fetched for. *)
LEMMA HoldersArePrincipals ==
    ASSUME NEW s, NEW e \in Environment, SameAs(s, e), NEW role \in SecurityRole, Tables(s, role) # {},
           NEW p, role \in HeldBy({p}, {e})
    PROVE  /\ p \in e.users => p \in Principals(s, role)
           /\ p \in e.teams => p \in Principals(s, role)
<1>1. <<p, role>> \in e.userRoles \cup e.teamRoles
  BY DEF HeldBy
<1>2. e.users \subseteq User /\ e.teams \subseteq Team
      /\ e.userRoles \subseteq User \X SecurityRole /\ e.teamRoles \subseteq Team \X SecurityRole
  BY EnvironmentFields
<1>3. ASSUME p \in e.users PROVE p \in Principals(s, role)
  <2>1. <<p, role>> \in e.userRoles
    BY <1>1, <1>2, <1>3, DataverseAssumption
  <2>2. <<p, role>> \in s.userRoles /\ p \in s.users
    BY <1>3, <2>1 DEF SameAs
  <2> QED BY <2>2 DEF Principals
<1>4. ASSUME p \in e.teams PROVE p \in Principals(s, role)
  <2>1. <<p, role>> \in e.teamRoles
    BY <1>1, <1>2, <1>4, DataverseAssumption
  <2>2. <<p, role>> \in s.teamRoles /\ p \in s.teams
    BY <1>4, <2>1 DEF SameAs
  <2> QED BY <2>2 DEF Principals
<1> QED BY <1>3, <1>4

LEMMA TeamsOfOne ==
    ASSUME NEW e, NEW u, NEW t \in TeamsOf(u, {e})
    PROVE  t \in Team /\ t \in e.teams /\ u \in e.members[t]
BY DEF TeamsOf

(* What a depth gives of a row, with what was fetched. *)
WidestGives(s, e, u, role, r, depth) ==
    \/ depth = "Global"
    \/ depth = "Deep" /\ r[2] \in Descendants(s, UnitOf(s, role))
    \/ depth = "Local" /\ r[2] = UnitOf(s, role)
    \/ depth = "Basic" /\ r[1] \in Owners(u, role, {e})

LEMMA UnitIsItsDescendant ==
    ASSUME NEW s, NEW unit \in Unit
    PROVE  unit \in Descendants(s, unit)
BY DataverseAssumption DEF Descendants

(* When depths are nested the widest gives what any of them gives. *)
LEMMA WidestHoldsOthers ==
    ASSUME NEW s \in Environment, NEW e \in Environment, SameAs(s, e), DepthsNested(e), NEW u,
           NEW role \in SecurityRole, NEW table \in Table, table \in Tables(s, role), NEW r \in Row,
           LET depths == DepthsOf(s, role, table)
           IN  \/ "Global" \in depths
               \/ "Deep" \in depths /\ r[2] \in UnitsBelow(role, {e})
               \/ "Local" \in depths /\ \E f \in {e} : r[2] = UnitOf(f, role)
               \/ "Basic" \in depths /\ r[1] \in Owners(u, role, {e})
    PROVE  WidestGives(s, e, u, role, r, DepthOf(s, role, table))
<1> DEFINE depths == DepthsOf(s, role, table)
           depth  == DepthOf(s, role, table)
<1>1. depths \subseteq Depth /\ depths # {}
  BY DepthsType DEF Tables
<1>2. depth \in depths /\ \A d \in depths : Rank(depth) >= Rank(d)
  BY <1>1, StrongestIs DEF DepthOf
<1>3. /\ Rank("Unknown") = 0 /\ Rank("Basic") = 1 /\ Rank("Local") = 2
      /\ Rank("Deep") = 3 /\ Rank("Global") = 4
  BY DEF Rank
<1>4. "Basic" \in depths /\ depths \cap {"Local", "Deep"} # {} => "Global" \in depths
  <2>1. DepthsOf(e, role, table) = depths
    BY SameRole DEF DepthsIn
  <2> QED BY <2>1 DEF DepthsNested
<1>5. r[2] \in Unit
  BY DEF Row
<1>6. UnitsBelow(role, {e}) \subseteq Descendants(s, UnitOf(s, role)) /\ UnitOf(s, role) = UnitOf(e, role)
  BY BelowAreDescendants, SameRole
<1> HIDE DEF depths, depth
<1>7. depth \in {"Unknown", "Basic", "Local", "Deep", "Global"}
  BY <1>1, <1>2 DEF Depth
<1>8. CASE "Global" \in depths
  <2>1. depth = "Global"
    BY <1>2, <1>3, <1>7, <1>8
  <2> QED BY <2>1 DEF WidestGives, depth
<1>9. CASE "Global" \notin depths /\ "Deep" \in depths /\ r[2] \in UnitsBelow(role, {e})
  <2>1. depth = "Deep"
    BY <1>2, <1>3, <1>7, <1>9
  <2> QED BY <1>6, <1>9, <2>1 DEF WidestGives, depth
<1>10. CASE "Global" \notin depths /\ "Local" \in depths /\ r[2] = UnitOf(e, role)
  <2>1. depth = "Deep" \/ depth = "Local"
    BY <1>2, <1>3, <1>7, <1>10
  <2>2. r[2] \in Descendants(s, UnitOf(s, role))
    BY <1>5, <1>6, <1>10, UnitIsItsDescendant
  <2> QED BY <1>6, <1>10, <2>1, <2>2 DEF WidestGives, depth
<1>11. CASE "Global" \notin depths /\ "Basic" \in depths /\ r[1] \in Owners(u, role, {e})
  <2>1. depth = "Basic"
    BY <1>2, <1>3, <1>4, <1>7, <1>11
  <2> QED BY <1>11, <2>1 DEF WidestGives, depth
<1> QED BY <1>8, <1>9, <1>10, <1>11 DEF depths

LEMMA GivesNoLess ==
    ASSUME NEW s \in Environment, NEW e \in Environment, SameAs(s, e), DepthsNested(e),
           NEW u \in Known({e}), NEW table \in Wanted, NEW r \in RowsInDataverse(u, table, {e})
    PROVE  \E p \in BuildRoleBasedExport(s) :
               u \in EffectiveUsers(p, {e}) /\ table \in DOMAIN p.rows /\ r \in p.rows[table]
<1>1. u \in User /\ u \in EntraId /\ u \in e.users
  BY DEF Known
<1>2. PICK role \in HeldBy({u} \cup TeamsOf(u, {e}), {e}) : r \in RowsByRole(u, role, table, {e})
  BY DEF RowsInDataverse
<1>3. role \in SecurityRole
  BY DEF HeldBy
<1> DEFINE depth      == DepthOf(s, role, table)
           depths     == DepthsOf(s, role, table)
           principals == Principals(s, role)
           groups     == principals \cap Team \cap EntraId
<1>4. /\ r \in Row
      /\ \/ "Global" \in depths
         \/ "Deep" \in depths /\ r[2] \in UnitsBelow(role, {e})
         \/ "Local" \in depths /\ \E f \in {e} : r[2] = UnitOf(f, role)
         \/ "Basic" \in depths /\ r[1] \in Owners(u, role, {e})
  BY <1>2, SameRole DEF RowsByRole, Owners
<1>5. table \in Tables(s, role)
  BY <1>4 DEF Tables
<1>5a. WidestGives(s, e, u, role, r, depth)
  <2> HIDE DEF depth
  <2>1. WidestGives(s, e, u, role, r, DepthOf(s, role, table))
    BY <1>3, <1>4, <1>5, WidestHoldsOthers, DataverseAssumption
  <2> QED BY <2>1 DEF depth
<1>6. PICK q \in {u} \cup TeamsOf(u, {e}) : role \in HeldBy({q}, {e})
  BY <1>2 DEF HeldBy
<1>7. /\ q \in principals
      /\ \/ q = u
         \/ q \in Team /\ u \in s.members[q] /\ q \in TeamsOf(u, {e})
  <2>1. CASE q = u
    BY <1>1, <1>3, <1>5, <1>6, <2>1, HoldersArePrincipals
  <2>2. CASE q \in TeamsOf(u, {e})
    <3>1. q \in e.teams /\ q \in Team /\ u \in e.members[q]
      BY <2>2, TeamsOfOne
    <3> QED BY <1>3, <1>5, <1>6, <2>2, <3>1, HoldersArePrincipals DEF SameAs
  <2> QED BY <1>6, <2>1, <2>2
<1>8. u \in Resolvable(s)
  BY <1>1 DEF Resolvable, SameAs
<1>9. u \in UsersOf(s, role)
  <2>1. u \in Expanded(s, principals)
    BY <1>1, <1>7 DEF Expanded
  <2> QED BY <1>8, <2>1 DEF UsersOf
<1>10. ASSUME NEW owners, depth = "Basic" => Owners(u, role, {e}) \subseteq owners
       PROVE  r \in RowConstraints(s, role, owners)[table]
  <2>1. RowConstraints(s, role, owners)[table] = RowFilter(s, depth, UnitOf(s, role), owners)
    BY <1>5 DEF RowConstraints
  <2> HIDE DEF depth
  <2> QED BY <1>4, <1>10, <1>5a, <2>1 DEF WidestGives, RowFilter
<1>11. ASSUME NEW p, p \in PoliciesOf(s, role), u \in EffectiveUsers(p, {e}),
              NEW owners, p.rows = RowConstraints(s, role, owners),
              depth = "Basic" => Owners(u, role, {e}) \subseteq owners
       PROVE  \E g \in BuildRoleBasedExport(s) :
                  u \in EffectiveUsers(g, {e}) /\ table \in DOMAIN g.rows /\ r \in g.rows[table]
  <2>1. table \in DOMAIN p.rows /\ r \in p.rows[table]
    BY <1>5, <1>10, <1>11 DEF RowConstraints
  <2>2. p \in BuildRoleBasedExport(s)
    BY <1>3, <1>7, <1>11 DEF BuildRoleBasedExport
  <2> QED BY <1>11, <2>1, <2>2
<1>12. \A owners : LET own == OwnPolicy(s, role, u, owners)
                   IN  u \in EffectiveUsers(own, {e}) /\ own.rows = RowConstraints(s, role, owners)
  BY DEF OwnPolicy, EffectiveUsers
<1>13. CASE HasBasicDepth(s, role)
  <2> DEFINE owners == OwnershipScope(s, principals, u)
             p      == OwnPolicy(s, role, u, owners)
  <2>1. p \in PoliciesOf(s, role)
    BY <1>9, <1>13 DEF PoliciesOf, PerPrincipalRoles
  <2>2. Owners(u, role, {e}) \subseteq owners
    <3> SUFFICES ASSUME NEW t \in TeamsOf(u, {e}), role \in HeldBy({t}, {e})
                 PROVE  t \in owners
      BY DEF Owners, OwnershipScope
    <3>1. t \in e.teams /\ u \in e.members[t]
      BY TeamsOfOne
    <3>2. t \in principals
      BY <1>3, <1>5, <3>1, HoldersArePrincipals
    <3> QED BY <3>1, <3>2 DEF OwnershipScope, SameAs
  <2> HIDE DEF p, owners
  <2>3. u \in EffectiveUsers(p, {e}) /\ p.rows = RowConstraints(s, role, owners)
    BY <1>12 DEF p
  <2> QED BY <1>11, <2>1, <2>2, <2>3
<1>14. depth = "Basic" => HasBasicDepth(s, role)
  BY <1>5 DEF HasBasicDepth
<1>15. CASE ~HasBasicDepth(s, role) /\ ColumnSecurity /\ DivergentProfiles(s, principals)
  <2> DEFINE p == OwnPolicy(s, role, u, {})
  <2>1. p \in PoliciesOf(s, role)
    BY <1>9, <1>15 DEF PoliciesOf, PerPrincipalClsRoles
  <2>2. u \in EffectiveUsers(p, {e}) /\ p.rows = RowConstraints(s, role, {})
    BY <1>12
  <2> HIDE DEF p
  <2> QED BY <1>11, <1>14, <1>15, <2>1, <2>2
<1>16. CASE ~HasBasicDepth(s, role) /\ ~(ColumnSecurity /\ DivergentProfiles(s, principals))
  <2> DEFINE users == Expanded(s, principals \ groups) \cap Resolvable(s)
             p     == [role |-> role, users |-> users, groups |-> groups,
                       cols |-> ColumnConstraints(s, principals, Tables(s, role)),
                       rows |-> RowConstraints(s, role, {})]
  <2>1. u \in users \/ (q \in groups /\ q \in TeamsOf(u, {e}))
    <3>1. CASE q = u
      <4>1. u \notin groups
        BY <1>1, DataverseAssumption
      <4> QED BY <1>1, <1>7, <1>8, <3>1, <4>1 DEF Expanded
    <3>2. CASE q \in Team /\ u \in s.members[q] /\ q \in TeamsOf(u, {e})
      BY <1>7, <1>8, <3>2 DEF Expanded
    <3> QED BY <1>7, <3>1, <3>2
  <2>2. PoliciesOf(s, role) = SharedRole(s, role)
    BY <1>16 DEF PoliciesOf
  <2>3. p \in SharedRole(s, role)
    BY <2>1 DEF SharedRole
  <2>4. u \in EffectiveUsers(p, {e})
    BY <1>1, <2>1 DEF EffectiveUsers
  <2>5. p.rows = RowConstraints(s, role, {})
    OBVIOUS
  <2> HIDE DEF p
  <2> QED BY <1>11, <1>14, <1>16, <2>2, <2>3, <2>4, <2>5
<1> QED BY <1>13, <1>15, <1>16

LEMMA ExportGivesNoLess == TypeInv /\ FetchedInv /\ StillInv => RowsAtParity
<1> SUFFICES ASSUME TypeInv, FetchedInv, StillInv, Settled, ~refused, NEW e \in seen, seen = {e},
                    DepthsNested(e), NEW u \in Known(seen), NEW t \in Wanted
             PROVE  RowsExported(u, t, seen) = RowsInDataverse(u, t, seen)
  BY DEF RowsAtParity
<1>1. RowsExported(u, t, seen) \subseteq RowsInDataverse(u, t, seen)
  BY ExportGivesNoMore, DataverseAssumption DEF NoRowsGained
<1>2. SameAs(snap, e) /\ snap \in Environment /\ e \in Environment
  BY UndisturbedSame DEF TypeInv, TypeOK
<1>3. export = BuildRoleBasedExport(snap)
  BY DEF FetchedInv
<1>4. ASSUME NEW r \in RowsInDataverse(u, t, {e}) PROVE r \in RowsExported(u, t, {e})
  <2>1. PICK p \in BuildRoleBasedExport(snap) :
                 u \in EffectiveUsers(p, {e}) /\ t \in DOMAIN p.rows /\ r \in p.rows[t]
    BY <1>2, GivesNoLess
  <2> QED BY <1>3, <2>1 DEF RowsExported
<1> QED BY <1>1, <1>4

(* RowsAtParity: when every request is answered and nobody changes the     *)
(* environment meanwhile, everybody that Entra knows reads the rows under  *)
(* the export that he reads in Dataverse, no more and no less.             *)
THEOREM RowsKept == Spec => []RowsAtParity
<1> DEFINE Inv == TypeInv /\ FetchedInv /\ AttemptInv /\ StillInv
<1>1. Inv /\ [Next]_vars => Inv'
  BY TypeNext, FetchedNext, AttemptNext, StillNext
<1>2. Init => Inv
  BY TypeInit, FetchedInit, AttemptInit, StillInit
<1> QED BY <1>1, <1>2, ExportGivesNoLess, PTL DEF Spec

-------------------------------------------------------------------------------
(* Columns *)

LEMMA SameColumns ==
    ASSUME NEW s, NEW e, SameAs(s, e), NEW A, NEW B, NEW tables,
           \A p \in e.profiles : Coverage(s, p) \cap Expanded(s, A) # {}
                                     <=> Coverage(s, p) \cap Expanded(s, B) # {}
    PROVE  ColumnConstraints(s, A, tables) = ColumnConstraints(e, B, tables)
<1>1. s.profiles = e.profiles /\ s.members = e.members /\ s.teams = e.teams
  BY DEF SameAs
<1>2. \A p \in e.profiles : s.readable[p] = e.readable[p] /\ Coverage(s, p) = Coverage(e, p)
  BY DEF SameAs, Coverage
<1>3. Expanded(s, B) = Expanded(e, B)
  BY <1>1 DEF Expanded
<1> DEFINE all == [profile : e.profiles, table : tables, columns : SUBSET Column \ {{}}]
           inA(c) == Coverage(s, c.profile) \cap Expanded(s, A) # {}
           inB(c) == Coverage(e, c.profile) \cap Expanded(e, B) # {}
           readable(c) == {col \in Column : <<c.table, col>> \in e.readable[c.profile]}
<1>4. CASE ~ColumnSecurity
  BY <1>4 DEF ColumnConstraints
<1>5. CASE ColumnSecurity
  <2>1. \A c \in all : inA(c) <=> inB(c)
    BY <1>2, <1>3
  <2>2. \A c \in all : {col \in Column : <<c.table, col>> \in s.readable[c.profile]} = readable(c)
    BY <1>2
  <2>3. ColumnConstraints(s, A, tables) = {c \in all : inA(c) /\ c.columns = readable(c)}
    <3>1. ColumnConstraints(s, A, tables) =
              {c \in all : inA(c) /\ c.columns =
                               {col \in Column : <<c.table, col>> \in s.readable[c.profile]}}
      BY <1>1, <1>5 DEF ColumnConstraints
    <3> HIDE DEF all, inA, readable
    <3> QED BY <2>2, <3>1
  <2>4. ColumnConstraints(e, B, tables) = {c \in all : inB(c) /\ c.columns = readable(c)}
    BY <1>5 DEF ColumnConstraints
  <2> HIDE DEF all, inA, inB, readable
  <2> QED BY <2>1, <2>3, <2>4
<1> QED BY <1>4, <1>5

LEMMA PolicyHasOwnColumns ==
    ASSUME NEW s \in Environment, NEW e \in Environment, SameAs(s, e), NEW role,
           NEW p \in PoliciesOf(s, role), NEW u \in EffectiveUsers(p, {e}) \cap e.users
    PROVE  p.cols = ColumnConstraints(e, {u}, DOMAIN p.rows)
<1>1. \A owners : DOMAIN RowConstraints(s, role, owners) = Tables(s, role)
  BY DEF RowConstraints
<1>2. ASSUME NEW v, NEW owners, p = OwnPolicy(s, role, v, owners)
      PROVE  p.cols = ColumnConstraints(e, {u}, DOMAIN p.rows)
  <2>1. u = v /\ p.cols = ColumnConstraints(s, {v}, Tables(s, role)) /\ DOMAIN p.rows = Tables(s, role)
    BY <1>1, <1>2 DEF OwnPolicy, EffectiveUsers
  <2> QED BY <2>1, SameColumns
<1>3. CASE p \in PerPrincipalRoles(s, role) \/ p \in PerPrincipalClsRoles(s, role)
  BY <1>2, <1>3 DEF PerPrincipalRoles, PerPrincipalClsRoles
<1>4. CASE p \in SharedRole(s, role) /\ ~(ColumnSecurity /\ DivergentProfiles(s, Principals(s, role)))
  <2> DEFINE principals == Principals(s, role)
             groups     == principals \cap Team \cap EntraId
             users      == Expanded(s, principals \ groups) \cap Resolvable(s)
  <2>1. /\ p.users = users /\ p.groups = groups /\ DOMAIN p.rows = Tables(s, role)
        /\ p.cols = ColumnConstraints(s, principals, Tables(s, role))
    BY <1>1, <1>4 DEF SharedRole
  <2>2. u \in User
    BY EnvironmentFields
  <2>3. u \in Expanded(s, principals)
    <3>1. CASE u \in users
      BY <3>1 DEF Expanded
    <3>2. CASE u \notin users
      <4>1. PICK t \in groups : t \in TeamsOf(u, {e})
        BY <2>1, <3>2 DEF EffectiveUsers
      <4>2. u \in s.members[t]
        BY <4>1, TeamsOfOne DEF SameAs
      <4> QED BY <4>1, <4>2 DEF Expanded
    <3> QED BY <3>1, <3>2
  <2>4. CASE ~ColumnSecurity
    BY <2>1, <2>4 DEF ColumnConstraints
  <2>5. CASE ColumnSecurity
    <3>1. \A v, w \in Expanded(s, principals) : ProfilesOf(s, v) = ProfilesOf(s, w)
      BY <1>4, <2>5 DEF DivergentProfiles
    <3>2. Expanded(s, {u}) = {u}
      BY <2>2, DataverseAssumption DEF Expanded
    <3>3. \A q \in s.profiles : Coverage(s, q) \cap Expanded(s, principals) # {} => u \in Coverage(s, q)
      BY <2>3, <3>1 DEF ProfilesOf
    <3> DEFINE alone == {u}
    <3>4. \A q \in e.profiles : Coverage(s, q) \cap Expanded(s, principals) # {}
                                    <=> Coverage(s, q) \cap Expanded(s, alone) # {}
      <4>1. s.profiles = e.profiles
        BY DEF SameAs
      <4> QED BY <2>3, <3>2, <3>3, <4>1
    <3> HIDE DEF principals, alone
    <3>5. \A tables : ColumnConstraints(s, principals, tables) = ColumnConstraints(e, alone, tables)
      BY <3>4, SameColumns
    <3> QED BY <2>1, <3>5 DEF alone
  <2> QED BY <2>4, <2>5
<1> QED BY <1>3, <1>4 DEF PoliciesOf

(* ColumnsAreOwn: under the same condition the columns of a policy are, for *)
(* each of its users, those he would be given alone.                        *)
THEOREM ColumnsKept == Spec => []ColumnsAreOwn
<1> DEFINE Inv == TypeInv /\ FetchedInv /\ AttemptInv /\ StillInv
<1>1. Inv /\ [Next]_vars => Inv'
  BY TypeNext, FetchedNext, AttemptNext, StillNext
<1>2. Init => Inv
  BY TypeInit, FetchedInit, AttemptInit, StillInit
<1>3. TypeInv /\ FetchedInv /\ StillInv => ColumnsAreOwn
  <2> SUFFICES ASSUME TypeInv, FetchedInv, StillInv, Settled, ~refused, NEW e \in seen, seen = {e},
                      NEW p \in export, NEW u \in EffectiveUsers(p, {e}) \cap e.users
               PROVE  p.cols = ColumnConstraints(e, {u}, DOMAIN p.rows)
    BY DEF ColumnsAreOwn
  <2>1. SameAs(snap, e) /\ snap \in Environment /\ e \in Environment
    BY UndisturbedSame DEF TypeInv, TypeOK
  <2>2. PICK role \in SecurityRole : p \in PoliciesOf(snap, role)
    BY DEF FetchedInv, BuildRoleBasedExport
  <2> QED BY <2>1, <2>2, PolicyHasOwnColumns
<1> QED BY <1>1, <1>2, <1>3, PTL DEF Spec

===============================================================================
