--------------------------- MODULE WeaverPartsProofs ---------------------------
(***************************************************************************)
(* Theorems about what becomes of an export, for every value of the        *)
(* constants of WeaverAgent: every policy, and every part of one, is       *)
(* accounted for, so that no path of a policy is lost in splitting it.     *)
(***************************************************************************)
EXTENDS WeaverPolicyProofs

(* What one policy of the export is built as, and from what. *)
PiecesOf(p) == ToSet(IF RoleBased THEN SplitPermissionScopes(p) ELSE <<p>>)
RuleFor(q) ==
    IF RoleBased THEN RuleOf(q) ELSE [paths |-> {PathOf(q)}, cols |-> {}, rows |-> {}]
OriginFor(q) == IF RoleBased THEN <<q.role, q.part>> ELSE <<q.schema, q.table>>
IsPiece(q) == \E p \in ToSet(export) : q \in PiecesOf(p)

(* A role is made of a piece, the principals in rest still to come. *)
Made(cache, r, q, rest) ==
    /\ r.rule = RuleFor(q) /\ r.origin = OriginFor(q)
    /\ Resolves(cache, r.members, ToSet(q.objects), rest)

(* A piece is still to be built, opens nothing, is being built, is built   *)
(* or has nobody in it who is known.                                       *)
Accounted(q) ==
    \/ q \in ToSet(parts)
    \/ RuleFor(q).paths = {}
    \/ pc = "lookup" /\ Made(graphMap, dap, q, ToSet(pending))
    \/ \E i \in DOMAIN built : Made(graphMap, built[i], q, {})
    \/ Resolves(graphMap, {}, ToSet(q.objects), {})

PartsInv ==
    /\ pc \in {"build", "lookup"} =>
         /\ ToSet(todo) \subseteq ToSet(export)
         /\ \A q \in ToSet(parts) : IsPiece(q)
         /\ \A p \in ToSet(export) : p \in ToSet(todo) \/ \A q \in PiecesOf(p) : Accounted(q)
    /\ \A i \in DOMAIN built :
         built[i].members # {} /\ \E q : IsPiece(q) /\ Made(graphMap, built[i], q, {})
    /\ pc = "lookup" => \E q : IsPiece(q) /\ Made(graphMap, dap, q, ToSet(pending))

-------------------------------------------------------------------------------
(* Splitting *)

LEMMA Division ==
    ASSUME NEW a \in Nat, NEW m \in Nat \ {0}
    PROVE  /\ a \div m \in Nat
           /\ (a \div m) * m <= a /\ a < (a \div m) * m + m
<1>1. a = m * (a \div m) + (a % m) /\ (a % m) \in 0 .. m - 1
  OBVIOUS
<1>2. a \div m \in Nat
  OBVIOUS
<1>3. (a \div m) * m = m * (a \div m)
  BY <1>2
<1> QED  BY <1>1, <1>2, <1>3

(* Every position of a list of n falls into one of the slices of m, and    *)
(* no slice begins beyond its end.                                         *)
LEMMA SlicesCover ==
    ASSUME NEW n \in Nat, NEW m \in Nat \ {0}, NEW k \in 1 .. n
    PROVE  \E i \in 1 .. (n + m - 1) \div m : (i - 1) * m + 1 <= k /\ k <= i * m
<1> DEFINE i == (k - 1) \div m
           total == (n + m - 1) \div m
<1>1. i \in Nat /\ i * m <= k - 1 /\ k - 1 < i * m + m
  BY Division
<1>2. total \in Nat /\ total * m <= n + m - 1 /\ n + m - 1 < total * m + m
  BY Division
<1> HIDE DEF i, total
<1>3. (i + 1) * m = i * m + m
  BY <1>1
<1>4. i + 1 <= total
  <2> SUFFICES ASSUME total <= i PROVE FALSE
    BY <1>1, <1>2
  <2>1. total * m <= i * m
    BY <1>1, <1>2
  <2> QED  BY <1>1, <1>2, <2>1
<1>5. i + 1 \in 1 .. total /\ ((i + 1) - 1) * m + 1 <= k /\ k <= (i + 1) * m
  BY <1>1, <1>2, <1>3, <1>4
<1> QED  BY <1>5 DEF total

LEMMA InSequence ==
    ASSUME NEW S, NEW s \in Seq(S)
    PROVE  ToSet(s) \subseteq S /\ \A x \in ToSet(s) : \E i \in 1 .. Len(s) : x = s[i]
BY DEF ToSet

(* A slice of the scopes holds at most MaxScopes of them, and the slices   *)
(* hold all.                                                               *)
LEMMA ScopesOfPieces ==
    ASSUME RoleBased, NEW p \in RolePolicy
    PROVE  /\ \A q \in PiecesOf(p) : /\ q \in RolePolicy /\ Len(q.scopes) <= MaxScopes
                                     /\ ToSet(q.scopes) \subseteq ToSet(p.scopes)
                                     /\ q.role = p.role /\ q.objects = p.objects
                                     /\ q.cols = p.cols /\ q.rows = p.rows
           /\ \A s \in ToSet(p.scopes) : \E q \in PiecesOf(p) : s \in ToSet(q.scopes)
<1> DEFINE pieces == SplitPermissionScopes(p)
<1>1. pieces \in Seq(RolePolicy) /\ PiecesOf(p) = ToSet(pieces)
  BY SplitType DEF PiecesOf
<1>2. \A q \in PiecesOf(p) : /\ q \in RolePolicy /\ q.role = p.role /\ q.objects = p.objects
                             /\ q.cols = p.cols /\ q.rows = p.rows
  <2> SUFFICES ASSUME NEW q \in PiecesOf(p)
               PROVE  /\ q \in RolePolicy /\ q.role = p.role /\ q.objects = p.objects
                      /\ q.cols = p.cols /\ q.rows = p.rows
    OBVIOUS
  <2>1. PICK i \in DOMAIN pieces : q = pieces[i]
    BY <1>1 DEF ToSet
  <2> QED  BY <1>1, <2>1, PartsKeepTheRest
<1>3. CASE Len(p.scopes) <= MaxScopes
  <2>1. PiecesOf(p) = {p}
    BY <1>3 DEF PiecesOf, SplitPermissionScopes, ToSet
  <2> QED  BY <1>2, <1>3, <2>1
<1>4. CASE ~(Len(p.scopes) <= MaxScopes)
  <2> DEFINE n == Len(p.scopes)
             total == (n + MaxScopes - 1) \div MaxScopes
             part(i) == SplitOffNewRolePolicy(p, i, (i - 1) * MaxScopes, i * MaxScopes)
             last(i) == IF i * MaxScopes > n THEN n ELSE i * MaxScopes
             slice(i) == SubSeq(p.scopes, (i - 1) * MaxScopes + 1, last(i))
  <2>1. n \in Nat /\ MaxScopes \in Nat \ {0} /\ p.scopes \in Seq(Scope) /\ total \in Nat
    <3>1. Len(p.scopes) \in Nat /\ MaxScopes \in Nat \ {0} /\ p.scopes \in Seq(Scope)
      BY RuleAssumption DEF RolePolicy
    <3>2. n + MaxScopes - 1 \in Nat
      BY <3>1
    <3> QED  BY <3>1, <3>2, Division
  <2>2. pieces = [i \in 1 .. total |-> part(i)]
    BY <1>4 DEF SplitPermissionScopes
  <2>3. \A i : part(i).scopes = slice(i)
    BY DEF SplitOffNewRolePolicy, RolePolicy
  <2>4. ASSUME NEW i \in 1 .. total
        PROVE  /\ (i - 1) * MaxScopes \in Nat /\ i * MaxScopes \in Nat
               /\ i * MaxScopes = (i - 1) * MaxScopes + MaxScopes
    BY <2>1, SMT
  <2>5. ASSUME NEW i \in 1 .. total
        PROVE  /\ Len(slice(i)) <= MaxScopes
               /\ ToSet(slice(i)) \subseteq ToSet(p.scopes)
               /\ \A k \in (i - 1) * MaxScopes + 1 .. last(i) : p.scopes[k] \in ToSet(slice(i))
    <3> DEFINE low == (i - 1) * MaxScopes
    <3>1. low \in Nat /\ last(i) \in Nat /\ last(i) <= n /\ last(i) <= low + MaxScopes
      BY <2>1, <2>4
    <3> DEFINE high == last(i)
    <3> HIDE DEF low, high
    <3>2. \A k \in low + 1 .. high : k \in 1 .. n /\ p.scopes[k] \in Scope
      BY <2>1, <3>1 DEF high
    <3>3. /\ SubSeq(p.scopes, low + 1, high) \in Seq(Scope)
          /\ Len(SubSeq(p.scopes, low + 1, high)) = IF low + 1 <= high THEN high - low ELSE 0
          /\ \A k \in 1 .. high - low : SubSeq(p.scopes, low + 1, high)[k] = p.scopes[low + k]
      <4>1. low + 1 \in Int /\ high \in Int
        BY <3>1 DEF high
      <4>2. \A k \in low + 1 .. high : p.scopes[k] \in Scope
        BY <3>2
      <4>3. high - (low + 1) + 1 = high - low /\ \A k \in 1 .. high - low : (low + 1) + k - 1 = low + k
        BY <4>1, <3>1
      <4> QED  BY <4>1, <4>2, <4>3, SubSeqProperties
    <3>4. Len(SubSeq(p.scopes, low + 1, high)) <= MaxScopes
      BY <2>1, <3>1, <3>3 DEF high
    <3>5. ToSet(SubSeq(p.scopes, low + 1, high)) \subseteq ToSet(p.scopes)
      <4> SUFFICES ASSUME NEW k \in DOMAIN SubSeq(p.scopes, low + 1, high)
                   PROVE  SubSeq(p.scopes, low + 1, high)[k] \in ToSet(p.scopes)
        BY DEF ToSet
      <4>1. k \in 1 .. high - low
        BY <3>1, <3>3 DEF high
      <4>2. low + k \in low + 1 .. high
        BY <3>1, <4>1 DEF high
      <4>3. low + k \in DOMAIN p.scopes
        BY <2>1, <3>2, <4>2
      <4> QED  BY <3>3, <4>1, <4>3 DEF ToSet
    <3>6. \A k \in low + 1 .. high : p.scopes[k] \in ToSet(SubSeq(p.scopes, low + 1, high))
      <4> SUFFICES ASSUME NEW k \in low + 1 .. high
                   PROVE  p.scopes[k] \in ToSet(SubSeq(p.scopes, low + 1, high))
        OBVIOUS
      <4>1. k - low \in 1 .. high - low /\ low + (k - low) = k /\ low + 1 <= high
        BY <3>1 DEF high
      <4>2. SubSeq(p.scopes, low + 1, high)[k - low] = p.scopes[k]
        BY <3>3, <4>1
      <4>3. k - low \in DOMAIN SubSeq(p.scopes, low + 1, high)
        BY <3>3, <4>1
      <4> QED  BY <4>2, <4>3 DEF ToSet
    <3> QED  BY <3>4, <3>5, <3>6 DEF low, high
  <2>6. \A q \in PiecesOf(p) : \E i \in 1 .. total : q.scopes = slice(i)
    <3> HIDE DEF slice, part, total, pieces
    <3>1. \A q \in PiecesOf(p) : \E i \in 1 .. total : q = part(i)
      BY <1>1, <2>2 DEF ToSet
    <3> QED  BY <2>3, <3>1
  <2>7. ASSUME NEW s \in ToSet(p.scopes)
        PROVE  \E q \in PiecesOf(p) : s \in ToSet(q.scopes)
    <3>1. PICK k \in 1 .. n : s = p.scopes[k]
      BY <2>1, InSequence
    <3>2. PICK i \in 1 .. total : (i - 1) * MaxScopes + 1 <= k /\ k <= i * MaxScopes
      BY <2>1, SlicesCover
    <3>3. k \in (i - 1) * MaxScopes + 1 .. last(i)
      BY <2>1, <2>4, <3>2
    <3>4. s \in ToSet(slice(i))
      BY <2>5, <3>1, <3>3
    <3>5. part(i) \in PiecesOf(p)
      <4> HIDE DEF part, total, pieces
      <4> QED  BY <1>1, <2>2 DEF ToSet
    <3> QED  BY <2>3, <3>4, <3>5
  <2>8. ASSUME NEW q \in PiecesOf(p)
        PROVE  Len(q.scopes) <= MaxScopes /\ ToSet(q.scopes) \subseteq ToSet(p.scopes)
    <3>1. PICK i \in 1 .. total : q.scopes = slice(i)
      BY <2>6
    <3> QED  BY <2>5, <3>1
  <2> QED  BY <1>2, <2>7, <2>8
<1> QED  BY <1>3, <1>4

(* The parts of a policy open its paths, all of them and no other, and no  *)
(* part too many.                                                          *)
LEMMA RulesOfPieces ==
    ASSUME RoleBased, NEW p \in RolePolicy
    PROVE  /\ \A q \in PiecesOf(p) : /\ RuleOf(q).paths \subseteq RuleOf(p).paths
                                     /\ Cardinality(RuleOf(q).paths) <= MaxScopes
           /\ \A path \in RuleOf(p).paths : \E q \in PiecesOf(p) : path \in RuleOf(q).paths
<1>1. ASSUME NEW q \in PiecesOf(p)
      PROVE  /\ TablesWithAllColumnsDenied(q) = TablesWithAllColumnsDenied(p)
             /\ TablesWithAllRowsDenied(q) = TablesWithAllRowsDenied(p)
             /\ TablePaths(q) \subseteq TablePaths(p)
  BY ScopesOfPieces
     DEF TablesWithAllColumnsDenied, TablesWithAllRowsDenied, ActiveColumns, ActiveRows, TablePaths
<1>2. ASSUME NEW path \in RuleOf(p).paths
      PROVE  \E q \in PiecesOf(p) : path \in RuleOf(q).paths
  <2>1. PICK s \in ToSet(p.scopes) : s.grant /\ path = PathOf(s)
    BY DEF RuleOf, TablePaths
  <2>2. PICK q \in PiecesOf(p) : s \in ToSet(q.scopes)
    BY ScopesOfPieces
  <2>3. path \in TablePaths(q)
    BY <2>1, <2>2 DEF TablePaths
  <2> QED  BY <1>1, <2>3 DEF RuleOf
<1>3. ASSUME NEW q \in PiecesOf(p) PROVE Cardinality(RuleOf(q).paths) <= MaxScopes
  <2> DEFINE n == Len(q.scopes)
             f == [i \in 1 .. n |-> PathOf(q.scopes[i])]
             T == {f[i] : i \in 1 .. n}
  <2>1. n \in Nat /\ n <= MaxScopes /\ q.scopes \in Seq(Scope) /\ MaxScopes \in Nat
    <3>1. q \in RolePolicy /\ n <= MaxScopes
      BY ScopesOfPieces
    <3>2. q.scopes \in Seq(Scope)
      BY <3>1 DEF RolePolicy
    <3> QED  BY <3>1, <3>2, RuleAssumption
  <2>2. IsFiniteSet(1 .. n) /\ Cardinality(1 .. n) = n
    <3>1. 1 \in Int /\ n \in Int /\ (IF 1 > n THEN 0 ELSE n - 1 + 1) = n
      BY <2>1
    <3> HIDE DEF n
    <3> QED  BY <3>1, FS_Interval
  <2>3. f \in Surjection(1 .. n, T)
    BY DEF Surjection
  <2>4. RuleOf(q).paths \subseteq T
    <3> SUFFICES ASSUME NEW path \in TablePaths(q) PROVE path \in T
      BY DEF RuleOf
    <3>1. PICK i \in 1 .. n : path = PathOf(q.scopes[i])
      BY <2>1, InSequence DEF TablePaths
    <3> QED  BY <3>1
  <2> HIDE DEF n, f, T
  <2>5. IsFiniteSet(T) /\ Cardinality(T) <= n
    BY <2>2, <2>3, FS_Surjection
  <2>6. IsFiniteSet(RuleOf(q).paths) /\ Cardinality(RuleOf(q).paths) <= Cardinality(T)
    BY <2>4, <2>5, FS_Subset
  <2> QED  BY <2>1, <2>5, <2>6, FS_CardinalityType
<1> QED  BY <1>1, <1>2, <1>3 DEF RuleOf

-------------------------------------------------------------------------------
(* Every policy is accounted for *)

LEMMA PieceType ==
    ASSUME TypeOK, export # NoExport, NEW p \in ToSet(export), NEW q \in PiecesOf(p)
    PROVE  /\ p \in Policy /\ q \in Policy /\ SameSource(q, p)
           /\ q.objects = p.objects /\ ToSet(q.objects) \subseteq Object
<1>1. p \in Policy
  BY DEF TypeOK, ToSet
<1>2. q \in Policy /\ SameSource(q, p) /\ q.objects = p.objects
  <2>1. CASE RoleBased
    BY <1>1, <2>1, ScopesOfPieces DEF Policy, SameSource
  <2>2. CASE ~RoleBased
    <3>1. PiecesOf(p) = {p}
      BY <2>2 DEF PiecesOf, ToSet
    <3> QED  BY <1>1, <2>2, <3>1 DEF SameSource
  <2> QED  BY <2>1, <2>2
<1>3. q.objects \in Seq(Object)
  BY <1>2 DEF Policy, RolePolicy, TablePolicy
<1> QED  BY <1>1, <1>2, <1>3, InSequence

LEMMA HeadAndTail ==
    ASSUME NEW S, NEW s \in Seq(S), s # <<>>
    PROVE  ToSet(s) = {Head(s)} \cup ToSet(Tail(s))
<1>1. s[1] = Head(s) /\ 1 \in DOMAIN s /\ DOMAIN s = 1 .. Len(s) /\ Len(s) \in Nat
  OBVIOUS
<1>2. /\ DOMAIN Tail(s) = 1 .. Len(s) - 1
      /\ \A i \in 1 .. Len(s) - 1 : Tail(s)[i] = s[i + 1]
  BY HeadTailProperties
<1>3. \A i \in DOMAIN s : i = 1 \/ (i - 1 \in DOMAIN Tail(s) /\ Tail(s)[i - 1] = s[i])
  BY <1>1, <1>2
<1>4. \A i \in DOMAIN Tail(s) : i + 1 \in DOMAIN s /\ Tail(s)[i] = s[i + 1]
  BY <1>1, <1>2
<1>5. ToSet(s) \subseteq {Head(s)} \cup ToSet(Tail(s))
  BY <1>1, <1>3 DEF ToSet
<1>6. ToSet(Tail(s)) \subseteq ToSet(s)
  BY <1>4 DEF ToSet
<1>7. Head(s) \in ToSet(s)
  BY <1>1 DEF ToSet
<1> QED  BY <1>5, <1>6, <1>7

(* What is made of a piece stays so while the cache only grows. *)
LEMMA MadeStays ==
    ASSUME NEW r, r.members \subseteq Principal, NEW q, ToSet(q.objects) \subseteq Object, NEW rest,
           CacheGrows, Made(graphMap, r, q, rest)
    PROVE  Made(graphMap', r, q, rest)
BY ResolvedStay DEF Made

LEMMA IsPieceStays ==
    ASSUME export' = export
    PROVE  \A q : IsPiece(q)' <=> IsPiece(q)
BY DEF IsPiece

LEMMA InitParts == Init => PartsInv
BY DEF Init, PartsInv

LEMMA RestParts ==
    ASSUME built' = <<>>, pc' \notin {"build", "lookup"}
    PROVE  PartsInv'
BY DEF PartsInv

(* The next policy is taken up: its pieces are what is left to build. *)
LEMMA SplitAccounts ==
    ASSUME TypeOK, PartsInv, SplitNextPolicy
    PROVE  PartsInv'
<1> DEFINE p == Head(todo)
<1>1. /\ pc = "build" /\ pc' = "build" /\ parts = <<>> /\ todo # <<>> /\ todo \in Seq(Policy)
      /\ todo' = Tail(todo) /\ UNCHANGED <<export, built, graphMap>>
  BY DEF SplitNextPolicy, TypeOK, agent
<1>2. ToSet(parts') = PiecesOf(p)
  <2>1. parts' = IF RoleBased THEN SplitPermissionScopes(p) ELSE <<p>>
    BY DEF SplitNextPolicy
  <2> QED  BY <2>1 DEF PiecesOf
<1>3. ToSet(todo) = {p} \cup ToSet(todo')
  BY <1>1, HeadAndTail
<1>4. p \in ToSet(export) /\ ToSet(todo') \subseteq ToSet(export)
  BY <1>1, <1>3 DEF PartsInv
<1> HIDE DEF p
<1>5. \A q \in ToSet(parts') : IsPiece(q)'
  BY <1>1, <1>2, <1>4 DEF IsPiece
<1>6. ASSUME NEW o \in ToSet(export), o \notin ToSet(todo'), NEW q \in PiecesOf(o)
      PROVE  Accounted(q)'
  <2>1. CASE o = p
    BY <1>2, <1>6, <2>1 DEF Accounted
  <2>2. CASE o # p
    <3>1. Accounted(q)
      BY <1>1, <1>3, <1>6, <2>2 DEF PartsInv
    <3>2. q \notin ToSet(parts)
      BY <1>1 DEF ToSet
    <3> QED  BY <1>1, <3>1, <3>2 DEF Accounted
  <2> QED  BY <2>1, <2>2
<1>7. \A i \in DOMAIN built' :
         built'[i].members # {} /\ \E q : IsPiece(q)' /\ Made(graphMap', built'[i], q, {})
  BY <1>1, IsPieceStays DEF PartsInv
<1> QED  BY <1>1, <1>4, <1>5, <1>6, <1>7 DEF PartsInv

(* A piece is taken up: it opens nothing, or its role is under way. *)
LEMMA BuildAccounts ==
    ASSUME TypeOK, PartsInv, BuildDataAccessRolePolicy \/ BuildDataAccessPolicy
    PROVE  PartsInv'
<1> DEFINE p == Head(parts)
<1>1. /\ pc = "build" /\ parts # <<>> /\ parts \in Seq(Policy) /\ parts' = Tail(parts)
      /\ UNCHANGED <<export, todo, built, graphMap>>
  BY DEF BuildDataAccessRolePolicy, BuildDataAccessPolicy, TypeOK, agent
<1>2. \/ RuleFor(p).paths = {} /\ pc' = "build"
      \/ /\ pc' = "lookup" /\ pending' = p.objects
         /\ \E name : dap' = NewRole(name, RuleFor(p), OriginFor(p))
  <2>1. CASE BuildDataAccessRolePolicy
    <3>1. \E name : IF RuleOf(p).paths = {}
                    THEN UNCHANGED <<pc, dap, pending>>
                    ELSE /\ pc' = "lookup"
                         /\ dap' = NewRole(name, RuleOf(p), <<p.role, p.part>>)
                         /\ pending' = p.objects
      BY <2>1 DEF BuildDataAccessRolePolicy
    <3>2. RuleFor(p) = RuleOf(p) /\ OriginFor(p) = <<p.role, p.part>>
      BY <2>1 DEF BuildDataAccessRolePolicy, RuleFor, OriginFor
    <3> HIDE DEF p
    <3> QED  BY <1>1, <3>1, <3>2
  <2>2. CASE BuildDataAccessPolicy
    BY <2>2 DEF BuildDataAccessPolicy, RuleFor, OriginFor
  <2> QED  BY <2>1, <2>2
<1>3. ToSet(parts) = {p} \cup ToSet(parts')
  BY <1>1, HeadAndTail
<1> HIDE DEF p
<1>4. IsPiece(p) /\ \A q \in ToSet(parts') : IsPiece(q)
  BY <1>1, <1>3 DEF PartsInv
<1>5. pc' = "lookup" => Made(graphMap', dap', p, ToSet(pending'))
  <2> SUFFICES ASSUME pc' = "lookup" PROVE Made(graphMap', dap', p, ToSet(pending'))
    OBVIOUS
  <2>1. /\ pending' = p.objects
        /\ dap'.rule = RuleFor(p) /\ dap'.origin = OriginFor(p) /\ dap'.members = {}
    BY <1>2 DEF NewRole
  <2> QED  BY <2>1 DEF Made, Resolves
<1>6. ASSUME NEW o \in ToSet(export), o \notin ToSet(todo), NEW q \in PiecesOf(o)
      PROVE  Accounted(q)'
  <2>1. CASE q = p
    BY <1>2, <1>5, <2>1 DEF Accounted
  <2>2. CASE q # p
    <3>1. Accounted(q)
      BY <1>1, <1>6 DEF PartsInv
    <3> QED  BY <1>1, <1>3, <2>2, <3>1 DEF Accounted
  <2> QED  BY <2>1, <2>2
<1>7. \A i \in DOMAIN built' :
         built'[i].members # {} /\ \E q : IsPiece(q)' /\ Made(graphMap', built'[i], q, {})
  BY <1>1, IsPieceStays DEF PartsInv
<1>8. ToSet(todo') \subseteq ToSet(export')
  BY <1>1 DEF PartsInv
<1> QED  BY <1>1, <1>2, <1>4, <1>5, <1>6, <1>7, <1>8, IsPieceStays DEF PartsInv

(* A principal is looked up: nothing that is made of a piece is undone. *)
LEMMA LookupAccounts ==
    ASSUME TypeOK, PoliciesInv, PartsInv, AddMember \/ SkipMember
    PROVE  PartsInv'
<1>1. PICK answer \in {"found", "missing"} :
        /\ Lookup(Head(pending), answer)
        /\ dap' = IF answer = "found"
                  THEN [dap EXCEPT !.members = @ \cup {Head(pending).principal}] ELSE dap
  BY DEF AddMember, SkipMember
<1>2. /\ pc = "lookup" /\ pc' = "lookup" /\ pending # <<>> /\ pending' = Tail(pending)
      /\ UNCHANGED <<export, todo, parts, built>> /\ export # NoExport
      /\ dap \in DataAccessPolicy
  BY DEF AddMember, SkipMember, TypeOK, Running
<1>3. CacheGrows
  BY <1>1, <1>2, LookupKeepsCache
<1>4. /\ dap'.rule = dap.rule /\ dap'.origin = dap.origin
      /\ dap'.members = IF answer = "found" THEN dap.members \cup {Head(pending).principal}
                        ELSE dap.members
  BY <1>1, <1>2 DEF DataAccessPolicy
<1>5. ASSUME NEW q, IsPiece(q) PROVE ToSet(q.objects) \subseteq Object
  BY <1>2, <1>5, PieceType DEF IsPiece
<1>6. ASSUME NEW q, IsPiece(q), Made(graphMap, dap, q, ToSet(pending))
      PROVE  Made(graphMap', dap', q, ToSet(pending'))
  <2>1. Resolves(graphMap', dap'.members, ToSet(q.objects), ToSet(pending'))
    BY <1>1, <1>2, <1>4, <1>5, <1>6, MemberResolves DEF Made
  <2> QED  BY <1>4, <1>6, <2>1 DEF Made
<1>7. ASSUME NEW q, IsPiece(q), NEW i \in DOMAIN built, Made(graphMap, built[i], q, {})
      PROVE  Made(graphMap', built'[i], q, {})
  <2>1. built[i].members \subseteq Principal
    <3>1. built[i] \in DataAccessPolicy
      BY <1>7 DEF TypeOK
    <3> QED  BY <3>1 DEF DataAccessPolicy
  <2> QED  BY <1>2, <1>3, <1>5, <1>7, <2>1, MadeStays
<1>8. ASSUME NEW o \in ToSet(export), o \notin ToSet(todo), NEW q \in PiecesOf(o)
      PROVE  Accounted(q)'
  <2>1. Accounted(q) /\ IsPiece(q)
    BY <1>2, <1>8 DEF PartsInv, IsPiece
  <2>2. Resolves(graphMap, {}, ToSet(q.objects), {}) => Resolves(graphMap', {}, ToSet(q.objects), {})
    BY <1>3, <1>5, <2>1, ResolvedStay
  <2> QED  BY <1>2, <1>6, <1>7, <2>1, <2>2 DEF Accounted
<1>9. \A i \in DOMAIN built' :
         built'[i].members # {} /\ \E q : IsPiece(q)' /\ Made(graphMap', built'[i], q, {})
  BY <1>2, <1>7, IsPieceStays DEF PartsInv
<1>10. \E q : IsPiece(q)' /\ Made(graphMap', dap', q, ToSet(pending'))
  BY <1>2, <1>6, IsPieceStays DEF PartsInv
<1>11. ToSet(todo') \subseteq ToSet(export') /\ \A q \in ToSet(parts') : IsPiece(q)'
  BY <1>2, IsPieceStays DEF PartsInv
<1> QED  BY <1>2, <1>8, <1>9, <1>10, <1>11 DEF PartsInv

(* The role under way is built, or nobody in it is known. *)
LEMMA FinishAccounts ==
    ASSUME TypeOK, PartsInv, FinishRole
    PROVE  PartsInv'
<1>1. /\ pc = "lookup" /\ pc' = "build" /\ ToSet(pending) = {} /\ built \in Seq(DataAccessPolicy)
      /\ UNCHANGED <<export, todo, parts, graphMap>>
  BY DEF FinishRole, TypeOK, agent, ToSet
<1>2. PICK p : IsPiece(p) /\ Made(graphMap, dap, p, {})
  BY <1>1 DEF PartsInv
<1>3. built' = IF dap.members # {} THEN Append(built, dap) ELSE built
  BY DEF FinishRole
<1>4. /\ \A i \in DOMAIN built : i \in DOMAIN built' /\ built'[i] = built[i]
      /\ \A i \in DOMAIN built' : i \in DOMAIN built \/ (built'[i] = dap /\ dap.members # {})
      /\ dap.members # {} => \E i \in DOMAIN built' : built'[i] = dap
  BY <1>1, <1>3, AppendProperties
<1>5. ASSUME NEW o \in ToSet(export), o \notin ToSet(todo), NEW q \in PiecesOf(o)
      PROVE  Accounted(q)'
  <2>1. Accounted(q)
    BY <1>1, <1>5 DEF PartsInv
  <2>2. CASE Made(graphMap, dap, q, {}) /\ dap.members # {}
    BY <1>1, <1>4, <2>2 DEF Accounted
  <2>3. CASE Made(graphMap, dap, q, {}) /\ dap.members = {}
    BY <1>1, <2>3 DEF Accounted, Made
  <2>4. CASE ~Made(graphMap, dap, q, {})
    BY <1>1, <1>4, <2>1, <2>4 DEF Accounted
  <2> QED  BY <2>2, <2>3, <2>4
<1>6. ASSUME NEW i \in DOMAIN built'
      PROVE  built'[i].members # {} /\ \E q : IsPiece(q)' /\ Made(graphMap', built'[i], q, {})
  <2>1. CASE i \in DOMAIN built
    BY <1>1, <1>4, <2>1, IsPieceStays DEF PartsInv
  <2>2. CASE i \notin DOMAIN built
    BY <1>1, <1>2, <1>4, <1>6, <2>2, IsPieceStays
  <2> QED  BY <2>1, <2>2
<1>7. ToSet(todo') \subseteq ToSet(export') /\ \A q \in ToSet(parts') : IsPiece(q)'
  BY <1>1, IsPieceStays DEF PartsInv
<1> QED  BY <1>1, <1>5, <1>6, <1>7 DEF PartsInv

LEMMA NextParts == TypeOK /\ PoliciesInv /\ PartsInv /\ [Next]_vars => PartsInv'
<1> SUFFICES ASSUME TypeOK, PoliciesInv, PartsInv, [Next]_vars PROVE PartsInv'
  OBVIOUS
<1>1. CASE UNCHANGED vars \/ Environment
  <2>1. UNCHANGED <<pc, export, todo, parts, dap, pending, built, graphMap>>
    BY <1>1 DEF vars, locals, work, agent, Environment, AdminCreate, AdminEdit, AdminDelete
  <2>2. \A q : Accounted(q) => Accounted(q)'
    BY <2>1 DEF Accounted
  <2> QED  BY <2>1, <2>2, IsPieceStays DEF PartsInv
<1>2. CASE Run \/ ApplyAgain \/ (MapPolicy /\ pc' = "apply")
  <2>1. built' = <<>> /\ pc' \notin {"build", "lookup"}
    BY <1>2 DEF Run, ApplyAgain, MapPolicy, End, Resting, PoliciesInv, locals
  <2> QED  BY <2>1, RestParts
<1>3. CASE GetCurrentAccessPolicy
  <2>1. /\ pc' = "build" /\ parts' = <<>> /\ built' = <<>> /\ todo' = export /\ export' = export
    BY <1>3 DEF GetCurrentAccessPolicy, PoliciesInv
  <2> QED  BY <2>1 DEF PartsInv, ToSet
<1>4. CASE SplitNextPolicy
  BY <1>4, SplitAccounts
<1>5. CASE BuildDataAccessRolePolicy \/ BuildDataAccessPolicy
  BY <1>5, BuildAccounts
<1>6. CASE AddMember \/ SkipMember
  BY <1>6, LookupAccounts
<1>7. CASE FinishRole
  BY <1>7, FinishAccounts
<1>8. CASE \/ MapPolicy /\ pc' # "apply"
           \/ CallDocumentedHandler \/ WarnNoMembers \/ PutRefused \/ NothingToSync \/ Fail
           \/ PutDataAccessPolicy \/ PutWithoutAnswer
  <2>1. built' = <<>> /\ pc' \notin {"build", "lookup"}
    BY <1>8 DEF MapPolicy, CallDocumentedHandler, WarnNoMembers, PutRefused, NothingToSync, Fail,
                PutDataAccessPolicy, PutWithoutAnswer, End
  <2> QED  BY <2>1, RestParts
<1> QED  BY <1>1, <1>2, <1>3, <1>4, <1>5, <1>6, <1>7, <1>8 DEF Next, Progress

LEMMA PartsInvariant == Spec => [](TypeOK /\ PoliciesInv /\ PartsInv)
<1>1. Init => PartsInv
  BY InitParts
<1>2. TypeOK /\ PoliciesInv /\ PartsInv /\ [Next]_vars => PartsInv'
  BY NextParts
<1> QED  BY <1>1, <1>2, PoliciesInvariant, PTL DEF Spec

-------------------------------------------------------------------------------
(* No path is lost *)

(* Whoever is in one role of a policy is known in all of them. *)
LEMMA KnownIsKnown ==
    ASSUME GroupsApart, TypeOK, PoliciesInv, NEW p \in ToSet(export), export # NoExport,
           NEW members, NEW m \in members,
           Resolves(graphMap, members, ToSet(p.objects), {})
    PROVE  ~Resolves(graphMap, {}, ToSet(p.objects), {})
<1> SUFFICES ASSUME Resolves(graphMap, {}, ToSet(p.objects), {}) PROVE FALSE
  OBVIOUS
<1>1. PICK o \in ToSet(p.objects) : o.principal = m /\ (o.known \/ graphMap[m] = "found")
  BY DEF Resolves
<1>2. Taken(graphMap, o, {})
  BY DEF Resolves
<1>3. PICK i \in DOMAIN export : p = export[i]
  BY DEF ToSet
<1>4. o \in Object /\ export \in Export
  BY <1>3, ObjectsType DEF PoliciesInv
<1>5. ~o.known /\ graphMap[m] = "found" /\ o.kind = "GROUP" /\ m \in Principal
  BY <1>1, <1>2, <1>4 DEF Taken, Object
<1>6. Exported(o)
  BY <1>3, <1>4, <1>5 DEF Exported
<1>7. PICK u \in Object : Exported(u) /\ u.principal = m /\ u.kind # "GROUP"
  BY <1>5 DEF PoliciesInv, CacheInv
<1> QED  BY <1>1, <1>4, <1>5, <1>6, <1>7 DEF GroupsApart

LEMMA AllAccounted ==
    ASSUME TypeOK, PartsInv, AllBuilt, NEW p \in ToSet(export), NEW q \in PiecesOf(p)
    PROVE  \/ RuleFor(q).paths = {}
           \/ \E i \in DOMAIN built : Made(graphMap, built[i], q, {})
           \/ Resolves(graphMap, {}, ToSet(q.objects), {})
<1>1. pc = "build" /\ ToSet(todo) = {} /\ ToSet(parts) = {}
  BY DEF AllBuilt, ToSet
<1>2. Accounted(q)
  BY <1>1 DEF PartsInv
<1> QED  BY <1>1, <1>2 DEF Accounted

LEMMA PathsAreKept ==
    ASSUME PoliciesApart, GroupsApart, TypeOK, PoliciesInv, PartsInv
    PROVE  SplitKeepsEveryPath
<1> SUFFICES ASSUME RoleBased, AllBuilt
             PROVE  /\ \A b \in DOMAIN built : Cardinality(built[b].rule.paths) <= MaxScopes
                    /\ \A i \in DOMAIN export :
                         PathsOf(export[i].role) \in {{}, RuleOf(export[i]).paths}
  BY DEF SplitKeepsEveryPath
<1>1. export # NoExport /\ export \in Export /\ export \in Seq(RolePolicy)
  BY DEF AllBuilt, TypeOK, Running, PoliciesInv, Policy
<1>2. ASSUME NEW b \in DOMAIN built
      PROVE  \E p \in ToSet(export) : \E q \in PiecesOf(p) :
               /\ built[b].rule = RuleOf(q) /\ built[b].origin[1] = p.role
               /\ Resolves(graphMap, built[b].members, ToSet(p.objects), {})
               /\ built[b].members # {}
  <2>1. PICK p \in ToSet(export) : \E q \in PiecesOf(p) : Made(graphMap, built[b], q, {})
    BY DEF PartsInv, IsPiece
  <2>5. PICK q \in PiecesOf(p) : Made(graphMap, built[b], q, {})
    BY <2>1
  <2>2. q.role = p.role /\ q.objects = p.objects
    BY <1>1, PieceType DEF SameSource
  <2>3. built[b].rule = RuleOf(q) /\ built[b].origin = <<q.role, q.part>>
    BY <2>5 DEF Made, RuleFor, OriginFor
  <2>4. built[b].members # {}
    BY DEF PartsInv
  <2> QED  BY <2>5, <2>2, <2>3, <2>4 DEF Made
<1>3. ASSUME NEW b \in DOMAIN built PROVE Cardinality(built[b].rule.paths) <= MaxScopes
  <2>1. PICK p \in ToSet(export) : \E q \in PiecesOf(p) : built[b].rule = RuleOf(q)
    BY <1>2
  <2>2. p \in RolePolicy
    BY <1>1, InSequence
  <2> QED  BY <2>1, <2>2, RulesOfPieces
<1>4. ASSUME NEW i \in DOMAIN export, PathsOf(export[i].role) # {}
      PROVE  PathsOf(export[i].role) = RuleOf(export[i]).paths
  <2> DEFINE p == export[i]
  <2>1. p \in RolePolicy /\ p \in ToSet(export)
    BY <1>1 DEF ToSet
  <2>2. \A o \in ToSet(export) : o.role = p.role => o = p
    BY <1>1 DEF PoliciesApart, SameSource, ToSet
  <2> HIDE DEF p
  <2>3. ASSUME NEW b \in DOMAIN built, built[b].origin[1] = p.role
        PROVE  /\ built[b].rule.paths \subseteq RuleOf(p).paths
               /\ built[b].members # {}
               /\ Resolves(graphMap, built[b].members, ToSet(p.objects), {})
    <3>1. PICK o \in ToSet(export) : \E q \in PiecesOf(o) :
            /\ built[b].rule = RuleOf(q) /\ built[b].origin[1] = o.role
            /\ Resolves(graphMap, built[b].members, ToSet(o.objects), {})
            /\ built[b].members # {}
      BY <1>2
    <3>2. o = p
      BY <2>2, <2>3, <3>1
    <3> QED  BY <2>1, <3>1, <3>2, RulesOfPieces
  <2>4. PICK b \in DOMAIN built : built[b].origin[1] = p.role
    BY <1>4 DEF PathsOf, p
  <2>5. ~Resolves(graphMap, {}, ToSet(p.objects), {})
    BY <1>1, <2>1, <2>3, <2>4, KnownIsKnown
  <2>6. ASSUME NEW path \in RuleOf(p).paths
        PROVE  \E c \in DOMAIN built : built[c].origin[1] = p.role /\ path \in built[c].rule.paths
    <3>1. PICK q \in PiecesOf(p) : path \in RuleOf(q).paths
      BY <2>1, RulesOfPieces
    <3>2. q.role = p.role /\ q.objects = p.objects
      BY <1>1, <2>1, PieceType DEF SameSource
    <3>3. PICK c \in DOMAIN built : Made(graphMap, built[c], q, {})
      BY <2>1, <2>5, <3>1, <3>2, AllAccounted DEF RuleFor
    <3>4. built[c].rule = RuleOf(q) /\ built[c].origin = <<q.role, q.part>>
      BY <3>3 DEF Made, RuleFor, OriginFor
    <3> QED  BY <3>1, <3>2, <3>4
  <2>7. PathsOf(p.role) = RuleOf(p).paths
    BY <2>3, <2>6 DEF PathsOf
  <2> QED  BY <2>7 DEF p
<1> QED  BY <1>3, <1>4

(* A policy with more scopes than Fabric takes loses none of them: once    *)
(* all is built, its parts open what the whole would have, or nobody in it *)
(* is known and it has no role; and no part exceeds the limit              *)
(* (weaver.py:215-236).                                                    *)
THEOREM PathsSurviveSplitting ==
    ASSUME PoliciesApart, GroupsApart
    PROVE  Spec => []SplitKeepsEveryPath
<1>1. TypeOK /\ PoliciesInv /\ PartsInv => SplitKeepsEveryPath
  BY PathsAreKept
<1> QED  BY <1>1, PartsInvariant, PTL
===============================================================================
