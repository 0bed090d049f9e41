--------------------------- MODULE WeaverNamesProofs ---------------------------
(***************************************************************************)
(* Theorems about the names of WeaverAgent, for every value of its         *)
(* constants: a request never names a role twice, so that a run whose      *)
(* services answer is not refused, and a role that is built again is the   *)
(* one it updates.                                                         *)
(***************************************************************************)
EXTENDS WeaverPolicyProofs

-------------------------------------------------------------------------------
(* What the theorems assume of a configuration *)

(* The words the names of a run are made of: those of the sanitised names  *)
(* of the source's roles, of the suffix, and the two the weaver adds.      *)
OwnWord ==
    {"Part", "ID"}
    \cup {w \in Word : \/ <<"word", w>> \in ToSet(Suffix) \cup ToSet(CleanSuffix)
                       \/ \E r \in SourceRole : <<"word", w>> \in ToSet(Stem[r])}
OwnToken == ({"word"} \X OwnWord) \cup ({"number"} \X Nat)

(* No two of them are one word in two spellings.  The names in use are     *)
(* compared with case, Fabric compares without (weaver.py:690).            *)
OneSpelling == \A v, w \in OwnWord : LowerCase[v] = LowerCase[w] => v = w

(* The role a name was first given to: sanitising and numbering parts do   *)
(* not make the names of two policies, or of two parts, meet.              *)
NameOf(origin) ==
    IF RoleBased
    THEN BaseName(PartStem([role |-> origin[1], part |-> origin[2]]))
    ELSE TableStem[origin] \o CleanSuffix
NamesApart ==
    RoleBased =>
        \A r, s \in SourceRole : \A m, n \in Nat :
            NameOf(<<r, m>>) = NameOf(<<s, n>>) => r = s /\ m = n

-------------------------------------------------------------------------------
(* The names of a request *)

(* The item never holds two roles of one name, nor does the listing.       *)
ListedApart == NamesDistinct(fabric) /\ NamesDistinct(current)

(* Every name in use is made of the run's own words. *)
OwnNames == RoleBased => usedNames \subseteq Seq(OwnToken)

RequestInv == ListedApart /\ OwnNames

(* A role that is built again is named after its policy and part, and no   *)
(* name is in use that a policy or part still to come will be given.       *)
NamedByOrigin ==
    /\ \A r \in fabric \cup current : r.origin # Admin => r.name = NameOf(r.origin)
    /\ \A i \in DOMAIN built : built[i].name = NameOf(built[i].origin)
    /\ pc = "lookup" => dap.name = NameOf(dap.origin)
WorkApart ==
    /\ \A i, j \in DOMAIN todo : todo[i].role = todo[j].role => i = j
    /\ \A i, j \in DOMAIN parts : /\ parts[i].role = parts[j].role
                                  /\ (parts[i].part = parts[j].part => i = j)
    /\ \A i \in DOMAIN parts, j \in DOMAIN todo : parts[i].role # todo[j].role
NamesToCome ==
    /\ \A i \in DOMAIN todo : \A n \in Nat : NameOf(<<todo[i].role, n>>) \notin usedNames
    /\ \A i \in DOMAIN parts : NameOf(<<parts[i].role, parts[i].part>>) \notin usedNames
FreshInv ==
    /\ pc \notin {"build", "lookup"} => usedNames = {} /\ todo = <<>> /\ parts = <<>>
    /\ RoleBased => WorkApart /\ NamesToCome

LEMMA OwnWords == OwnWord \subseteq Word /\ OwnToken \subseteq Token
BY AgentAssumption DEF OwnWord, OwnToken, Token

(* Two names made of the run's own words that are one to Fabric are one.   *)
LEMMA OwnNamesApart ==
    ASSUME OneSpelling, NEW m \in Seq(OwnToken), NEW n \in Seq(OwnToken), Lower(m) = Lower(n)
    PROVE  m = n
<1>1. ASSUME NEW s \in OwnToken, NEW t \in OwnToken, LowerToken(s) = LowerToken(t)
      PROVE  s = t
  <2>1. CASE s \in {"word"} \X OwnWord /\ t \in {"word"} \X OwnWord
    <3>1. LowerCase[s[2]] = LowerCase[t[2]]
      BY <1>1, <2>1 DEF LowerToken
    <3>2. s[2] = t[2]
      BY <2>1, <3>1 DEF OneSpelling
    <3> QED  BY <2>1, <3>2
  <2>2. CASE s \in {"number"} \X Nat /\ t \in {"number"} \X Nat
    BY <1>1, <2>2 DEF LowerToken
  <2>3. CASE s \in {"word"} \X OwnWord /\ t \in {"number"} \X Nat
    BY <1>1, <2>3 DEF LowerToken
  <2>4. CASE s \in {"number"} \X Nat /\ t \in {"word"} \X OwnWord
    BY <1>1, <2>4 DEF LowerToken
  <2> QED  BY <2>1, <2>2, <2>3, <2>4 DEF OwnToken
<1>2. m \in Name /\ n \in Name
  BY OwnWords DEF Name
<1>3. /\ Len(Lower(m)) = Len(m) /\ \A i \in 1 .. Len(m) : Lower(m)[i] = LowerToken(m[i])
      /\ Len(Lower(n)) = Len(n) /\ \A i \in 1 .. Len(n) : Lower(n)[i] = LowerToken(n[i])
  BY <1>2, LowerProperties
<1>4. Len(m) = Len(n) /\ \A i \in 1 .. Len(m) : LowerToken(m[i]) = LowerToken(n[i])
  BY <1>3
<1>5. \A i \in 1 .. Len(m) : m[i] \in OwnToken /\ n[i] \in OwnToken
  BY <1>4
<1>6. \A i \in 1 .. Len(m) : m[i] = n[i]
  BY <1>1, <1>4, <1>5
<1> QED  BY <1>4, <1>6, SeqEqual

LEMMA OwnSequence ==
    ASSUME NEW s \in Seq(Token), \A w \in Word : <<"word", w>> \in ToSet(s) => w \in OwnWord
    PROVE  s \in Seq(OwnToken)
<1>1. ASSUME NEW i \in 1 .. Len(s) PROVE s[i] \in OwnToken
  <2>1. s[i] \in Token /\ s[i] \in ToSet(s)
    BY DEF ToSet
  <2>2. CASE s[i] \in {"number"} \X Nat
    BY <2>2 DEF OwnToken
  <2>3. CASE s[i] \in {"word"} \X Word
    <3>1. s[i] = <<"word", s[i][2]>> /\ s[i][2] \in Word
      BY <2>3
    <3>2. s[i][2] \in OwnWord
      BY <2>1, <3>1
    <3> QED  BY <3>1, <3>2 DEF OwnToken
  <2> QED  BY <2>1, <2>2, <2>3 DEF Token
<1>2. s \in [1 .. Len(s) -> OwnToken] /\ Len(s) \in Nat
  BY <1>1
<1> QED  BY <1>2

LEMMA OwnParts ==
    /\ Suffix \in Seq(OwnToken) /\ CleanSuffix \in Seq(OwnToken)
    /\ \A r \in SourceRole : Stem[r] \in Seq(OwnToken)
<1>1. /\ Suffix \in Seq(Token) /\ CleanSuffix \in Seq(Token)
      /\ \A r \in SourceRole : Stem[r] \in Seq(Token)
  BY AgentAssumption
<1>2. /\ \A w \in Word : <<"word", w>> \in ToSet(Suffix) => w \in OwnWord
      /\ \A w \in Word : <<"word", w>> \in ToSet(CleanSuffix) => w \in OwnWord
      /\ \A r \in SourceRole : \A w \in Word : <<"word", w>> \in ToSet(Stem[r]) => w \in OwnWord
  BY DEF OwnWord
<1> QED  BY <1>1, <1>2, OwnSequence

LEMMA OwnBaseName ==
    ASSUME NEW p \in RolePolicy
    PROVE  BaseName(PartStem(p)) \in Seq(OwnToken)
<1>1. Stem[p.role] \in Seq(OwnToken) /\ p.part \in Nat
  BY OwnParts DEF RolePolicy
<1>2. << <<"word", "Part">>, <<"number", p.part>> >> \in Seq(OwnToken)
  BY <1>1 DEF OwnToken, OwnWord
<1>3. PartStem(p) \in Seq(OwnToken)
  BY <1>1, <1>2, ConcatProperties DEF PartStem
<1>4. PartStem(p) \o CleanSuffix \in Seq(OwnToken)
  BY <1>3, OwnParts, ConcatProperties
<1>5. << <<"word", "ID">> >> \in Seq(OwnToken)
  BY DEF OwnToken, OwnWord
<1>6. << <<"word", "ID">> >> \o (PartStem(p) \o CleanSuffix) \in Seq(OwnToken)
  BY <1>4, <1>5, ConcatProperties
<1> QED  BY <1>4, <1>6 DEF BaseName

LEMMA OwnFreshName ==
    ASSUME NEW base \in Seq(OwnToken), NEW used, NEW name \in FreshName(base, used)
    PROVE  name \in Seq(OwnToken)
<1>1. ASSUME NEW k \in Nat PROVE NumberedName(base, k) \in Seq(OwnToken)
  <2> DEFINE stem == IF Suffix = <<>> THEN <<>>
                     ELSE SubSeq(base, 1, Len(base) - Len(Suffix))
  <2>1. SubSeq(base, 1, Len(base) - Len(Suffix)) \in Seq(OwnToken)
    <3>1. Len(base) - Len(Suffix) \in Int
      BY OwnParts
    <3>2. \A i \in 1 .. Len(base) - Len(Suffix) : base[i] \in OwnToken
      BY OwnParts
    <3> QED  BY <3>1, <3>2, SubSeqProperties
  <2>2. stem \in Seq(OwnToken)
    BY <2>1
  <2>3. << <<"number", k>> >> \in Seq(OwnToken)
    BY DEF OwnToken
  <2> HIDE DEF stem
  <2>4. stem \o << <<"number", k>> >> \in Seq(OwnToken)
    BY <2>2, <2>3, ConcatProperties
  <2>5. (stem \o << <<"number", k>> >>) \o Suffix \in Seq(OwnToken)
    BY <2>4, OwnParts, ConcatProperties
  <2> QED  BY <2>5 DEF NumberedName, stem
<1>2. name = base \/ \E k \in Nat : name = NumberedName(base, k)
  BY AgentAssumption DEF FreshName
<1> QED  BY <1>1, <1>2

-------------------------------------------------------------------------------
(* No request names a role twice *)

LEMMA RequestApart ==
    ASSUME SuffixSurvives, OneSpelling, RoleBased,
           TypeOK, NamesInv, MergeInv, RequestInv, AllBuilt
    PROVE  RequestDistinct
<1>1. ASSUME NEW i \in DOMAIN built, NEW j \in DOMAIN built, SameName(built[i], built[j])
      PROVE  i = j
  <2>1. built[i].name \in Seq(OwnToken) /\ built[j].name \in Seq(OwnToken)
    BY DEF NamesInv, NamesInUse, RequestInv, OwnNames
  <2>2. built[i].name = built[j].name
    BY <1>1, <2>1, OwnNamesApart DEF SameName
  <2> QED  BY <2>2 DEF NamesInv, BuiltNamesDistinct
<1>2. ASSUME NEW i \in DOMAIN built, NEW r \in UnmanagedPolicies PROVE ~SameName(WithId(i), r)
  <2>1. EndsWithSuffix(built[i].name) /\ ~EndsWithSuffix(r.name)
    BY DEF MergeInv, BuiltBearSuffix, UnmanagedPolicies
  <2>2. WithId(i).name = built[i].name
    BY WithIdIsBuilt
  <2> QED  BY <2>1, <2>2 DEF SameName, EndsWithSuffix
<1>3. ASSUME NEW p \in UnmanagedPolicies, NEW r \in UnmanagedPolicies, SameName(p, r)
      PROVE  p = r
  BY <1>3 DEF UnmanagedPolicies, RequestInv, ListedApart, NamesDistinct
<1>4. ASSUME NEW i \in DOMAIN built, NEW j \in DOMAIN built, SameName(WithId(i), WithId(j))
      PROVE  WithId(i) = WithId(j)
  <2>1. WithId(i).name = built[i].name /\ WithId(j).name = built[j].name
    BY WithIdIsBuilt
  <2>2. SameName(built[i], built[j])
    BY <1>4, <2>1 DEF SameName
  <2> QED  BY <1>1, <2>2
<1>5. NamesDistinct(Request)
  <2> SUFFICES ASSUME NEW p \in Request, NEW r \in Request, SameName(p, r) PROVE p = r
    BY DEF NamesDistinct
  <2>1. SameName(r, p)
    BY DEF SameName
  <2> QED  BY <1>2, <1>3, <1>4, <2>1 DEF Request
<1> QED  BY <1>1, <1>5 DEF RequestDistinct

(* Fabric stores a request under the names it brings. *)
LEMMA PutListedApart ==
    ASSUME TypeOK, Put
    PROVE  NamesDistinct(fabric')
<1>1. PICK f : fabric' = {IF q.id = NoId THEN [q EXCEPT !.id = f[q]] ELSE q : q \in Request}
  BY DEF Put, Stored
<1> DEFINE kept(q) == IF q.id = NoId THEN [q EXCEPT !.id = f[q]] ELSE q
<1>2. ASSUME NEW q \in Request PROVE kept(q).name = q.name
  <2>1. q \in DataAccessPolicy
    BY RequestType
  <2> QED  BY <2>1 DEF DataAccessPolicy
<1>3. fabric' = {kept(q) : q \in Request}
  BY <1>1
<1> HIDE DEF kept
<1>4. ASSUME NEW p \in fabric', NEW r \in fabric', SameName(p, r) PROVE p = r
  <2>1. PICK a \in Request, b \in Request : p = kept(a) /\ r = kept(b)
    BY <1>3
  <2>2. SameName(a, b)
    BY <1>2, <1>4, <2>1 DEF SameName
  <2>3. a = b
    BY <2>2 DEF Put, RequestDistinct, NamesDistinct
  <2> QED  BY <2>1, <2>3
<1> QED  BY <1>4 DEF NamesDistinct

LEMMA AdminsKeepApart ==
    ASSUME TypeOK, NamesDistinct(fabric), Environment
    PROVE  NamesDistinct(fabric')
<1>1. ASSUME NEW name \in AdminName, NEW members \in AdminMembers, AdminCreate(name, members)
      PROVE  NamesDistinct(fabric')
  <2>1. PICK role : fabric' = fabric \cup {role} /\ \A r \in fabric : ~SameName(r, role)
    BY <1>1 DEF AdminCreate
  <2> QED  BY <2>1 DEF NamesDistinct, SameName
<1>2. ASSUME NEW role \in fabric, NEW members \in AdminMembers, AdminEdit(role, members)
      PROVE  NamesDistinct(fabric')
  <2> DEFINE new == [role EXCEPT !.members = members, !.origin = Admin]
  <2>1. new.name = role.name
    BY DEF TypeOK, DataAccessPolicy
  <2>2. fabric' = (fabric \ {role}) \cup {new}
    BY <1>2 DEF AdminEdit
  <2> HIDE DEF new
  <2> QED  BY <2>1, <2>2 DEF NamesDistinct, SameName
<1>3. ASSUME NEW role \in fabric, AdminDelete(role) PROVE NamesDistinct(fabric')
  BY <1>3 DEF AdminDelete, NamesDistinct
<1> QED  BY <1>1, <1>2, <1>3 DEF Environment

LEMMA InitRequest == Init => RequestInv
BY DEF Init, RequestInv, ListedApart, NamesDistinct, OwnNames

LEMMA NextRequest == TypeOK /\ RequestInv /\ [Next]_vars => RequestInv'
<1> SUFFICES ASSUME TypeOK, RequestInv, [Next]_vars PROVE RequestInv'
  OBVIOUS
<1>1. ASSUME usedNames' = usedNames \/ usedNames' = {} PROVE OwnNames'
  BY <1>1 DEF RequestInv, OwnNames
<1>2. ASSUME fabric' = fabric, current' \in {current, fabric, {}} PROVE ListedApart'
  BY <1>2 DEF RequestInv, ListedApart, NamesDistinct
<1>3. CASE UNCHANGED vars \/ Run \/ ApplyAgain \/ GetCurrentAccessPolicy \/ SplitNextPolicy
           \/ BuildDataAccessPolicy \/ AddMember \/ SkipMember \/ FinishRole
  <2>1. /\ usedNames' = usedNames \/ usedNames' = {}
        /\ fabric' = fabric /\ current' \in {current, fabric, {}}
    BY <1>3 DEF vars, locals, agent, Run, NewAgent, ApplyAgain, GetCurrentAccessPolicy,
                SplitNextPolicy, BuildDataAccessPolicy, AddMember, SkipMember, FinishRole
  <2> QED  BY <1>1, <1>2, <2>1 DEF RequestInv
<1>4. CASE MapPolicy \/ CallDocumentedHandler \/ WarnNoMembers \/ PutRefused \/ NothingToSync \/ Fail
  <2>1. /\ usedNames' = usedNames \/ usedNames' = {}
        /\ fabric' = fabric /\ current' \in {current, fabric, {}}
    BY <1>4 DEF MapPolicy, CallDocumentedHandler, WarnNoMembers, PutRefused, NothingToSync, Fail,
                End, agent, NewAgent
  <2> QED  BY <1>1, <1>2, <2>1 DEF RequestInv
<1>5. CASE BuildDataAccessRolePolicy
  <2> DEFINE p == Head(parts)
  <2>1. p \in RolePolicy
    BY <1>5, HeadTailProperties DEF BuildDataAccessRolePolicy, TypeOK, Policy
  <2>2. PICK name \in FreshName(BaseName(PartStem(p)), usedNames) :
             usedNames' = usedNames \cup {name}
    BY <1>5 DEF BuildDataAccessRolePolicy
  <2>3. name \in Seq(OwnToken)
    BY <2>1, <2>2, OwnBaseName, OwnFreshName
  <2>4. OwnNames'
    BY <2>2, <2>3 DEF RequestInv, OwnNames
  <2>5. UNCHANGED <<fabric, current>>
    BY <1>5 DEF BuildDataAccessRolePolicy
  <2> QED  BY <1>2, <2>4, <2>5 DEF RequestInv
<1>6. CASE PutDataAccessPolicy \/ PutWithoutAnswer
  <2>1. /\ Put /\ current' = {}
        /\ usedNames' = usedNames \/ usedNames' = {}
    BY <1>6 DEF PutDataAccessPolicy, PutWithoutAnswer, End, agent, NewAgent
  <2> QED  BY <1>1, <2>1, PutListedApart DEF RequestInv, ListedApart, NamesDistinct
<1>7. CASE Environment
  <2>1. UNCHANGED <<current, usedNames>>
    BY <1>7 DEF Environment, AdminCreate, AdminEdit, AdminDelete, agent
  <2>2. NamesDistinct(fabric')
    BY <1>7, AdminsKeepApart DEF RequestInv, ListedApart
  <2> QED  BY <1>1, <2>1, <2>2 DEF RequestInv, ListedApart, NamesDistinct
<1> QED  BY <1>3, <1>4, <1>5, <1>6, <1>7 DEF Next, Progress

LEMMA RequestInvariant ==
    ASSUME SuffixSurvives
    PROVE  Spec => [](TypeOK /\ NamesInv /\ MergeInv /\ RequestInv)
<1>1. Init => NamesInv /\ RequestInv
  BY InitNames, InitRequest
<1>2. TypeOK /\ NamesInv /\ [Next]_vars => NamesInv'
  BY NextNames
<1>3. TypeOK /\ RequestInv /\ [Next]_vars => RequestInv'
  BY NextRequest
<1> QED  BY <1>1, <1>2, <1>3, TypeCorrect, MergeInvariant, PTL DEF Spec

(* Whatever the source's roles are called, whatever administrators call    *)
(* theirs and however often the agent is used: what is built and what is   *)
(* carried over never meet, up to case, if the suffix survives sanitising  *)
(* and the run's own words come in one spelling (weaver.py:264-293,        *)
(* 690-698).                                                               *)
THEOREM RequestsAreDistinct ==
    ASSUME SuffixSurvives, OneSpelling, RoleBased
    PROVE  Spec => []RequestNamesDistinct
<1>1. TypeOK /\ NamesInv /\ MergeInv /\ RequestInv => RequestNamesDistinct
  BY RequestApart DEF RequestNamesDistinct
<1> QED  BY <1>1, RequestInvariant, PTL

(* Then a run fails only when a service or a handler of the caller does:   *)
(* no export, no name and no principal makes it raise (weaver.py:612-614,  *)
(* 825-835, 921-931).                                                      *)
THEOREM OnlyServicesFail ==
    ASSUME SuffixSurvives, OneSpelling, RoleBased,
           ~ServicesFail, "documented" \notin UnmappedHandler
    PROVE  Spec => []RunsSucceed
<1>1. Init => RunsSucceed
  BY DEF Init, RunsSucceed
<1>2. ASSUME TypeOK, NamesInv, MergeInv, RequestInv, RunsSucceed, [Next]_vars PROVE RunsSucceed'
  <2>1. ~PutRefused
    BY <1>2, RequestApart DEF PutRefused
  <2>2. ~CallDocumentedHandler /\ ~WarnNoMembers /\ ~PutWithoutAnswer /\ ~Fail
    BY DEF CallDocumentedHandler, WarnNoMembers, PutWithoutAnswer, Fail
  <2>3. CASE UNCHANGED vars \/ Environment \/ Run \/ ApplyAgain
    BY <1>2, <2>3 DEF RunsSucceed, vars, Environment, AdminCreate, AdminEdit, AdminDelete,
                      Run, ApplyAgain
  <2>4. CASE Progress
    BY <1>2, <2>1, <2>2, <2>4
       DEF RunsSucceed, Progress, MapPolicy, End, GetCurrentAccessPolicy, SplitNextPolicy,
           BuildDataAccessRolePolicy, BuildDataAccessPolicy, AddMember, SkipMember,
           FinishRole, PutDataAccessPolicy, NothingToSync
  <2> QED  BY <1>2, <2>2, <2>3, <2>4 DEF Next
<1> QED  BY <1>1, <1>2, RequestInvariant, PTL DEF Spec

-------------------------------------------------------------------------------
(* A role that is built again keeps its id *)

LEMMA NameOfPolicy ==
    ASSUME NEW p \in RolePolicy, RoleBased
    PROVE  /\ NameOf(<<p.role, p.part>>) = BaseName(PartStem(p))
           /\ p.role \in SourceRole /\ p.part \in Nat
BY DEF NameOf, PartStem, RolePolicy

(* Parts are numbered, one after the other. *)
LEMMA PartsAreNumbered ==
    ASSUME NEW p \in RolePolicy
    PROVE  \A i, j \in DOMAIN SplitPermissionScopes(p) :
             SplitPermissionScopes(p)[i].part = SplitPermissionScopes(p)[j].part => i = j
<1>1. CASE Len(p.scopes) <= MaxScopes
  <2>1. SplitPermissionScopes(p) = <<p>>
    BY <1>1 DEF SplitPermissionScopes
  <2> QED  BY <2>1
<1>2. CASE ~(Len(p.scopes) <= MaxScopes)
  <2> DEFINE total == (Len(p.scopes) + MaxScopes - 1) \div MaxScopes
             part(j) == SplitOffNewRolePolicy(p, j, (j - 1) * MaxScopes, j * MaxScopes)
  <2>1. SplitPermissionScopes(p) = [j \in 1 .. total |-> part(j)]
    BY <1>2 DEF SplitPermissionScopes
  <2>2. \A j : part(j).part = j
    BY DEF SplitOffNewRolePolicy, RolePolicy
  <2> HIDE DEF total, part
  <2> QED  BY <2>1, <2>2
<1> QED  BY <1>1, <1>2

(* A base name that nobody uses is the name given. *)
LEMMA FirstName ==
    ASSUME NEW base, NEW used, base \notin used, NEW name \in FreshName(base, used)
    PROVE  name = base
BY DEF FreshName

LEMMA InitFresh == Init => FreshInv /\ NamedByOrigin
BY DEF Init, FreshInv, WorkApart, NamesToCome, NamedByOrigin

LEMMA EndFresh ==
    ASSUME ~ReuseAgent, NEW result \in Resting, End(result)
    PROVE  FreshInv' /\ built' = <<>> /\ current' = {} /\ pc' # "lookup"
<1>1. /\ usedNames' = {} /\ todo' = <<>> /\ parts' = <<>>
      /\ built' = <<>> /\ current' = {} /\ pc' # "lookup"
  BY DEF End, NewAgent, Resting
<1> QED  BY <1>1 DEF FreshInv, WorkApart, NamesToCome

(* The policies taken up and their parts stay apart from what is to come.  *)
LEMMA SplitFresh ==
    ASSUME RoleBased, NamesApart, TypeOK, FreshInv, SplitNextPolicy
    PROVE  FreshInv'
<1> DEFINE p == Head(todo)
<1>1. /\ p \in RolePolicy /\ todo \in Seq(RolePolicy) /\ todo # <<>> /\ parts = <<>>
      /\ parts' = SplitPermissionScopes(p) /\ todo' = Tail(todo) /\ usedNames' = usedNames
      /\ pc' = "build" /\ p = todo[1]
  BY HeadTailProperties DEF SplitNextPolicy, TypeOK, Policy, agent
<1>2. /\ DOMAIN todo' = 1 .. Len(todo) - 1 /\ DOMAIN todo = 1 .. Len(todo)
      /\ \A i \in 1 .. Len(todo) - 1 : todo'[i] = todo[i + 1] /\ i + 1 \in DOMAIN todo
      /\ 1 \in DOMAIN todo /\ Len(todo) \in Nat
  BY <1>1, HeadTailProperties
<1>3. /\ \A i, j \in DOMAIN todo : todo[i].role = todo[j].role => i = j
      /\ \A i \in DOMAIN todo : \A n \in Nat : NameOf(<<todo[i].role, n>>) \notin usedNames
  BY DEF FreshInv, WorkApart, NamesToCome
<1>4. ASSUME NEW i \in DOMAIN parts'
      PROVE  parts'[i].role = p.role /\ parts'[i].part \in Nat
  <2>1. parts'[i].role = p.role
    BY <1>1, PartsKeepTheRest
  <2>2. parts' \in Seq(RolePolicy)
    BY <1>1, SplitType
  <2>3. parts'[i] \in RolePolicy
    BY <2>2
  <2>4. parts'[i].part \in Nat
    BY <2>3 DEF RolePolicy
  <2> QED  BY <2>1, <2>4
<1>5. \A i, j \in DOMAIN parts' : parts'[i].part = parts'[j].part => i = j
  BY <1>1, PartsAreNumbered
<1>6. \A i \in DOMAIN todo' : todo'[i].role # p.role
  <2> SUFFICES ASSUME NEW i \in 1 .. Len(todo) - 1, todo'[i].role = p.role PROVE FALSE
    BY <1>2
  <2>1. todo[i + 1].role = todo[1].role /\ i + 1 \in DOMAIN todo
    BY <1>1, <1>2
  <2>2. i + 1 = 1
    BY <1>2, <1>3, <2>1
  <2> QED  BY <1>2, <2>2
<1> HIDE DEF p
<1>7. WorkApart'
  <2>1. \A i, j \in DOMAIN todo' : todo'[i].role = todo'[j].role => i = j
    <3> SUFFICES ASSUME NEW i \in 1 .. Len(todo) - 1, NEW j \in 1 .. Len(todo) - 1,
                        todo'[i].role = todo'[j].role
                 PROVE  i = j
      BY <1>2
    <3>1. todo[i + 1].role = todo[j + 1].role /\ i + 1 \in DOMAIN todo /\ j + 1 \in DOMAIN todo
      BY <1>2
    <3>2. i + 1 = j + 1
      BY <1>3, <3>1
    <3> QED  BY <3>2
  <2>2. \A i \in DOMAIN parts', j \in DOMAIN todo' : parts'[i].role # todo'[j].role
    BY <1>4, <1>6
  <2>3. \A i, j \in DOMAIN parts' : /\ parts'[i].role = parts'[j].role
                                    /\ (parts'[i].part = parts'[j].part => i = j)
    BY <1>4, <1>5
  <2> QED  BY <2>1, <2>2, <2>3, Zenon DEF WorkApart
<1>8. NamesToCome'
  <2>1. \A i \in DOMAIN todo' : \A n \in Nat : NameOf(<<todo'[i].role, n>>) \notin usedNames
    BY <1>2, <1>3
  <2>2. \A i \in DOMAIN parts' : NameOf(<<parts'[i].role, parts'[i].part>>) \notin usedNames
    <3>1. \A n \in Nat : NameOf(<<todo[1].role, n>>) \notin usedNames
      BY <1>2, <1>3
    <3> QED  BY <1>1, <1>4, <3>1
  <2> QED  BY <1>1, <2>1, <2>2 DEF NamesToCome, NameOf
<1> QED  BY <1>1, <1>7, <1>8 DEF FreshInv

LEMMA BuildFresh ==
    ASSUME NamesApart, TypeOK, FreshInv, BuildDataAccessRolePolicy
    PROVE  /\ FreshInv'
           /\ pc' = "lookup" => dap'.name = NameOf(dap'.origin)
<1> DEFINE p == Head(parts)
<1>1. /\ RoleBased /\ pc = "build"
      /\ p \in RolePolicy /\ parts \in Seq(RolePolicy) /\ parts # <<>> /\ p = parts[1]
      /\ todo \in Seq(RolePolicy) /\ todo' = todo /\ parts' = Tail(parts)
  BY HeadTailProperties DEF BuildDataAccessRolePolicy, TypeOK, Policy
<1>2. PICK name \in FreshName(BaseName(PartStem(p)), usedNames) :
             /\ usedNames' = usedNames \cup {name}
             /\ IF RuleOf(p).paths = {}
                THEN UNCHANGED <<pc, dap, pending>>
                ELSE /\ pc' = "lookup"
                     /\ dap' = NewRole(name, RuleOf(p), <<p.role, p.part>>)
                     /\ pending' = p.objects
  BY DEF BuildDataAccessRolePolicy
<1>3. /\ NameOf(<<p.role, p.part>>) = BaseName(PartStem(p))
      /\ p.role \in SourceRole /\ p.part \in Nat
  <2> HIDE DEF p
  <2> QED  BY <1>1, NameOfPolicy
<1>4. /\ DOMAIN parts' = 1 .. Len(parts) - 1 /\ DOMAIN parts = 1 .. Len(parts)
      /\ \A i \in 1 .. Len(parts) - 1 : parts'[i] = parts[i + 1] /\ i + 1 \in DOMAIN parts
      /\ 1 \in DOMAIN parts /\ Len(parts) \in Nat
  BY <1>1, HeadTailProperties
<1>5. WorkApart /\ NamesToCome
  BY <1>1 DEF FreshInv
<1>6. name = NameOf(<<p.role, p.part>>)
  <2>1. NameOf(<<p.role, p.part>>) \notin usedNames
    BY <1>1, <1>4, <1>5 DEF NamesToCome
  <2> HIDE DEF p
  <2> QED  BY <1>2, <1>3, <2>1, FirstName
<1>7. pc' = "lookup" => dap'.name = NameOf(dap'.origin)
  <2>1. pc' = "lookup" => dap' = NewRole(name, RuleOf(p), <<p.role, p.part>>)
    BY <1>1, <1>2
  <2> HIDE DEF p
  <2> QED  BY <1>6, <2>1 DEF NewRole
<1>8. ASSUME NEW r \in SourceRole, NEW n \in Nat, NameOf(<<r, n>>) = name
      PROVE  r = p.role /\ n = p.part
  <2> HIDE DEF p
  <2> QED  BY <1>1, <1>3, <1>6, <1>8 DEF NamesApart
<1>9. \A i \in DOMAIN todo : todo[i].role \in SourceRole /\ todo[i].role # p.role
  <2> SUFFICES ASSUME NEW i \in DOMAIN todo
               PROVE  todo[i].role \in SourceRole /\ todo[i].role # p.role
    OBVIOUS
  <2>1. todo[i] \in RolePolicy
    BY <1>1
  <2>2. parts[1].role # todo[i].role
    BY <1>4, <1>5 DEF WorkApart
  <2> QED  BY <1>1, <2>1, <2>2 DEF RolePolicy
<1>10. \A i \in 1 .. Len(parts) - 1 :
         /\ parts'[i].role \in SourceRole /\ parts'[i].part \in Nat /\ parts'[i].part # p.part
         /\ NameOf(<<parts'[i].role, parts'[i].part>>) \notin usedNames
  <2> SUFFICES ASSUME NEW i \in 1 .. Len(parts) - 1
               PROVE  LET q == parts[i + 1] IN
                      /\ q.role \in SourceRole /\ q.part \in Nat /\ q.part # p.part
                      /\ NameOf(<<q.role, q.part>>) \notin usedNames
    BY <1>4
  <2>1. parts[i + 1] \in RolePolicy
    BY <1>1, <1>4
  <2>2. parts[i + 1].role \in SourceRole /\ parts[i + 1].part \in Nat
    BY <2>1 DEF RolePolicy
  <2>3. parts[i + 1].part = parts[1].part => i + 1 = 1
    BY <1>4, <1>5 DEF WorkApart
  <2>4. i + 1 # 1
    BY <1>4
  <2>5. NameOf(<<parts[i + 1].role, parts[i + 1].part>>) \notin usedNames
    BY <1>4, <1>5 DEF NamesToCome
  <2> QED  BY <1>1, <2>2, <2>3, <2>4, <2>5
<1> HIDE DEF p
<1>11. NamesToCome'
  <2>1. ASSUME NEW i \in DOMAIN todo', NEW n \in Nat
        PROVE  NameOf(<<todo'[i].role, n>>) \notin usedNames'
    <3>1. NameOf(<<todo[i].role, n>>) \notin usedNames
      BY <1>1, <1>5, <2>1 DEF NamesToCome
    <3>2. NameOf(<<todo[i].role, n>>) # name
      BY <1>1, <1>8, <1>9, <2>1
    <3> QED  BY <1>1, <1>2, <3>1, <3>2
  <2>2. ASSUME NEW i \in DOMAIN parts'
        PROVE  NameOf(<<parts'[i].role, parts'[i].part>>) \notin usedNames'
    <3>1. NameOf(<<parts'[i].role, parts'[i].part>>) # name
      BY <1>4, <1>8, <1>10, <2>2
    <3> QED  BY <1>2, <1>4, <1>10, <2>2, <3>1
  <2> QED  BY <2>1, <2>2 DEF NamesToCome, NameOf
<1>12. WorkApart'
  <2>1. ASSUME NEW i \in DOMAIN parts', NEW j \in DOMAIN parts'
        PROVE  /\ parts'[i].role = parts'[j].role
               /\ (parts'[i].part = parts'[j].part => i = j)
    <3>1. /\ parts'[i] = parts[i + 1] /\ parts'[j] = parts[j + 1]
          /\ i + 1 \in DOMAIN parts /\ j + 1 \in DOMAIN parts
      BY <1>4, <2>1
    <3>2. /\ parts[i + 1].role = parts[j + 1].role
          /\ (parts[i + 1].part = parts[j + 1].part => i + 1 = j + 1)
      BY <1>5, <3>1 DEF WorkApart
    <3>3. i \in Int /\ j \in Int
      BY <1>4, <2>1
    <3> QED  BY <3>1, <3>2, <3>3
  <2>2. ASSUME NEW i \in DOMAIN parts', NEW j \in DOMAIN todo'
        PROVE  parts'[i].role # todo'[j].role
    <3>1. parts'[i] = parts[i + 1] /\ i + 1 \in DOMAIN parts /\ j \in DOMAIN todo
      BY <1>1, <1>4, <2>2
    <3> QED  BY <1>1, <1>5, <3>1 DEF WorkApart
  <2>3. \A i, j \in DOMAIN todo' : todo'[i].role = todo'[j].role => i = j
    BY <1>1, <1>5 DEF WorkApart
  <2> QED  BY <2>1, <2>2, <2>3, Zenon DEF WorkApart
<1>13. pc' \in {"build", "lookup"}
  BY <1>1, <1>2
<1> QED  BY <1>7, <1>11, <1>12, <1>13 DEF FreshInv

LEMMA NextFresh ==
    ASSUME ~ReuseAgent, PoliciesApart, NamesApart, TypeOK, PoliciesInv, FreshInv, [Next]_vars
    PROVE  FreshInv'
<1>1. ASSUME UNCHANGED <<todo, parts, usedNames>>,
             pc' \in {"build", "lookup"} \/ (usedNames = {} /\ todo = <<>> /\ parts = <<>>)
      PROVE  FreshInv'
  BY <1>1 DEF FreshInv, WorkApart, NamesToCome
<1>2. CASE UNCHANGED vars \/ Environment
  BY <1>1, <1>2 DEF vars, locals, work, agent, Environment, AdminCreate, AdminEdit, AdminDelete,
                    FreshInv
<1>3. CASE Run
  <2>1. /\ usedNames' = {} /\ todo = <<>> /\ parts = <<>> /\ UNCHANGED <<todo, parts>>
        /\ pc' = "map"
    BY <1>3 DEF Run, NewAgent, FreshInv, Resting, locals, work
  <2> QED  BY <2>1 DEF FreshInv, WorkApart, NamesToCome
<1>4. CASE MapPolicy /\ pc' = "apply"
  BY <1>1, <1>4 DEF MapPolicy, End, work, agent, FreshInv
<1>5. CASE GetCurrentAccessPolicy
  <2>1. /\ usedNames = {} /\ parts = <<>> /\ pc' = "build" /\ todo' = export
        /\ UNCHANGED <<parts, usedNames>> /\ export \in Export /\ export # NoExport
    BY <1>5 DEF GetCurrentAccessPolicy, FreshInv, TypeOK, Running, PoliciesInv, agent
  <2>2. RoleBased => \A i, j \in DOMAIN export : export[i].role = export[j].role => i = j
    BY <2>1 DEF PoliciesApart, SameSource
  <2> QED  BY <2>1, <2>2 DEF FreshInv, WorkApart, NamesToCome
<1>6. CASE SplitNextPolicy
  <2>1. CASE RoleBased
    BY <1>6, <2>1, SplitFresh
  <2>2. CASE ~RoleBased
    BY <1>6, <2>2 DEF SplitNextPolicy, FreshInv
  <2> QED  BY <2>1, <2>2
<1>7. CASE BuildDataAccessRolePolicy
  BY <1>7, BuildFresh
<1>8. CASE BuildDataAccessPolicy
  BY <1>8 DEF BuildDataAccessPolicy, FreshInv
<1>9. CASE AddMember \/ SkipMember \/ FinishRole
  BY <1>1, <1>9 DEF AddMember, SkipMember, FinishRole, agent
<1>10. CASE \/ MapPolicy /\ pc' # "apply"
            \/ CallDocumentedHandler \/ WarnNoMembers \/ PutRefused \/ NothingToSync \/ Fail
            \/ PutDataAccessPolicy \/ PutWithoutAnswer
  BY <1>10, EndFresh
     DEF MapPolicy, CallDocumentedHandler, WarnNoMembers, PutRefused, NothingToSync, Fail,
         PutDataAccessPolicy, PutWithoutAnswer, Resting
<1> QED
  BY <1>2, <1>3, <1>4, <1>5, <1>6, <1>7, <1>8, <1>9, <1>10 DEF Next, Progress, ApplyAgain

LEMMA NextNamed ==
    ASSUME ~ReuseAgent, NamesApart, SuffixSurvives, TypeOK, MergeInv, PoliciesInv, FreshInv, NamedByOrigin,
           [Next]_vars
    PROVE  NamedByOrigin'
<1> DEFINE Named(S) == \A r \in S : r.origin # Admin => r.name = NameOf(r.origin)
           BuiltNamed(b) == \A i \in DOMAIN b : b[i].name = NameOf(b[i].origin)
<1>1. ASSUME Named(fabric'), current' \in {current, fabric, {}},
             built' \in {built, <<>>}, pc' = "lookup" => pc = "lookup" /\ dap' = dap
      PROVE  NamedByOrigin'
  BY <1>1 DEF NamedByOrigin, NameOf
<1>2. Named(fabric)
  BY DEF NamedByOrigin
<1>3. CASE UNCHANGED vars \/ Run \/ ApplyAgain \/ GetCurrentAccessPolicy \/ SplitNextPolicy
           \/ SkipMember
  BY <1>1, <1>2, <1>3 DEF vars, locals, work, Run, ApplyAgain, GetCurrentAccessPolicy,
                          SplitNextPolicy, SkipMember
<1>4. CASE \/ MapPolicy \/ CallDocumentedHandler \/ WarnNoMembers
           \/ PutRefused \/ NothingToSync \/ Fail
  BY <1>1, <1>2, <1>4
     DEF MapPolicy, CallDocumentedHandler, WarnNoMembers, PutRefused, NothingToSync, Fail, End, work
<1>5. CASE BuildDataAccessRolePolicy
  <2>1. pc' = "lookup" => dap'.name = NameOf(dap'.origin)
    BY <1>5, BuildFresh
  <2>2. UNCHANGED <<fabric, current, built>>
    BY <1>5 DEF BuildDataAccessRolePolicy
  <2> QED  BY <2>1, <2>2 DEF NamedByOrigin, NameOf
<1>6. CASE BuildDataAccessPolicy
  <2>1. dap'.name = NameOf(dap'.origin)
    BY <1>6 DEF BuildDataAccessPolicy, NewRole, NameOf, GetRoleName
  <2>2. UNCHANGED <<fabric, current, built>>
    BY <1>6 DEF BuildDataAccessPolicy
  <2> QED  BY <2>1, <2>2 DEF NamedByOrigin, NameOf
<1>7. CASE AddMember
  <2>1. pc = "lookup" /\ dap \in DataAccessPolicy /\ UNCHANGED <<fabric, current, built>>
    BY <1>7 DEF AddMember, TypeOK
  <2>2. dap'.name = dap.name /\ dap'.origin = dap.origin
    BY <1>7, <2>1 DEF AddMember, DataAccessPolicy
  <2> QED  BY <2>1, <2>2 DEF NamedByOrigin, NameOf
<1>8. CASE FinishRole
  <2>1. /\ pc = "lookup" /\ pc' = "build" /\ built \in Seq(DataAccessPolicy)
        /\ (built' = built \/ built' = Append(built, dap))
    BY <1>8 DEF FinishRole, TypeOK
  <2>2. UNCHANGED <<fabric, current>>
    BY <1>8 DEF FinishRole
  <2>3. BuiltNamed(built) /\ dap.name = NameOf(dap.origin)
    BY <2>1 DEF NamedByOrigin
  <2>4. BuiltNamed(built')
    BY <2>1, <2>3, AppendProperties
  <2> QED  BY <2>1, <2>2, <2>4 DEF NamedByOrigin, NameOf
<1>9. CASE PutDataAccessPolicy \/ PutWithoutAnswer
  <2>1. Put /\ current' = {} /\ built' = <<>> /\ pc' # "lookup"
    BY <1>9 DEF PutDataAccessPolicy, PutWithoutAnswer, End
  <2>2. \A r \in fabric' : \/ \E i \in DOMAIN built : /\ r.name = built[i].name
                                                      /\ r.origin = built[i].origin
                           \/ r \in UnmanagedPolicies
    BY <2>1, StoredRoles DEF Put, MergeInv
  <2>3. Named(fabric')
    BY <2>2 DEF NamedByOrigin, UnmanagedPolicies
  <2> QED  BY <1>1, <2>1, <2>3
<1>10. CASE Environment
  <2>1. UNCHANGED <<pc, dap, current, built>>
    BY <1>10 DEF Environment, AdminCreate, AdminEdit, AdminDelete, work
  <2>2. ASSUME NEW name \in AdminName, NEW members \in AdminMembers, AdminCreate(name, members)
        PROVE  Named(fabric')
    BY <1>2, <2>2 DEF AdminCreate
  <2>3. ASSUME NEW role \in fabric, NEW members \in AdminMembers, AdminEdit(role, members)
        PROVE  Named(fabric')
    <3> DEFINE new == [role EXCEPT !.members = members, !.origin = Admin]
    <3>1. new.origin = Admin
      BY DEF TypeOK, DataAccessPolicy
    <3>2. fabric' = (fabric \ {role}) \cup {new}
      BY <2>3 DEF AdminEdit
    <3> HIDE DEF new
    <3> QED  BY <1>2, <3>1, <3>2
  <2>4. ASSUME NEW role \in fabric, AdminDelete(role) PROVE Named(fabric')
    BY <1>2, <2>4 DEF AdminDelete
  <2>5. Named(fabric')
    BY <1>10, <2>2, <2>3, <2>4 DEF Environment
  <2> QED  BY <1>1, <2>1, <2>5
<1> QED  BY <1>3, <1>4, <1>5, <1>6, <1>7, <1>8, <1>9, <1>10 DEF Next, Progress

(* A sequence ends with what it ends with, and so contains it. *)
LEMMA EndIsContained ==
    ASSUME NEW S, NEW s \in Seq(S), NEW t \in Seq(S), t # <<>>
    PROVE  t \in SubSeqs(s \o t)
<1> DEFINE n == s \o t
<1>1. /\ n \in Seq(S) /\ Len(n) = Len(s) + Len(t) /\ Len(s) \in Nat /\ Len(t) \in Nat
      /\ Len(t) >= 1
      /\ \A i \in 1 .. Len(s) + Len(t) : n[i] = IF i <= Len(s) THEN s[i] ELSE t[i - Len(s)]
  BY ConcatProperties
<1> HIDE DEF n
<1> DEFINE m == SubSeq(n, Len(s) + 1, Len(s) + Len(t))
<1>2. /\ m \in Seq(S) /\ Len(m) = Len(t)
      /\ \A i \in 1 .. Len(t) : m[i] = n[Len(s) + i]
  <2>1. \A i \in Len(s) + 1 .. Len(s) + Len(t) : n[i] \in S
    BY <1>1
  <2>2. /\ Len(s) + 1 \in Int /\ Len(s) + Len(t) \in Int
        /\ Len(s) + 1 <= Len(s) + Len(t)
        /\ (Len(s) + Len(t)) - (Len(s) + 1) + 1 = Len(t)
    BY <1>1
  <2>3. \A i \in 1 .. Len(t) : (Len(s) + 1) + i - 1 = Len(s) + i
    BY <1>1
  <2> QED  BY <2>1, <2>2, <2>3, SubSeqProperties
<1>3. \A i \in 1 .. Len(t) : m[i] = t[i]
  <2> SUFFICES ASSUME NEW i \in 1 .. Len(t) PROVE n[Len(s) + i] = t[i]
    BY <1>2
  <2>1. Len(s) + i \in 1 .. Len(s) + Len(t) /\ ~(Len(s) + i <= Len(s)) /\ (Len(s) + i) - Len(s) = i
    BY <1>1
  <2> QED  BY <1>1, <2>1
<1>4. m = t
  BY <1>2, <1>3, SeqEqual
<1>5. Len(s) + 1 \in 1 .. Len(n) /\ Len(s) + Len(t) \in 1 .. Len(n)
  BY <1>1
<1>6. m \in SubSeqs(n)
  BY <1>5 DEF SubSeqs
<1> QED  BY <1>4, <1>6 DEF n

(* A name that is not numbered contains the suffix as it is configured. *)
LEMMA OwnNameContainsSuffix ==
    ASSUME SuffixSurvives, TypeOK, PoliciesInv, NEW i \in DOMAIN built
    PROVE  ContainsSuffix(NameOf(built[i].origin))
<1> DEFINE o == built[i].origin
<1>1. PICK k \in DOMAIN export : ComesFrom(built[i], export[k])
  BY DEF PoliciesInv, BuiltFrom
<1>2. export[k] \in Policy
  <2>1. export \in Seq(Policy)
    BY DEF TypeOK, PoliciesInv, Running
  <2> QED  BY <2>1
<1>3. CASE RoleBased
  <2>1. o[1] \in SourceRole
    BY <1>1, <1>2, <1>3 DEF ComesFrom, Policy, RolePolicy
  <2> DEFINE S == Token \cup {<<"number", o[2]>>}
             stem == PartStem([role |-> o[1], part |-> o[2]])
  <2>2. Stem[o[1]] \in Seq(Token) /\ ManagedSuffix \in Seq(Token) /\ ManagedSuffix # <<>>
    BY <2>1, AgentAssumption
  <2>3. Stem[o[1]] \in Seq(S) /\ ManagedSuffix \in Seq(S)
    BY <2>2
  <2>4. << <<"word", "Part">>, <<"number", o[2]>> >> \in Seq(S) /\ << <<"word", "ID">> >> \in Seq(S)
    BY AgentAssumption DEF Token
  <2>5. stem = Stem[o[1]] \/ stem = Stem[o[1]] \o << <<"word", "Part">>, <<"number", o[2]>> >>
    BY DEF PartStem
  <2> HIDE DEF S, o, stem
  <2>6. stem \in Seq(S)
    BY <2>3, <2>4, <2>5, ConcatProperties
  <2>7. << <<"word", "ID">> >> \o stem \in Seq(S)
    BY <2>4, <2>6, ConcatProperties
  <2>8. << <<"word", "ID">> >> \o (stem \o ManagedSuffix) = (<< <<"word", "ID">> >> \o stem) \o ManagedSuffix
    BY <2>3, <2>4, <2>6, ConcatAssociative
  <2>9. \/ NameOf(o) = stem \o ManagedSuffix
        \/ NameOf(o) = << <<"word", "ID">> >> \o (stem \o ManagedSuffix)
    BY <1>3 DEF NameOf, BaseName, SuffixSurvives, stem
  <2>10. ManagedSuffix \in SubSeqs(NameOf(o))
    BY <2>2, <2>3, <2>6, <2>7, <2>8, <2>9, EndIsContained
  <2> QED  BY <2>10 DEF ContainsSuffix, o
<1>4. CASE ~RoleBased
  <2>1. o \in (Schema \cup {None}) \X (Table \cup {None})
    <3>1. export[k] \in TablePolicy /\ o = <<export[k].schema, export[k].table>>
      BY <1>1, <1>2, <1>4 DEF ComesFrom, Policy
    <3>2. export[k].schema \in Schema \cup {None} /\ export[k].table \in Table \cup {None}
      BY <3>1 DEF TablePolicy
    <3> QED  BY <3>1, <3>2
  <2>2. TableStem[o] \in Seq(Token) /\ ManagedSuffix \in Seq(Token) /\ ManagedSuffix # <<>>
    BY <2>1, AgentAssumption
  <2>3. NameOf(o) = TableStem[o] \o ManagedSuffix
    BY <1>4 DEF NameOf, SuffixSurvives
  <2>4. ManagedSuffix \in SubSeqs(NameOf(o))
    BY <2>2, <2>3, EndIsContained
  <2> QED  BY <2>4 DEF ContainsSuffix
<1> QED  BY <1>3, <1>4

LEMMA PutKeepsIds ==
    ASSUME SuffixSurvives, TypeOK, MergeInv, PoliciesInv, NamedByOrigin, NamesDistinct(current), Put,
           NEW r \in current, NEW q \in fabric', r.origin = q.origin, r.origin # Admin
    PROVE  r.id = q.id
<1>1. PICK f : fabric' = {IF a.id = NoId THEN [a EXCEPT !.id = f[a]] ELSE a : a \in Request}
  BY DEF Put, Stored
<1>2. PICK a \in Request : q = IF a.id = NoId THEN [a EXCEPT !.id = f[a]] ELSE a
  BY <1>1
<1>3. a.origin = q.origin
  <2>1. a \in DataAccessPolicy
    BY RequestType
  <2> QED  BY <1>2, <2>1 DEF DataAccessPolicy
<1>4. a \notin UnmanagedPolicies
  BY <1>3 DEF UnmanagedPolicies, MergeInv, OursBearSuffix
<1>5. PICK i \in DOMAIN built : a = WithId(i)
  BY <1>4 DEF Request
<1>6. built[i].origin = r.origin /\ built[i].name = r.name /\ r.name = NameOf(built[i].origin)
  BY <1>3, <1>5, WithIdIsBuilt DEF NamedByOrigin
<1>7. \A j \in 1 .. i - 1 : ~SameName(built[j], built[i])
  <2> SUFFICES ASSUME NEW j \in 1 .. i - 1, SameName(built[j], built[i]) PROVE FALSE
    OBVIOUS
  <2>1. DOMAIN built = 1 .. Len(built) /\ Len(built) \in Nat
    BY DEF TypeOK
  <2>2. j \in DOMAIN built /\ j # i
    BY <2>1
  <2> QED  BY <2>2 DEF Put, RequestDistinct
<1> DEFINE found == {p \in UpdatedPolicies : SameName(built[i], p)}
<1>8. found = {r}
  <2>1. SameName(built[i], r)
    BY <1>6 DEF SameName
  <2>2. r \in UpdatedPolicies
    BY <1>6, <2>1, OwnNameContainsSuffix DEF UpdatedPolicies
  <2>3. ASSUME NEW p \in found PROVE p = r
    <3>1. p \in current /\ SameName(p, r)
      BY <2>1 DEF UpdatedPolicies, SameName
    <3> QED  BY <3>1 DEF NamesDistinct
  <2> QED  BY <2>1, <2>2, <2>3
<1>9. WithId(i) = [built[i] EXCEPT !.id = r.id]
  <2>1. (CHOOSE p \in found : TRUE) = r /\ found # {}
    BY <1>8
  <2>2. WithId(i) = IF found # {} THEN [built[i] EXCEPT !.id = (CHOOSE p \in found : TRUE).id]
                    ELSE built[i]
    BY <1>7 DEF WithId
  <2> HIDE DEF found
  <2> QED  BY <2>1, <2>2
<1>10. a.id = r.id
  <2>1. built[i] \in DataAccessPolicy
    BY DEF TypeOK
  <2> QED  BY <1>5, <1>9, <2>1 DEF DataAccessPolicy
<1>11. r.id # NoId
  BY AgentAssumption DEF MergeInv, RolesHaveIds
<1> QED  BY <1>2, <1>10, <1>11

(* A role that is built again is the same role of Fabric to whoever refers *)
(* to it: with an agent of its own a run gives every policy, and every     *)
(* part of one, the name the last run gave it, and so the id of the role   *)
(* listed under that name (weaver.py:252-262, 690-698).                    *)
THEOREM RebuiltRolesKeepIds ==
    ASSUME SuffixSurvives, ~ReuseAgent, PoliciesApart, NamesApart
    PROVE  Spec => SyncKeepsIds
<1> DEFINE Inv == TypeOK /\ MergeInv /\ RequestInv /\ PoliciesInv
           Own == FreshInv /\ NamedByOrigin
<1>1. Init => Own
  BY InitFresh
<1>2. Inv /\ Own /\ [Next]_vars => Own'
  BY NextFresh, NextNamed
<1>3. Inv /\ Own /\ [Next]_vars
      => [WeaverWrites => \A r \in current, q \in fabric' :
                             r.origin = q.origin /\ r.origin # Admin => r.id = q.id]_vars
  BY OnlyPutWrites, PutKeepsIds DEF RequestInv, ListedApart
<1>4. Spec => []Inv
  BY RequestInvariant, PoliciesInvariant, PTL
<1> HIDE DEF Inv, Own
<1> QED  BY <1>1, <1>2, <1>3, <1>4, PTL DEF Spec, SyncKeepsIds
===============================================================================
