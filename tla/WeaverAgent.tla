----------------------------- MODULE WeaverAgent -----------------------------
(***************************************************************************)
(* The agent of weaver.py: one run takes the policies a connector exports, *)
(* lists the data access roles of the Fabric item, builds one role per     *)
(* exported policy (or part of one), merges them with the roles it does    *)
(* not manage and replaces the whole list with a single PUT.               *)
(*                                                                         *)
(* Every await and every service call is a step of its own, so that        *)
(* administrators act in between, and every such call may fail and end the *)
(* run.  The store of Fabric and the directory of Microsoft Graph are      *)
(* external: they do what the code relies on.                              *)
(***************************************************************************)
EXTENDS RoleRule

CONSTANTS
    SourceRole,       \* the names of the policies the source exports
    Word,             \* the words role names are made of
    Stem,             \* SourceRole -> tokens left of the name when sanitised
    TableStem,        \* <<schema, table>> -> tokens left of it, title-cased
    Suffix,           \* config.fabric.fabric_role_suffix, as tokens
    CleanSuffix,      \* what is left of Suffix when it is sanitised
    ManagedSuffix,    \* FabricPolicyRoleSuffix: Suffix or its fallback
    LowerCase,        \* Word -> Word
    DefaultReader,    \* the words of "DefaultReader", in lower case
    DeleteDefaultReaderRole, \* config.fabric.delete_default_reader_role
    RoleBased,        \* config.fabric.policy_mapping = "role_based"
    Principal,        \* users, service principals and groups
    Directory,        \* the principals Microsoft Graph knows
    Export,           \* what the connector may return from map_policy
    NoExport,         \* map_policy returned None
    RoleId, NoId,     \* ids Fabric gives its roles
    Admin,            \* the origin of a role an administrator wrote
    AdminName,        \* names administrators give their roles
    AdminMembers,     \* member sets they give them
    TransientErrors,  \* Graph may answer with an APIError for a known principal
    ServicesFail,     \* calls may raise and answers get lost
    UnmappedHandler,  \* the callers' handlers: "none", "documented" (one argument), "two"
    AdminsInterleave, \* administrators act while a run is under way, too
    ReuseAgent,       \* the caller applies more than once on one WeaverAgent
    MaxNumber         \* bound: the largest number put into a role name

Token == ({"word"} \X Word) \cup ({"number"} \X Nat)
Name  == Seq(Token)

\* A principal of a policy.  "known": the export carries its Entra object id.
Object == [principal : Principal,
           kind      : {"USER", "SERVICE_PRINCIPAL", "GROUP"},
           known     : BOOLEAN]

\* One policy of a role-based export; part is 0 for the whole of it.
RolePolicy == [role    : SourceRole,
               part    : Nat,
               scopes  : Seq(Scope),
               objects : Seq(Object),
               cols    : SUBSET ColumnConstraint,
               rows    : SUBSET RowConstraint]

\* One SELECT/GRANT permission of a table-based export.
TablePolicy == [schema  : Schema \cup {None},
                table   : Table \cup {None},
                objects : Seq(Object)]

Policy == IF RoleBased THEN RolePolicy ELSE TablePolicy

\* History: which policy, and which part of it, a role was built from.
Origin == (SourceRole \X Nat)
          \cup ((Schema \cup {None}) \X (Table \cup {None})) \cup {Admin}

DataAccessPolicy == [name    : Name,
                     id      : RoleId \cup {NoId},
                     members : SUBSET Principal,
                     rule    : Rule,
                     origin  : Origin]

ASSUME AgentAssumption ==
    /\ Stem \in [SourceRole -> Seq(Token)]
    /\ TableStem \in [(Schema \cup {None}) \X (Table \cup {None}) -> Seq(Token)]
    /\ {Suffix, CleanSuffix, ManagedSuffix, DefaultReader} \subseteq Seq(Token)
    /\ ManagedSuffix # <<>>
    /\ \A r \in SourceRole : Stem[r] \o CleanSuffix # <<>>
    /\ {"Part", "ID"} \subseteq Word
    /\ LowerCase \in [Word -> Word]
    /\ {DeleteDefaultReaderRole, RoleBased, TransientErrors, ServicesFail,
        AdminsInterleave, ReuseAgent} \subseteq BOOLEAN
    /\ Directory \subseteq Principal
    /\ Export \subseteq Seq(Policy) \cup {NoExport}
    /\ NoExport \notin Seq(Policy)
    /\ NoId \notin RoleId
    /\ AdminName \subseteq Name
    /\ AdminMembers \subseteq SUBSET Principal
    /\ UnmappedHandler \subseteq {"none", "documented", "two"}
    /\ MaxNumber \in Nat \ {0}

VARIABLES
    fabric,      \* the roles of the Fabric item
    pc,          \* where the run is
    export,      \* policy_export
    todo,        \* the policies still to be taken up
    parts,       \* the parts of the policy taken up last that are left to build
    dap,         \* the role under construction
    pending,     \* its principals still to be looked up
    built,       \* access_policies
    current,     \* self.current_fabric_policies
    usedNames,   \* self.used_role_names
    graphMap,    \* self.__graph_map
    touched      \* history: names administrators wrote since the listing

work   == <<todo, parts, dap, pending>>
locals == <<export, work, built, current, touched>>
agent  == <<usedNames, graphMap>>
vars   == <<fabric, pc, locals, agent>>

Resting == {"ready", "synced", "unchanged", "empty", "failed"}
Running == {"map", "apply", "build", "lookup"}

TypeOK ==
    /\ fabric \subseteq DataAccessPolicy
    /\ pc \in Resting \cup Running
    /\ export \in Seq(Policy) \cup {NoExport}
    /\ pc \in Running \ {"map"} => export # NoExport
    /\ todo \in Seq(Policy)
    /\ parts \in Seq(Policy)
    /\ dap \in DataAccessPolicy \cup {None}
    /\ pc = "lookup" => dap \in DataAccessPolicy
    /\ pending \in Seq(Object)
    /\ built \in Seq(DataAccessPolicy)
    /\ current \subseteq DataAccessPolicy
    /\ usedNames \subseteq Name
    /\ graphMap \in [Principal -> {"unasked", "found", "missing"}]
    /\ touched \subseteq Name

-------------------------------------------------------------------------------
(* Role names *)

LowerToken(t) == IF t[1] = "word" THEN <<"word", LowerCase[t[2]]>> ELSE t
Lower(name) == [i \in DOMAIN name |-> LowerToken(name[i])]

\* Mutants: the suffix compared in its own case; in one case on one side only.
EndsWithSuffixInCase(name) == IsSuffix(ManagedSuffix, name)
EndsWithSuffixHalfLower(name) == IsSuffix(ManagedSuffix, Lower(name))

ContainsSuffix(name) == ManagedSuffix \in SubSeqs(name)
EndsWithSuffix(name) == IsSuffix(Lower(ManagedSuffix), Lower(name))

(* The sanitised name of a role, before it is made unique. *)
BaseName(stem) ==
    LET name == stem \o CleanSuffix
    IN  IF name # <<>> /\ name[1][1] = "number"
        THEN << <<"word", "ID">> >> \o name
        ELSE name

PartStem(p) ==
    IF p.part = 0
    THEN Stem[p.role]
    ELSE Stem[p.role] \o << <<"word", "Part">>, <<"number", p.part>> >>

(* A name in use loses the length of the configured suffix and gets a      *)
(* number and the suffix, as configured, in its place.                     *)
NumberedName(base, k) ==
    LET stem == IF Suffix = <<>>
                THEN <<>>
                ELSE SubSeq(base, 1, Len(base) - Len(Suffix))
    IN  stem \o << <<"number", k>> >> \o Suffix

\* Mutants: the first number taken unseen; the name not made unique at all.
FreshNameUnseen(base, used) == {IF base \in used THEN NumberedName(base, 1) ELSE base}
FreshNameRepeated(base, used) == {base}

(* The first name nobody uses: one name, or none within MaxNumber. *)
FreshName(base, used) ==
    IF base \notin used
    THEN {base}
    ELSE {NumberedName(base, k) :
            k \in {k \in 1 .. MaxNumber :
                     /\ NumberedName(base, k) \notin used
                     /\ \A j \in 1 .. k - 1 : NumberedName(base, j) \in used}}

(* __get_role_name__ of the table-based mapping: no prefix, no number. *)
GetRoleName(p) == TableStem[<<p.schema, p.table>>] \o CleanSuffix

-------------------------------------------------------------------------------
(* The run *)

NewAgent ==
    /\ usedNames' = {}
    /\ graphMap' = [p \in Principal |-> "unasked"]

(* WeaverAgent.run makes an agent: an empty lookup cache, no name in use. *)
Run ==
    /\ pc \in Resting
    /\ pc' = "map"
    /\ NewAgent
    /\ UNCHANGED <<fabric, locals>>

(* A caller that keeps the agent and applies once more keeps both. *)
ApplyAgain ==
    /\ ReuseAgent
    /\ pc \in Resting \ {"ready"}
    /\ pc' = "map"
    /\ UNCHANGED <<fabric, locals, agent>>

(* However a run ends, what it worked with is gone, and the agent too      *)
(* unless the caller keeps it.                                             *)
End(result) ==
    /\ pc' = result
    /\ export' = NoExport
    /\ todo' = <<>>
    /\ parts' = <<>>
    /\ dap' = None
    /\ pending' = <<>>
    /\ built' = <<>>
    /\ current' = {}
    /\ touched' = {}
    /\ IF ReuseAgent THEN UNCHANGED agent ELSE NewAgent

(* src.map_policy, whatever the source holds at that moment; nothing to    *)
(* apply ends the run before Fabric is asked.                              *)
MapPolicy ==
    /\ pc = "map"
    /\ UNCHANGED fabric
    /\ \/ NoExport \in Export /\ End("empty")
       \/ /\ export' \in Export \ {NoExport}
          /\ pc' = "apply"
          /\ UNCHANGED <<work, built, current, touched, agent>>

(* apply and apply_role: list the roles there are, then build. *)
GetCurrentAccessPolicy ==
    /\ pc = "apply"
    /\ pc' = "build"
    /\ current' = fabric
    /\ todo' = export
    /\ UNCHANGED <<fabric, export, parts, dap, pending, built, agent, touched>>

\* Mutant: the loop does not advance.
SplitSamePolicy ==
    /\ pc = "build"
    /\ parts = <<>>
    /\ todo # <<>>
    /\ parts' = IF RoleBased THEN SplitPermissionScopes(Head(todo)) ELSE <<Head(todo)>>
    /\ UNCHANGED <<fabric, pc, export, todo, dap, pending, built, current, agent, touched>>

(* The outer loop: take up the next policy of the export. *)
SplitNextPolicy ==
    /\ pc = "build"
    /\ parts = <<>>
    /\ todo # <<>>
    /\ parts' = IF RoleBased THEN SplitPermissionScopes(Head(todo)) ELSE <<Head(todo)>>
    /\ todo' = Tail(todo)
    /\ UNCHANGED <<fabric, pc, export, dap, pending, built, current,
                   agent, touched>>

\* Mutant: an id made up by the weaver.
NewRoleNamedById(name, rule, origin) ==
    [name |-> name, id |-> name, members |-> {}, rule |-> rule, origin |-> origin]

NewRole(name, rule, origin) ==
    [name |-> name, id |-> NoId, members |-> {}, rule |-> rule, origin |-> origin]

(* __build_data_access_role_policy__ up to the lookups.  The name is used  *)
(* up even when every table is denied and no role comes of it.             *)
BuildDataAccessRolePolicy ==
    /\ RoleBased
    /\ pc = "build"
    /\ parts # <<>>
    /\ LET p    == Head(parts)
           rule == RuleOf(p)
       IN  \E name \in FreshName(BaseName(PartStem(p)), usedNames) :
             /\ usedNames' = usedNames \cup {name}
             /\ IF rule.paths = {}
                THEN UNCHANGED <<pc, dap, pending>>
                ELSE /\ pc' = "lookup"
                     /\ dap' = NewRole(name, rule, <<p.role, p.part>>)
                     /\ pending' = p.objects
    /\ parts' = Tail(parts)
    /\ UNCHANGED <<fabric, export, todo, built, current, graphMap, touched>>

(* __build_data_access_policy__ up to the lookups: one path, no constraint. *)
BuildDataAccessPolicy ==
    /\ ~RoleBased
    /\ pc = "build"
    /\ parts # <<>>
    /\ LET p == Head(parts)
           rule == [paths |-> {PathOf(p)}, cols |-> {}, rows |-> {}]
       IN  /\ dap' = NewRole(GetRoleName(p), rule, <<p.schema, p.table>>)
           /\ pending' = p.objects
    /\ pc' = "lookup"
    /\ parts' = Tail(parts)
    /\ UNCHANGED <<fabric, export, todo, built, current, agent, touched>>

(* What Microsoft Graph may answer: its client turns every APIError, an    *)
(* unknown principal and a failed call alike, into None.                   *)
GraphAnswers(p) ==
    IF p \notin Directory THEN {"missing"}
    ELSE {"found"} \cup (IF TransientErrors THEN {"missing"} ELSE {})

AsksGraph(o) == ~o.known /\ graphMap[o.principal] = "unasked" /\ o.kind # "GROUP"

\* Mutants: the id of the export not used; a miss not remembered.
LookupAnswersByGraph(o) ==
    IF graphMap[o.principal] # "unasked" THEN {graphMap[o.principal]}
    ELSE IF o.kind = "GROUP" THEN {"missing"}
    ELSE GraphAnswers(o.principal)
LookupAnswersAgain(o) ==
    IF o.known \/ graphMap[o.principal] = "found" THEN {"found"}
    ELSE IF o.kind = "GROUP" THEN {"missing"}
    ELSE GraphAnswers(o.principal)

(* __lookup_entra_object_id__: the id in the export, else the cache, else  *)
(* Graph; a group that brings no id is not looked up.                      *)
LookupAnswers(o) ==
    IF o.known THEN {"found"}
    ELSE IF graphMap[o.principal] # "unasked" THEN {graphMap[o.principal]}
    ELSE IF o.kind = "GROUP" THEN {"missing"}
    ELSE GraphAnswers(o.principal)

\* Mutant: the answer is not kept.
LookupUncached(o, answer) == answer \in LookupAnswers(o) /\ UNCHANGED graphMap

Lookup(o, answer) ==
    /\ answer \in LookupAnswers(o)
    /\ graphMap' = IF AsksGraph(o) THEN [graphMap EXCEPT ![o.principal] = answer]
                   ELSE graphMap

(* The principal resolves and becomes a member. *)
AddMember ==
    /\ pc = "lookup"
    /\ pending # <<>>
    /\ Lookup(Head(pending), "found")
    /\ dap' = [dap EXCEPT !.members = @ \cup {Head(pending).principal}]
    /\ pending' = Tail(pending)
    /\ UNCHANGED <<fabric, pc, export, todo, parts, built, current,
                   usedNames, touched>>

(* It does not, and is left out.  A handler of the caller that takes the   *)
(* two arguments it is called with changes nothing here.                   *)
SkipMember ==
    /\ pc = "lookup"
    /\ pending # <<>>
    /\ UnmappedHandler \cap {"none", "two"} # {}
    /\ Lookup(Head(pending), "missing")
    /\ pending' = Tail(pending)
    /\ UNCHANGED <<fabric, pc, export, todo, parts, dap, built, current, usedNames, touched>>

(* A handler written as documented, for one argument, raises when called.  *)
CallDocumentedHandler ==
    /\ pc = "lookup"
    /\ pending # <<>>
    /\ "documented" \in UnmappedHandler
    /\ "missing" \in LookupAnswers(Head(pending))
    /\ End("failed")
    /\ UNCHANGED fabric

(* A role with members joins access_policies, one without is dropped. *)
FinishRole ==
    /\ pc = "lookup"
    /\ pending = <<>>
    /\ RoleBased \/ dap.members # {}
    /\ pc' = "build"
    /\ built' = IF dap.members # {} THEN Append(built, dap) ELSE built
    /\ dap' = None
    /\ UNCHANGED <<fabric, export, todo, parts, pending, current, agent, touched>>

(* In the table-based mapping the warning of a role without members raises *)
(* itself: Policy has no field "name".                                     *)
WarnNoMembers ==
    /\ ~RoleBased
    /\ pc = "lookup"
    /\ pending = <<>>
    /\ dap.members = {}
    /\ End("failed")
    /\ UNCHANGED fabric

-------------------------------------------------------------------------------
(* The merge with the roles listed, and the PUT *)

AllBuilt == pc = "build" /\ todo = <<>> /\ parts = <<>>

(* The listed roles the weaver takes for its own and finds built again. *)
SameName(p, r) == Lower(p.name) = Lower(r.name)
UpdatedPolicies ==
    {p \in current : ContainsSuffix(p.name) /\ \E i \in DOMAIN built : SameName(built[i], p)}

\* Mutant: the id of the role listed is not taken over.
WithNoId(i) == built[i]

(* The first role built under a name takes the id of the one it updates. *)
WithId(i) ==
    LET first == \A j \in 1 .. i - 1 : ~SameName(built[j], built[i])
        found == {p \in UpdatedPolicies : SameName(built[i], p)}
    IN  IF first /\ found # {}
        THEN [built[i] EXCEPT !.id = (CHOOSE p \in found : TRUE).id]
        ELSE built[i]

(* xapply: the listed roles that do not end with the suffix, in any case,  *)
(* without DefaultReader when it is to be deleted.                         *)
IsDefaultReader(p) == Lower(p.name) = DefaultReader
\* Mutants: whatever is not updated is kept; the suffix may be anywhere in a name.
NotUpdatedPolicies == {p \in current \ UpdatedPolicies : ~IsDefaultReader(p)}
WithoutSuffixPolicies ==
    {p \in current : ~ContainsSuffix(p.name) /\ ~(DeleteDefaultReaderRole /\ IsDefaultReader(p))}

UnmanagedPolicies ==
    {p \in current : /\ ~EndsWithSuffix(p.name)
                     /\ ~(DeleteDefaultReaderRole /\ IsDefaultReader(p))}

Request == {WithId(i) : i \in DOMAIN built} \cup UnmanagedPolicies
DeletedPolicies == {p \in current : \A r \in Request : r.name # p.name}

\* Mutant: what is deleted is not counted.
SyncCountWithoutDeleted == Len(built) + Cardinality(UnmanagedPolicies)

(* Inserted + Updated + Deleted + Unmanaged *)
SyncCount == (Len(built) - Cardinality(UpdatedPolicies)) + Cardinality(UpdatedPolicies)
             + Cardinality(DeletedPolicies) + Cardinality(UnmanagedPolicies)

(* What Fabric (external) stores of a request: every role of it and no     *)
(* other; a role that brings no id gets a new one.  It refuses two roles   *)
(* of one name.                                                            *)
NamesDistinct(S) == \A p, r \in S : SameName(p, r) => p = r
RequestDistinct ==
    /\ NamesDistinct(Request)
    /\ \A i, j \in DOMAIN built : SameName(built[i], built[j]) => i = j
NewIds(S) ==
    {f \in [{r \in S : r.id = NoId} -> RoleId \ {r.id : r \in S \cup fabric}] :
        \A p, r \in DOMAIN f : f[p] = f[r] => p = r}
Stored(S) == {{IF r.id = NoId THEN [r EXCEPT !.id = f[r]] ELSE r : r \in S} : f \in NewIds(S)}

Put ==
    /\ AllBuilt
    /\ SyncCount > 0
    /\ RequestDistinct
    /\ fabric' \in Stored(Request)

PutDataAccessPolicy == Put /\ End("synced")

(* Fabric has stored the request; the answer is lost and the run raises. *)
PutWithoutAnswer == ServicesFail /\ Put /\ End("failed")

(* Fabric refuses a request that names a role twice. *)
PutRefused ==
    /\ AllBuilt
    /\ SyncCount > 0
    /\ ~RequestDistinct
    /\ End("failed")
    /\ UNCHANGED fabric

(* "No Data Access Policies to sync..." *)
NothingToSync ==
    /\ AllBuilt
    /\ SyncCount = 0
    /\ End("unchanged")
    /\ UNCHANGED fabric

(* Any call to a service or to a handler of the caller may raise, and ends *)
(* the run where it stands.                                                *)
Fail ==
    /\ ServicesFail
    /\ pc \in Running
    /\ End("failed")
    /\ UNCHANGED fabric

-------------------------------------------------------------------------------
(* The environment: administrators *)

AdminMayAct == AdminsInterleave \/ pc \in Resting
Touch(name) == touched' = IF pc \in {"build", "lookup"} THEN touched \cup {name} ELSE touched

(* An administrator creates a role, ... *)
AdminCreate(name, members) ==
    /\ AdminMayAct
    /\ \E id \in RoleId \ {r.id : r \in fabric} :
         LET role == [name |-> name, id |-> id, members |-> members, origin |-> Admin,
                      rule |-> [paths |-> {<<>>}, cols |-> {}, rows |-> {}]]
         IN  /\ \A r \in fabric : ~SameName(r, role)
             /\ fabric' = fabric \cup {role}
    /\ Touch(name)
    /\ UNCHANGED <<pc, export, work, built, current, agent>>

(* ... changes the members of one, the weaver's own included, ... *)
AdminEdit(role, members) ==
    /\ AdminMayAct
    /\ members # role.members
    /\ fabric' = (fabric \ {role}) \cup {[role EXCEPT !.members = members, !.origin = Admin]}
    /\ Touch(role.name)
    /\ UNCHANGED <<pc, export, work, built, current, agent>>

(* ... or deletes one. *)
AdminDelete(role) ==
    /\ AdminMayAct
    /\ fabric' = fabric \ {role}
    /\ Touch(role.name)
    /\ UNCHANGED <<pc, export, work, built, current, agent>>

Environment ==
    \/ \E name \in AdminName, members \in AdminMembers : AdminCreate(name, members)
    \/ \E role \in fabric, members \in AdminMembers : AdminEdit(role, members)
    \/ \E role \in fabric : AdminDelete(role)

-------------------------------------------------------------------------------
Init ==
    /\ fabric = {}
    /\ pc = "ready"
    /\ export = NoExport
    /\ todo = <<>>
    /\ parts = <<>>
    /\ dap = None
    /\ pending = <<>>
    /\ built = <<>>
    /\ current = {}
    /\ usedNames = {}
    /\ graphMap = [p \in Principal |-> "unasked"]
    /\ touched = {}

Progress ==
    \/ MapPolicy \/ GetCurrentAccessPolicy \/ SplitNextPolicy
    \/ BuildDataAccessRolePolicy \/ BuildDataAccessPolicy
    \/ AddMember \/ SkipMember \/ CallDocumentedHandler
    \/ FinishRole \/ WarnNoMembers
    \/ PutDataAccessPolicy \/ PutWithoutAnswer \/ PutRefused \/ NothingToSync

Next == Run \/ ApplyAgain \/ Progress \/ Fail \/ Environment

Spec == Init /\ [][Next]_vars

(* A run, once started, is a sequential program and each call it awaits    *)
(* returns: its steps are taken.  Nobody is obliged to start a run, no     *)
(* call is obliged to fail.                                                *)
FairSpec == Spec /\ WF_vars(Progress)

-------------------------------------------------------------------------------
(* Properties *)

(* A step of the run that writes to Fabric. *)
WeaverWrites == pc # pc' /\ fabric' # fabric

(* No two roles built by one run have the same name (weaver.py:690-698):   *)
(* policies whose names sanitise to the same text, and parts of split      *)
(* policies, are told apart by the number.                                 *)
BuiltNamesDistinct ==
    RoleBased =>
        \A i, j \in DOMAIN built : built[i].name = built[j].name => i = j

(* Fabric would refuse, or confuse, a request that names a role twice up   *)
(* to case.  What is built and what is carried over as unmanaged must not  *)
(* meet (weaver.py:264-293), however the listed names are spelt.           *)
RequestNamesDistinct == AllBuilt => RequestDistinct

(* A PUT replaces the whole list, so every role in it that the weaver once *)
(* wrote, or that bears its suffix, is one built by this run: a role whose *)
(* policy is gone, or that was tampered with, does not outlive a sync      *)
(* (weaver.py:282-297).                                                    *)
NoStaleRole ==
    \A r \in fabric' : r.origin # Admin \/ EndsWithSuffix(r.name) =>
        \E i \in DOMAIN built : /\ built[i].origin = r.origin
                                /\ built[i].name = r.name
                                /\ built[i].members = r.members
                                /\ built[i].rule = r.rule
SyncLeavesNoStaleRole == [][WeaverWrites => NoStaleRole]_vars

(* The listing and the PUT are two calls and the PUT replaces everything.  *)
(* The roles the weaver does not manage come through it as they are,       *)
(* unless an administrator wrote them after the listing.                   *)
IsForeign(r) ==
    ~EndsWithSuffix(r.name) /\ ~(DeleteDefaultReaderRole /\ IsDefaultReader(r))
ForeignRoles(S) == {r \in S : IsForeign(r) /\ r.name \notin touched}
OnlyConcurrentEditsAreLost ==
    [][WeaverWrites => ForeignRoles(fabric') = ForeignRoles(fabric)]_vars

(* "Nothing to sync" is decided from four counters (weaver.py:303): it     *)
(* must be right, or a revoked role stays in Fabric.                       *)
SkipsOnlyWhenInSync == AllBuilt /\ SyncCount = 0 => Request = current

(* Within one run a principal resolves the same way in every role, even    *)
(* when Graph fails now and then: nobody keeps half of the roles.          *)
Objects(origin) ==
    UNION {ToSet(export[i].objects) : i \in
             {i \in DOMAIN export : IF RoleBased THEN origin[1] = export[i].role
                                    ELSE origin = <<export[i].schema, export[i].table>>}}
LookedUp(i) ==
    {o.principal : o \in {o \in Objects(built[i].origin) : ~o.known /\ o.kind # "GROUP"}}
    \ {o.principal : o \in {o \in Objects(built[i].origin) : o.known}}
ResolvesAlike ==
    \A i, j \in DOMAIN built : \A p \in LookedUp(i) \cap LookedUp(j) :
        p \in built[i].members <=> p \in built[j].members

(* The members of a role are the principals of its policy that the export  *)
(* or Graph identifies: all of them and nobody else.                       *)
Identified(o) == o.known \/ (o.kind # "GROUP" /\ o.principal \in Directory)
MembersAreIdentified ==
    \A i \in DOMAIN built :
        built[i].members = {o.principal : o \in {o \in Objects(built[i].origin) : Identified(o)}}

(* What the source denies or filters stays denied or filtered in every     *)
(* part a policy is split into: no part opens a denied table, and a filter *)
(* goes where its table goes (weaver.py:207-213, 714-779).                 *)
PolicyOf(r) == CHOOSE i \in DOMAIN export : export[i].role = r.origin[1]
CarriesConstraints(r, cols, rows) ==
    /\ \A c \in cols : c.grant /\ PathOf(c) \in r.rule.paths =>
         [path |-> PathOf(c), columns |-> c.columns] \in r.rule.cols
    /\ \A c \in rows : c.filter # "true" /\ PathOf(c) \in r.rule.paths =>
         [path |-> PathOf(c), filter |-> c.filter] \in r.rule.rows
ConstraintsTravel ==
    RoleBased => \A i \in DOMAIN built :
        LET policy == export[PolicyOf(built[i])]
        IN  CarriesConstraints(built[i], IF ColumnSecurity THEN policy.cols ELSE {},
                                         IF RowSecurity THEN policy.rows ELSE {})

(* Splitting loses nothing and adds nothing: once all is built, the parts  *)
(* of a policy open exactly its paths or, when nobody in it is known, none *)
(* was built; and no part exceeds the limit (weaver.py:217-236).           *)
PathsOf(role) == UNION {built[i].rule.paths : i \in {i \in DOMAIN built : built[i].origin[1] = role}}
SplitKeepsEveryPath ==
    RoleBased /\ AllBuilt =>
        /\ \A i \in DOMAIN built : Cardinality(built[i].rule.paths) <= MaxScopes
        /\ \A i \in DOMAIN export :
             PathsOf(export[i].role) \in {{}, RuleOf(export[i]).paths}

(* A role that is built again, from a policy whose name no other shares,   *)
(* is the same role of Fabric to whoever refers to it: it keeps its id.    *)
SyncKeepsIds ==
    [][WeaverWrites =>
         \A r \in current, q \in fabric' :
             r.origin = q.origin /\ r.origin # Admin => r.id = q.id]_vars

(* A run whose services answer does not fail: an unknown principal, a role *)
(* without members and names that meet are the run's own business          *)
(* (weaver.py:612-614, 825-835, 921-931).                                  *)
RunsSucceed == pc # "failed"

(* What the merge carries over as "not managed by PolicyWeaver"            *)
(* (weaver.py:264) was not written by the weaver.                          *)
UnmanagedAreNotOurs == AllBuilt => \A p \in UnmanagedPolicies : p.origin = Admin

(* The row filters of the Dataverse connector are always applied, whatever *)
(* the toggle says (plugins/dataverse/client.py:119-123).                  *)
RowFiltersAlwaysApply ==
    \A i \in DOMAIN built : CarriesConstraints(built[i], {}, export[PolicyOf(built[i])].rows)

(* A started run comes to an end: the loops over policies, parts and       *)
(* principals finish and the request is made, refused or skipped.          *)
RunEnds == pc \in Running ~> pc \in Resting

-------------------------------------------------------------------------------
(* What the proofs of WeaverAgentProofs rest on. *)

(* The suffix of the configuration is one that sanitising leaves alone. *)
SuffixSurvives == Suffix = ManagedSuffix /\ CleanSuffix = ManagedSuffix

(* Between runs, and until the listing is there, nothing is built. *)
NothingBuiltYet == pc \notin {"build", "lookup"} => built = <<>>

(* Every name a run has given is in use, the one being built apart from    *)
(* those built before it.                                                  *)
NamesInUse ==
    RoleBased =>
        /\ \A i \in DOMAIN built : built[i].name \in usedNames
        /\ pc = "lookup" => /\ dap.name \in usedNames
                            /\ \A i \in DOMAIN built : built[i].name # dap.name

NamesInv == NothingBuiltYet /\ NamesInUse /\ BuiltNamesDistinct

(* Every role listed or stored has an id, and bears the suffix unless an   *)
(* administrator wrote it; every role a run builds bears it.               *)
RolesHaveIds == \A r \in fabric \cup current : r.id \in RoleId
OursBearSuffix == \A r \in fabric \cup current : r.origin = Admin \/ EndsWithSuffix(r.name)
BuiltBearSuffix ==
    /\ \A i \in DOMAIN built : EndsWithSuffix(built[i].name)
    /\ pc = "lookup" => EndsWithSuffix(dap.name)

(* The listing holds the foreign roles of the item but for those touched   *)
(* since.                                                                  *)
ListingStands ==
    pc \in {"build", "lookup"} => ForeignRoles(current) = ForeignRoles(fabric)

MergeInv == RolesHaveIds /\ OursBearSuffix /\ BuiltBearSuffix /\ ListingStands
===============================================================================
