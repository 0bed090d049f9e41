-------------------------- MODULE DataverseConnector --------------------------
(***************************************************************************)
(* The Dataverse connector at work: map_policy fetches the security        *)
(* metadata collection by collection over the Web API (plugins/dataverse/  *)
(* api.py), while administrators of Dataverse may change it, and builds    *)
(* the export of what it fetched (DataverseExport).                        *)
(*                                                                         *)
(* A collection is one GET here: its pages, and the retries of the HTTP    *)
(* session, are inside the step; that a GET is turned away for its token   *)
(* and sent again with a new one is not.  A collection that cannot be      *)
(* fetched ends the run; what is fetched item by item (privileges per      *)
(* role, members per team, the parts of a profile) is left empty instead.  *)
(***************************************************************************)
EXTENDS DataverseExport

CONSTANTS
    Source,        \* the environments the source may start as
    Change,        \* pairs of environments: what administrators may do to it
    ServiceFails   \* a GET, or the renewal of the token, may fail for good

ASSUME ConnectorAssumption ==
    /\ Source \subseteq Environment
    /\ Change \subseteq Environment \X Environment
    /\ ServiceFails \in BOOLEAN

Possible == Source \cup {c[2] : c \in Change}

(* What the collections of one environment have to do with each other.     *)
(* Privileges and their depths are two views of one relation (api.py:291,  *)
(* 303), in which a privilege has one depth for a role; a privilege is of  *)
(* a role there is, a team that is gone has no members; and a read         *)
(* privilege is for one table, by its name, which no administrator changes *)
(* (api.py:352-355).                                                       *)
ASSUME ServedAssumption ==
    \A e \in Possible :
        /\ IsFiniteSet(e.roles) /\ IsFiniteSet(e.teams) /\ IsFiniteSet(e.profiles)
        /\ \A d \in e.depths : \E p \in e.privileges : p.role = d.role /\ p.privilege = d.privilege
        /\ \A d, f \in e.depths : d.role = f.role /\ d.privilege = f.privilege => d = f
        /\ \A p \in e.privileges : \E r \in e.roles : r.id = p.role
        /\ \A t \in Team \ e.teams : e.members[t] = {}
        /\ \A f \in Possible : \A p \in e.privileges, q \in f.privileges :
               p.privilege = q.privilege => p.table = q.table

VARIABLES
    dv,        \* the environment as Dataverse has it
    pc,        \* the collection to fetch next, or how the run ended
    todo,      \* the items of that collection still to be fetched
    snap,      \* env: what was fetched
    token,     \* the cached access token: "none", "fresh" or "stale"
    attempt,   \* how far the present GET has come
    export,    \* the policies of the export
    seen,      \* history: the environments there were during the run
    refused    \* history: the service, or the credential, failed for good

vars == <<dv, pc, todo, snap, token, attempt, export, seen, refused>>

Resting == {"ready", "exported", "empty", "failed"}

\* The order of get_environment_security_map, and what each collection is
\* followed by.
Whole == {"units", "users", "teams", "roles", "depths", "userRoles", "teamRoles", "profiles"}
Following ==
    [units |-> "users", users |-> "teams", teams |-> "roles", roles |-> "depths",
     depths |-> "privileges", privileges |-> "userRoles", userRoles |-> "teamRoles",
     teamRoles |-> "members", members |-> "profiles", profiles |-> "profile",
     profile |-> "export"]

Part == <<"readable", "profileUsers", "profileTeams">>

Item == (SecurityRole \cup Team) \cup (Profile \X (1 .. 3))

NothingFetched ==
    [units |-> {}, users |-> {}, teams |-> {}, roles |-> {}, depths |-> {},
     privileges |-> {}, userRoles |-> {}, teamRoles |-> {},
     members |-> [t \in Team |-> {}], profiles |-> {},
     readable |-> [p \in Profile |-> {}], profileUsers |-> [p \in Profile |-> {}],
     profileTeams |-> [p \in Profile |-> {}]]

TypeOK ==
    /\ dv \in Environment
    /\ pc \in Resting \cup DOMAIN Following \cup {"export"}
    /\ todo \in Seq(Item)
    /\ snap \in Environment
    /\ token \in {"none", "fresh", "stale"}
    /\ attempt \in {"first", "unauthorised", "again", "raised"}
    /\ \A p \in export : IsPolicy(p)
    /\ \A e \in seen : e \in Environment
    /\ refused \in BOOLEAN

-------------------------------------------------------------------------------
(* One GET: _request_get, and the raise_for_status that follows.  The      *)
(* token is asked for once and then used without a look at its age (api.py:*)
(* 88-90), so that one that has expired always meets a 401.                *)

Requesting == pc \in Whole \/ todo # <<>>

Answered ==
    /\ attempt \in {"first", "again"}
    /\ token # "stale"
    /\ token' = "fresh"
    /\ attempt' = "first"
    /\ UNCHANGED refused

(* A second 401 is an error like any other. *)
Unauthorised ==
    /\ Requesting
    /\ attempt \in {"first", "again"}
    /\ token = "stale"
    /\ attempt' = IF attempt = "first" THEN "unauthorised" ELSE "raised"
    /\ UNCHANGED <<dv, pc, todo, snap, token, export, seen, refused>>

\* Mutant: the GET is sent again with the token it had.
RenewNothing ==
    /\ attempt = "unauthorised"
    /\ attempt' = "again"
    /\ UNCHANGED <<dv, pc, todo, snap, token, export, seen, refused>>

Renew ==
    /\ attempt = "unauthorised"
    /\ token' = "fresh"
    /\ attempt' = "again"
    /\ UNCHANGED <<dv, pc, todo, snap, export, seen, refused>>

(* Any other error, of the GET or of the credential. *)
Refused ==
    /\ ServiceFails
    /\ Requesting
    /\ attempt # "raised"
    /\ token' \in IF token = "none" THEN {"none", "fresh"} ELSE {token}
    /\ attempt' = "raised"
    /\ refused' = TRUE
    /\ UNCHANGED <<dv, pc, todo, snap, export, seen>>

Raised == attempt = "raised" /\ attempt' = "first" /\ UNCHANGED <<token, refused>>

-------------------------------------------------------------------------------
(* A run *)

(* A connector is made for each run; it has no token yet. *)
MapPolicy ==
    /\ pc \in Resting
    /\ pc' = "units"
    /\ todo' = <<>>
    /\ snap' = NothingFetched
    /\ token' = "none"
    /\ attempt' = "first"
    /\ export' = {}
    /\ seen' = {dv}
    /\ refused' = FALSE
    /\ UNCHANGED dv

(* The items a collection is fetched by, in the order they were served. *)
Items(collection, s) ==
    CASE collection = "privileges" -> SetToSeq({r.id : r \in s.roles})
      [] collection = "members"    -> SetToSeq(s.teams)
      [] collection = "profile"    -> SetToSeq(s.profiles \X (1 .. 3))
      [] OTHER                     -> <<>>

GoOn(s) == pc' = Following[pc] /\ todo' = Items(pc', s)

(* The roles of users are asked for with the users that are enabled. *)
Served(collection) ==
    IF collection = "userRoles" THEN {a \in dv.userRoles : a[1] \in dv.users}
                                ELSE dv[collection]

FetchCollection ==
    /\ pc \in Whole
    /\ Answered
    /\ snap' = [snap EXCEPT ![pc] = Served(pc)]
    /\ GoOn(snap')
    /\ UNCHANGED <<dv, export, seen>>

\* _get_paged raises, and nothing catches it.
CollectionFails ==
    /\ pc \in Whole
    /\ Raised
    /\ pc' = "failed"
    /\ UNCHANGED <<dv, todo, snap, export, seen>>

FetchPrivileges ==
    /\ pc = "privileges"
    /\ todo # <<>>
    /\ Answered
    /\ snap' = [snap EXCEPT !.privileges =
                    @ \cup {p \in dv.privileges : p.role = Head(todo)}]
    /\ todo' = Tail(todo)
    /\ UNCHANGED <<dv, pc, export, seen>>

FetchMembers ==
    /\ pc = "members"
    /\ todo # <<>>
    /\ Answered
    /\ snap' = [snap EXCEPT !.members[Head(todo)] = dv.members[Head(todo)]]
    /\ todo' = Tail(todo)
    /\ UNCHANGED <<dv, pc, export, seen>>

(* The permissions of a profile, its users and its teams, one after the other. *)
FetchProfile ==
    /\ pc = "profile"
    /\ todo # <<>>
    /\ Answered
    /\ LET profile == Head(todo)[1]
           part    == Part[Head(todo)[2]]
       IN  snap' = [snap EXCEPT ![part][profile] = dv[part][profile]]
    /\ todo' = Tail(todo)
    /\ UNCHANGED <<dv, pc, export, seen>>

(* What fails here is logged, and left empty. *)
ItemFails ==
    /\ pc \in {"privileges", "members", "profile"}
    /\ todo # <<>>
    /\ Raised
    /\ todo' = Tail(todo)
    /\ UNCHANGED <<dv, pc, snap, export, seen>>

ItemsDone ==
    /\ pc \in {"privileges", "members", "profile"}
    /\ todo = <<>>
    /\ GoOn(snap)
    /\ UNCHANGED <<dv, snap, token, attempt, export, seen, refused>>

(* Nobody reads anything, or nobody who does is known: None. *)
Export ==
    /\ pc = "export"
    /\ export' = BuildRoleBasedExport(snap)
    /\ pc' = IF export' = {} THEN "empty" ELSE "exported"
    /\ UNCHANGED <<dv, todo, snap, token, attempt, seen, refused>>

-------------------------------------------------------------------------------
(* The environment *)

(* A token that has just been renewed is good for the GET it is renewed    *)
(* for: it lives an hour, a GET a few minutes at most.                     *)
TokenExpires ==
    /\ token = "fresh"
    /\ attempt # "again"
    /\ pc \notin Resting
    /\ token' = "stale"
    /\ UNCHANGED <<dv, pc, todo, snap, attempt, export, seen, refused>>

SourceChanges ==
    /\ \E c \in Change : dv = c[1] /\ dv' = c[2]
    /\ seen' = IF pc \in Resting THEN seen ELSE seen \cup {dv'}
    /\ UNCHANGED <<pc, todo, snap, token, attempt, export, refused>>

Init ==
    /\ dv \in Source
    /\ pc = "ready"
    /\ todo = <<>>
    /\ snap = NothingFetched
    /\ token = "none"
    /\ attempt = "first"
    /\ export = {}
    /\ seen = {}
    /\ refused = FALSE

Progress ==
    \/ Unauthorised \/ Renew \/ Refused
    \/ FetchCollection \/ CollectionFails
    \/ FetchPrivileges \/ FetchMembers \/ FetchProfile \/ ItemFails \/ ItemsDone
    \/ Export

Next == MapPolicy \/ Progress \/ TokenExpires \/ SourceChanges

Spec == Init /\ [][Next]_vars

-------------------------------------------------------------------------------
(* Who reads which rows in Dataverse, when its environment is one of envs  *)
(* from one moment to the next.                                            *)

TeamsOf(user, envs) == {t \in Team : \E e \in envs : user \in e.members[t] /\ t \in e.teams}
HeldBy(principals, envs) ==
    {role \in SecurityRole :
        \E e \in envs, p \in principals : <<p, role>> \in e.userRoles \cup e.teamRoles}

(* The unit of a role and the units below it, along any chain of parents   *)
(* there was: what every set that is closed under them holds.              *)
UnitsBelow(role, envs) ==
    LET edges == UNION {e.units : e \in envs}
    IN  {b \in Unit :
            \E e \in envs :
                /\ UnitOf(e, role) # None
                /\ \A S \in SUBSET Unit :
                       /\ UnitOf(e, role) \in S
                       /\ \A x \in edges : x.parent \in S => x.id \in S
                       => b \in S}

(* Every privilege on the table counts, whatever its depth. *)
DepthsIn(role, table, envs) == UNION {DepthsOf(e, role, table) : e \in envs}

RowsByRole(user, role, table, envs) ==
    LET depths == DepthsIn(role, table, envs)
        owners == {user} \cup {t \in TeamsOf(user, envs) : role \in HeldBy({t}, envs)}
    IN  {r \in Row : \/ "Global" \in depths
                     \/ "Deep" \in depths /\ r[2] \in UnitsBelow(role, envs)
                     \/ "Local" \in depths /\ \E e \in envs : r[2] = UnitOf(e, role)
                     \/ "Basic" \in depths /\ r[1] \in owners}

RowsInDataverse(user, table, envs) ==
    IF \A e \in envs : user \notin e.users THEN {}
    ELSE UNION {RowsByRole(user, role, table, envs) :
                  role \in HeldBy({user} \cup TeamsOf(user, envs), envs)}

(* Who reads which rows under the export.  A team of Entra has in Entra    *)
(* the members it has in Dataverse.                                        *)
EffectiveUsers(policy, envs) ==
    policy.users \cup {u \in User : \E t \in policy.groups : t \in TeamsOf(u, envs)}
RowsExported(user, table, envs) ==
    UNION {policy.rows[table] :
             policy \in {p \in export : user \in EffectiveUsers(p, envs)
                                        /\ table \in DOMAIN p.rows}}

Known(envs) == {u \in EntraId \cap User : \E e \in envs : u \in e.users}
Settled == pc \in {"exported", "empty"}

(* Whatever fails to be fetched, and however the metadata changes while it *)
(* is fetched, nobody is given rows that no combination of what was there  *)
(* gave him: failures and torn reads close, and owners do not see each     *)
(* other's rows (client.py:119-123, 165-166, 673-678).                     *)
NoRowsGained ==
    Settled =>
        \A u \in Known(seen), t \in Table :
            RowsExported(u, t, seen) \subseteq RowsInDataverse(u, t, seen)

(* Of several depths on a table the widest is taken (api.py:587-598,       *)
(* client.py:708-711).  It holds what the others give, unless it is that   *)
(* of a unit and one of the others is that of the owner.                   *)
DepthsNested(e) ==
    \A role \in SecurityRole, t \in Table :
        LET depths == DepthsOf(e, role, t)
        IN  "Basic" \in depths /\ depths \cap {"Local", "Deep"} # {} => "Global" \in depths

(* "Exact access parity" (client.py:119-122): when every GET is answered   *)
(* and the metadata stays as it is, everybody known to Entra reads the     *)
(* rows he reads in Dataverse, a token that expires underway or not and    *)
(* however many privileges he reads a table by.                            *)
RowsAtParity ==
    Settled /\ ~refused =>
        \A e \in seen : seen = {e} /\ DepthsNested(e) =>
            \A u \in Known(seen), t \in Wanted :
                RowsExported(u, t, seen) = RowsInDataverse(u, t, seen)

(* Nobody shares a policy with somebody of other field security profiles:  *)
(* the column constraints of each policy are those each of its users would *)
(* get alone, directly, through a team or through a group (client.py:174-  *)
(* 186, 421-482).                                                          *)
ColumnsAreOwn ==
    Settled /\ ~refused =>
        \A e \in seen : seen = {e} =>
            \A p \in export : \A u \in EffectiveUsers(p, seen) \cap e.users :
                p.cols = ColumnConstraints(e, {u}, DOMAIN p.rows)

(* A run fails only if the service or the credential has failed for good:  *)
(* a token that has expired, at any GET and any number of times in a run,  *)
(* costs a second attempt and no more (api.py:77-85).                      *)
FailsOnlyWhenRefused == pc = "failed" => refused
===============================================================================
