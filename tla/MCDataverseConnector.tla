------------------------ MODULE MCDataverseConnector ------------------------
(* A small Dataverse environment in many variants. *)
EXTENDS DataverseConnector, TLC

CONSTANTS alice, bob, carol,  \* carol has no Entra object id
          crew, desk,         \* a team of Entra and an owner team
          reader, writer,
          hq, emea, fr,       \* business units, each under the one before
          secret              \* a field security profile

Chain == {[id |-> hq, parent |-> None], [id |-> emea, parent |-> hq], [id |-> fr, parent |-> emea]}

(* reader reads t1 at depth d, and t2 at depth e or not at all; writer     *)
(* reads t2 in its own unit.  Privileges are numbered per table; number 3  *)
(* is another one on t1.                                                   *)
Reads(d, e) ==
    {[role |-> reader, privilege |-> 1, depth |-> d], [role |-> writer, privilege |-> 2, depth |-> "Local"]}
    \cup (IF e = "none" THEN {} ELSE {[role |-> reader, privilege |-> 2, depth |-> e]})

Env(d, e, userRoles, teamRoles, secretUsers, secretTeams) ==
    [units        |-> Chain,
     users        |-> {alice, bob, carol},
     teams        |-> {crew, desk},
     roles        |-> {[id |-> reader, unit |-> hq], [id |-> writer, unit |-> fr]},
     depths       |-> Reads(d, e),
     privileges   |-> {[role |-> x.role, privilege |-> x.privilege,
                        table |-> IF x.privilege = 1 THEN "t1" ELSE "t2"] : x \in Reads(d, e)},
     userRoles    |-> userRoles,
     teamRoles    |-> teamRoles,
     members      |-> (crew :> {alice, bob}) @@ (desk :> {bob, carol}),
     profiles     |-> {secret},
     readable     |-> (secret :> {<<"t1", "c1">>}),
     profileUsers |-> (secret :> secretUsers),
     profileTeams |-> (secret :> secretTeams)]

(* reader reads t1 by a second privilege, at depth d. *)
Also(env, d) ==
    [env EXCEPT !.depths     = @ \cup {[role |-> reader, privilege |-> 3, depth |-> d]},
                !.privileges = @ \cup {[role |-> reader, privilege |-> 3, table |-> "t1"]}]

Alone    == {<<alice, reader>>}
Both     == {<<alice, reader>>, <<bob, reader>>, <<bob, writer>>}
CrewOnly == {<<crew, reader>>}
Teams    == {<<crew, writer>>, <<desk, reader>>}

(* Every depth, alone, beside Basic on the other table and beside another  *)
(* one on the same, for users and for both kinds of teams; the profile     *)
(* given to nobody, to one of two, and through a team.                     *)
MCSource ==
    {Env(d, "none", Alone, Teams, {}, {}) : d \in Depth}
    \cup {Env(d, "Basic", Both, CrewOnly, {}, {}) : d \in {"Deep", "Unknown"}}
    \cup {Env("Deep", "Global", {}, CrewOnly, u, t) : u \in {{}, {bob}}, t \in {{}, {crew}, {desk}}}
    \cup {Also(Env(d[1], "none", Both, Teams, {}, {}), d[2]) :
              d \in {<<"Local", "Deep">>, <<"Global", "Basic">>, <<"Basic", "Local">>, <<"Unknown", "Basic">>}}
    \cup {Env("Local", "none", Both, {}, {alice}, {}), Env("Local", "none", {}, {}, {}, {}),
          [Env("Basic", "Global", Both, Teams, {}, {crew}) EXCEPT !.users = {alice, carol}]}

(* A role is taken away, a user disabled, a role moved to another unit, a  *)
(* privilege widened, and a member of one team becomes one of the other.   *)
Start == Env("Basic", "none", Alone, Teams, {}, {})
MCChange ==
    {<<Start, [Start EXCEPT !.userRoles = {}]>>,
     <<Start, [Start EXCEPT !.users = {bob, carol}]>>,
     <<Start, [Start EXCEPT !.members = (crew :> {bob}) @@ (desk :> {alice})]>>,
     <<Start, [Start EXCEPT !.roles = {[id |-> reader, unit |-> emea], [id |-> writer, unit |-> fr]}]>>,
     <<Start, Env("Deep", "Global", {}, Teams, {}, {})>>}
===============================================================================
