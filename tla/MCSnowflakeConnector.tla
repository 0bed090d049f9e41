------------------------ MODULE MCSnowflakeConnector ------------------------
(* A small Snowflake account in many variants. *)
EXTENDS SnowflakeConnector, TLC

CONSTANTS ann, sue, bob, eve,       \* eve does not log in with an address
          analyst, senior, boss,    \* each inherits the one before
          lender, shared,           \* a role of its own; a database role, not listed
          ler                       \* what is left of lender without END

(* The parsers meet a blank, a CASE or an END in a role and in a condition, *)
(* and a W.                                                                *)
MCLets ==
    ("true" :> {"north", "south"}) @@ ("false" :> {})
    @@ ("region = 'north'" :> {"north"}) @@ ("region='north'" :> {"north"})
    @@ ("city = 'New York'" :> {"north"}) @@ ("city='NewYork'" :> {})
    @@ ("city = 'West'" :> {}) @@ ("city='West'" :> {})
    @@ ("status <> 'PENDING'" :> {"south"}) @@ ("status<>'PENDING'" :> {"south"})
    @@ ("status<>'PING'" :> {"north", "south"})
MCCondition == DOMAIN MCLets
MCFound     == MCCondition \ {"city = 'West'", "city='West'"}

Keep(changed) == changed @@ [text \in Role \cup MCCondition |-> text]
MCBare ==
    Keep(("region = 'north'" :> "region='north'") @@ ("city = 'New York'" :> "city='NewYork'")
         @@ ("city = 'West'" :> "city='West'") @@ ("status <> 'PENDING'" :> "status<>'PENDING'"))
MCCut == Keep((lender :> ler) @@ ("status<>'PENDING'" :> "status<>'PING'"))

MCSchemaOf == ("t1" :> "s1") @@ ("t2" :> "s2") @@ ("t3" :> "s1")

G(role, object, privilege) == [grantee |-> role, on |-> object, privilege |-> privilege]
Usage(role) == {G(role, "db", "USAGE"), G(role, "s1", "USAGE")}

Acct(grants, masks, rowPolicies, projection) ==
    [users       |-> {ann, sue, bob, eve},
     roles       |-> {analyst, senior, boss, lender},
     roleGrants  |-> {<<senior, analyst>>, <<boss, senior>>, <<senior, shared>>},
     userGrants  |-> {<<ann, analyst>>, <<sue, senior>>, <<bob, boss>>, <<eve, analyst>>, <<bob, lender>>},
     grants      |-> grants,
     masks       |-> masks,
     columns     |-> [t \in Table |-> {"c1", "c2"}],
     rowPolicies |-> rowPolicies,
     aggregation |-> {}, join |-> {}, projection |-> projection]

MaskOf(form, whens, otherwise) ==
    {[table |-> "t1", column |-> "c1",
      body |-> [form |-> form, whens |-> whens, otherwise |-> otherwise]]}
Shown(groups, value) == <<[groups |-> groups, then |-> value]>>
PolicyOf(form, whens, default) ==
    {[table |-> "t1", body |-> [form |-> form, whens |-> whens, default |-> default]]}
When(role, condition) == [groups |-> {role}, condition |-> condition, spelled |-> TRUE]

\* analyst reads t1 and t3; lender reads t2 but has no usage of the database.
Basic == Usage(analyst) \cup {G(analyst, "t1", "SELECT"), G(analyst, "t3", "SELECT"),
                              G(lender, "s2", "OWNERSHIP"), G(lender, "t2", "OWNERSHIP")}
\* The usage comes from an inherited role, a second grant from above.
Spread == Usage(analyst) \cup {G(senior, "t1", "SELECT"), G(boss, "t1", "OWNERSHIP"),
                               G(boss, "s2", "USAGE"), G(boss, "t2", "SELECT"), G(shared, "t2", "SELECT")}

In(groups, condition, default) ==
    PolicyOf("in", <<[groups |-> groups, condition |-> condition, spelled |-> TRUE]>>, default)
InSenior == In({senior, lender}, "true", "false")
ByCase   == PolicyOf("case", <<When(boss, "true"), When(analyst, "region = 'north'")>>, "city = 'New York'")
OnlyBoss == PolicyOf("case", <<When(boss, "true")>>, "city = 'New York'")
Odd      == PolicyOf("odd", <<>>, None)

(* What the parsers change or pass over: a list with a tail, a role whose  *)
(* name holds END, a WHEN in capitals, with two roles, or with a W; no     *)
(* ELSE; a literal that holds END.                                         *)
Pending  == PolicyOf("case", <<When(boss, "true")>>, "status <> 'PENDING'")
Changed ==
    {In({senior}, "region = 'north'", "false"), In({senior}, "true", "city = 'New York'"),
     PolicyOf("case", <<When(lender, "true")>>, "region = 'north'"),
     PolicyOf("case", <<[When(analyst, "region = 'north'") EXCEPT !.spelled = FALSE],
                        [When(analyst, "true") EXCEPT !.groups = {analyst, boss}],
                        When(boss, "city = 'West'"), When(senior, "true")>>, None),
     Pending}

(* Every supported form of mask and row access policy, naming the role     *)
(* that has the table, one above it, and one that has nothing to do with   *)
(* it; what is not supported; what the parsers choke on; a user with the   *)
(* name of a role that is not listed.                                      *)
Twice == <<[groups |-> {boss}, then |-> "text"], [groups |-> {senior}, then |-> "text"]>>
Masks ==
    UNION {{MaskOf("case", Shown({r}, "column"), "text"), MaskOf("case", Shown({r}, "text"), "column")} :
             r \in {analyst, boss, lender}}
    \cup {{}, MaskOf("odd", <<>>, "else"), MaskOf("case", Shown({analyst, boss}, "column"), "text"),
          MaskOf("case", Shown({boss}, "text"), "text"), MaskOf("case", Twice, "column"),
          {[m EXCEPT !.column = c] :
             m \in MaskOf("case", Shown({boss}, "text"), "column"), c \in {"c1", "c2"}}}

MCSource ==
    {Acct(g, m, p, {}) : g \in {Basic, Spread}, m \in Masks,
        p \in {{}, InSenior, ByCase, OnlyBoss, Odd}}
    \cup {Acct(Basic, {}, p, {}) : p \in Changed}
    \cup {Acct(Basic, {}, ByCase, {"t1"}),
          [Acct(Basic, {}, ByCase, {}) EXCEPT !.users = {ann, boss}, !.roles = {analyst}],
          Acct(Spread, MaskOf("raises", <<>>, "else"), {}, {}),
          Acct(Spread, {}, PolicyOf("raises", <<>>, None), {})}

(* Roles are taken away, between roles and from users; a user is disabled; *)
(* a mask and a policy come and go.                                        *)
Start == Acct(Basic, MaskOf("case", Shown({boss}, "column"), "text"), ByCase, {})
MCChange ==
    {<<Start, [Start EXCEPT !.roleGrants = {}]>>,
     <<Start, [Start EXCEPT !.userGrants = {<<ann, lender>>, <<sue, analyst>>}]>>,
     <<Start, [Start EXCEPT !.users = {sue}, !.grants = Spread]>>,
     <<Start, [Start EXCEPT !.masks = {}, !.rowPolicies = {}]>>,
     <<Start, [Start EXCEPT !.rowPolicies = OnlyBoss, !.join = {"t1"}]>>,
     <<Acct(Basic, {}, {}, {}), Start>>}

(* For the runs that end in a violation: a projection policy alone; a      *)
(* literal that holds END.                                                 *)
MCProjectionOnly == {Acct(Basic, {}, {}, {"t1"})}
MCPending        == {Acct(Basic, {}, Pending, {})}
MCNoChange       == {}
===============================================================================
