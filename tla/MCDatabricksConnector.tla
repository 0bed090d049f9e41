------------------------ MODULE MCDatabricksConnector ------------------------
(* A small metastore in many variants. *)
EXTENDS DatabricksConnector, TLC

CONSTANTS ann, bob,               \* users
          job,                    \* a service principal
          synced,                 \* a group of Entra
          inner, outer, lone      \* groups of the account; inner is in outer

MCSchemaOf == ("t1" :> "s1") @@ ("t2" :> "s2") @@ ("t3" :> "s1")

G(principal, object, privilege) == [grantee |-> principal, on |-> object, privilege |-> privilege]
Usage(principal) == {G(principal, "cat", "USE_CATALOG"), G(principal, "s1", "USE_SCHEMA")}

(* The parsers meet blanks, a WHEN and an END in conditions. *)
MCLets ==
    ("true" :> {"north", "south"}) @@ ("false" :> {})
    @@ ("region = 'north'" :> {"north"}) @@ ("region='north'" :> {"north"}) @@ ("region='south'" :> {"south"})
    @@ ("region <> 'New York'" :> {"south"}) @@ ("region<>'NewYork'" :> {"north", "south"})
    @@ ("status <> 'Whenever'" :> {"north"}) @@ ("status <> '" :> {})
    @@ ("status <> 'PENDING'" :> {"south"}) @@ ("status <> 'P" :> {})
MCCondition == DOMAIN MCLets

Keep(changed) == changed @@ [text \in MCCondition |-> text]
MCBare ==
    Keep(("region = 'north'" :> "region='north'") @@ ("region <> 'New York'" :> "region<>'NewYork'"))
MCUpToWhen == Keep("status <> 'Whenever'" :> "status <> '")
MCUpToEnd  == Keep("status <> 'PENDING'" :> "status <> 'P")

NoMask   == [form |-> "odd", whens |-> <<>>, otherwise |-> "else"]
NoFilter == [form |-> "odd", whens |-> <<>>, default |-> NoElse]

Store(grants, masks, maskBody, filters, filterBody) ==
    [users             |-> {ann, bob},
     servicePrincipals |-> {job},
     groups            |-> {synced, inner, outer, lone},
     members           |-> {<<ann, inner>>, <<job, inner>>, <<synced, inner>>, <<inner, outer>>, <<bob, outer>>, <<bob, lone>>},
     tables            |-> {"t1", "t2", "t3"},
     columns           |-> [t \in Table |-> {"c1", "c2"}],
     masks             |-> masks,
     filters           |-> filters,
     maskBodies        |-> [f \in MaskFunction |-> maskBody],
     filterBodies      |-> [f \in FilterFunction |-> filterBody],
     grants            |-> grants]

OnC1     == {[table |-> "t1", column |-> "c1", function |-> "m"]}
OnT1     == {[table |-> "t1", function |-> "f"]}
MaskOf(group, then, otherwise) ==
    [form |-> "case", whens |-> <<[group |-> group, then |-> then]>>, otherwise |-> otherwise]
When(group, condition) == [group |-> group, condition |-> condition, read |-> TRUE]
FilterOf(form, whens, default) == [form |-> form, whens |-> whens, default |-> default]

(* The three privileges together, over groups that contain each other, at  *)
(* several levels, on whole schemas; and parts of them.                    *)
MCGrants ==
    {Usage(outer) \cup {G(inner, "t1", "SELECT"), G(bob, "t3", "SELECT")},
     Usage(outer) \cup {G(outer, "s1", "SELECT"), G(inner, "t2", "SELECT"), G(synced, "t2", "SELECT")},
     Usage(ann) \cup {G(ann, "t1", "SELECT"), G(inner, "s1", "MODIFY"), G(inner, "t1", "ALL_PRIVILEGES")}
               \cup Usage(inner),
     {G(AccountUsers, "cat", "USE_CATALOG"), G(lone, "cat", "USE_SCHEMA"), G(outer, "s1", "USE_SCHEMA"),
      G(lone, "cat", "SELECT"), G(ann, "t3", "SELECT"), G(AccountUsers, "t1", "SELECT")},
     {G(inner, "s1", "USE_SCHEMA"), G(outer, "t1", "SELECT"), G(bob, "cat", "USE_CATALOG")},
     {G(outer, "cat", "ALL_PRIVILEGES"), G(job, "t1", "SELECT")} \cup Usage(job) \cup Usage(bob) \cup {G(bob, "t1", "SELECT")}}

MCMasks == {MaskOf(g, "column", "text") : g \in {inner, outer, lone}}
           \cup {MaskOf(inner, "text", "column"), MaskOf(synced, "text", "column"), MaskOf(lone, "column", "column"), NoMask}
MCFilters == {FilterOf("if", <<When(inner, "true")>>, "false"),
              FilterOf("case", <<When(inner, "region = 'north'"), When(outer, "region='south'")>>, "false"),
              FilterOf("case", <<When(outer, "region = 'north'"), When(inner, "region='south'")>>, "false"),
              FilterOf("case", <<When(lone, "true")>>, "region = 'north'"),
              FilterOf("case", <<When(AccountUsers, "region = 'north'"), When(inner, "true")>>, "false"),
              NoFilter}

(* What the parsers change, cut or pass over: two WHENs of a mask, with    *)
(* the column on either side; blanks, a WHEN and an END in conditions; a   *)
(* branch that the pattern does not take; no ELSE.                         *)
Twice(then, otherwise) ==
    [form |-> "case", whens |-> <<[group |-> outer, then |-> then], [group |-> inner, then |-> "text"]>>,
     otherwise |-> otherwise]
NewYork == FilterOf("if", <<When(inner, "true")>>, "region <> 'New York'")
Changed == {NewYork,
            FilterOf("if", <<When(inner, "region = 'north'")>>, "false"),
            FilterOf("case", <<When(inner, "status <> 'Whenever'")>>, "status <> 'PENDING'"),
            FilterOf("case", <<[When(inner, "region = 'north'") EXCEPT !.read = FALSE], When(outer, "true")>>,
                     "region='south'"),
            FilterOf("case", <<When(inner, "true")>>, NoElse)}

Quiet == {Store(g, {}, NoMask, {}, NoFilter) : g \in MCGrants}
         \cup {Store(g, OnC1, m, {}, NoFilter) : g \in MCGrants, m \in MCMasks}
         \cup {Store(g, {}, NoMask, OnT1, f) : g \in MCGrants, f \in MCFilters}

(* Two masked columns and a filter on one table; a parser that raises;     *)
(* what the parsers change; a mask for a group that is not listed.         *)
Start == Store(Usage(outer) \cup {G(inner, "t1", "SELECT"), G(outer, "t1", "SELECT")},
               OnC1 \cup {[table |-> "t1", column |-> "c2", function |-> "n"]},
               MaskOf(inner, "column", "text"), OnT1, FilterOf("if", <<When(inner, "true")>>, "region='south'"))
Odd == {[Start EXCEPT !.maskBodies["n"].form = "raises"], [Start EXCEPT !.filterBodies["f"].form = "raises"],
        [Start EXCEPT !.groups = {synced, outer}, !.members = {<<ann, outer>>}, !.grants = Usage(outer)]}
       \cup {[Start EXCEPT !.filterBodies["f"] = f] : f \in Changed}
       \cup {[Start EXCEPT !.maskBodies["m"] = m] : m \in {Twice("column", "text"), Twice("text", "column")}}

MCSource == Quiet \cup {Start} \cup Odd

(* Members leave and groups go; grants move from one principal to another; *)
(* a mask and a filter are dropped, or their functions replaced; a table   *)
(* is dropped.                                                             *)
MCChange ==
    {<<Start, [Start EXCEPT !.members = {<<ann, inner>>, <<bob, lone>>}]>>,
     <<Start, [Start EXCEPT !.members = {<<ann, inner>>, <<inner, lone>>},
                            !.grants = Usage(lone) \cup {G(bob, "s1", "SELECT")}]>>,
     <<Start, [Start EXCEPT !.masks = {}, !.filters = {}]>>,
     <<Start, [Start EXCEPT !.maskBodies = [f \in MaskFunction |-> MaskOf(outer, "text", "column")],
                            !.filterBodies = [f \in FilterFunction |-> FilterOf("case", <<When(outer, "region = 'north'")>>, "false")]]>>,
     <<Start, [Start EXCEPT !.users = {bob}, !.tables = {"t2"}]>>}

(* For the run that ends in a violation: a literal with a blank. *)
MCNewYork  == {Store({G(bob, "t1", "SELECT")} \cup Usage(bob), {}, NoMask, OnT1, NewYork)}
MCNoChange == {}
===============================================================================
