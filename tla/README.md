# Policy Weaver in TLA+

Policy Weaver reads who may read what in a data source (Databricks Unity
Catalog, Snowflake, Dataverse) and mirrors it as data access roles of a
Microsoft Fabric item. This project models the parts of it that decide who ends
up with which access and checks them with TLC on small instances. Every safety
property that the runs check, and the refinement, is also proved with TLAPS for
every value of the constants; section 4 names the hypotheses.

Paths below are relative to the repository; `weaver.py` is
`policyweaver/weaver.py`.

## 1. The system

| Part | Code | State it keeps | Operations |
|---|---|---|---|
| Weaver agent | `weaver.py` | roles listed from Fabric, roles built, names in use, cache of Entra lookups | run, apply, split a policy, build a role, merge, PUT |
| Fabric client | `core/api/fabric.py`, `rest.py` | one token | list the roles, PUT all of them (POST, PATCH and DELETE have no caller) |
| Graph client | `core/api/microsoftgraph.py` | none | id of a user by mail, of a service principal by app id |
| Dataverse connector | `plugins/dataverse/` | a token, the environment fetched so far | map_policy: fetch, resolve, export |
| Snowflake connector | `plugins/snowflake/` | the account fetched so far (a connection per query) | map_policy: query, resolve roles, export |
| Databricks connector | `plugins/databricks/` | the account and the workspace fetched so far, a snapshot of privileges | map_policy: list, ask for functions and grants, resolve groups, export |
| Data models | `models/`, `plugins/*/model.py` | the export, roles of Fabric | records with aliases, a few lookups |
| Configuration, authentication, helpers | `core/conf.py`, `auth.py`, `common.py`, `utility.py` | class attributes set once | read YAML and key vault secrets, write snapshots |
| Export script | `connectors/snowflake/sf_export_grants.sql` | - | nothing in the Python code calls it |

**How they interact.** `WeaverAgent.run` validates the configuration, makes the
connector and calls `map_policy`. The connector returns an export, a list of
policies (role-based: principals, scopes, column and row constraints;
table-based: principals of one table), or `None`, which ends the run. The agent
then lists the roles of the Fabric item, builds one role per policy or part of
a policy, awaiting one Graph lookup per principal without an Entra id, merges
what it built with the listed roles that do not bear its suffix, and replaces
the whole list with a single PUT. A caller may pass a handler that is called
for principals that cannot be resolved. Nothing is persisted but the roles in
Fabric: the next run starts from the listing.

**What is hard.** The listing and the PUT are two calls with minutes of lookups
between them, and the PUT replaces everything, so administrators of the item
race with it. Every call may raise and end the run; the answer of the PUT may be
lost. Which listed roles belong to the weaver is decided by two different
comparisons of their names with a suffix, and the names are sanitised, numbered
and suffixed on the way. Policies of more than 500 scopes are split, with their
constraints. A connector reads its source through a dozen calls while the source
changes, some failures end the run and others are read as "nothing there".
Reading a table takes three privileges at three levels, in Snowflake through a
hierarchy of roles, in Databricks through groups in groups; a mask or a row
filter names groups, while a role of Fabric stands for one principal.

**What makes it correct.** For the agent: a run publishes exactly the grants of
its export or leaves the item as it was; it neither touches nor loses what it
does not manage; no role of it outlives the policy it came from; denied tables
and filters stay so in every part. For a connector: nobody is granted what the
source did not grant him, in spite of failures and changes; and without them
everybody keeps exactly what he has. `PROJECT.json` lists the places where this
could go wrong ("hazards"), each with the properties that watch over it.

## 2. Modules

| Module | Models |
|---|---|
| `RoleRule` | Pure part of building a role: paths of tables (mirrors included), splitting by the limit on scopes, denied tables, column and row constraints, the decision rule. |
| `WeaverAgent` | The agent as a state machine, with Fabric, Graph and the administrators as its environment; its properties. |
| `PolicySync` | Abstract: one atomic replacement of everything managed by the grants of one export, or nothing. |
| `WeaverAgentRefinement` | The refinement mapping from `WeaverAgent` to `PolicySync`. |
| `WeaverAgentProofs`, `WeaverPolicyProofs` | Theorems about `WeaverAgent`: types, names and the merge; what becomes of the policies and their principals. |
| `WeaverNamesProofs`, `WeaverPartsProofs` | The same, continued: requests without two names that Fabric takes for one, ids that are kept; parts that lose no path. |
| `WeaverRefinementProofs` | `WeaverAgent` implements `PolicySync`. |
| `DataverseExport` | Pure part of the Dataverse connector: depths, business units, ownership, field security profiles, the policies of the export. |
| `DataverseConnector` | A run of the connector: requests one after the other, failures, tokens, changes underneath; its properties. |
| `DataverseProofs` | Theorems about `DataverseConnector`. |
| `SnowflakeExport` | Pure part of the Snowflake connector: the hierarchy of roles, valid and special grants, masks and row access policies, the policies of the export. |
| `SnowflakeConnector` | A run of the connector: one query after the other, failures, changes underneath; its properties. |
| `SnowflakeProofs` | Theorems about `SnowflakeConnector`. |
| `DatabricksExport` | Pure part of the Databricks connector: groups, the three privileges and their inheritance, masks and filters, the policies of the export. |
| `DatabricksConnector` | A run of the connector: the walk over directory, schemas, tables, functions and grants, failures, changes underneath; its properties. |
| `DatabricksProofs` | Theorems about `DatabricksConnector`. |
| `MCWeaverAgent`, `MCDataverseConnector`, `MCSnowflakeConnector`, `MCDatabricksConnector` | The constants of the small instances. |

### The agent

State and code:

| Variable | In the code |
|---|---|
| `fabric` | the roles stored by Fabric (external) |
| `pc` | which await or loop the run is at; resting values say how the last run ended |
| `export`, `todo`, `parts` | `policy_export`, the policies and parts the two loops of `__apply_role_policies__` have left |
| `dap`, `pending` | the role under construction and its principals still to be looked up |
| `built`, `current` | `access_policies`, `self.current_fabric_policies` |
| `usedNames`, `graphMap` | `self.used_role_names`, `self.__graph_map` |
| `touched` | history: names administrators wrote since the listing |

A run is `Run`, `MapPolicy`, `GetCurrentAccessPolicy`, then per policy
`SplitNextPolicy` and per part `BuildDataAccessRolePolicy` (or
`BuildDataAccessPolicy` in the table-based mapping), then per principal
`AddMember` or `SkipMember` (or `CallDocumentedHandler`, which raises), then
`FinishRole` (or `WarnNoMembers`, which raises), and at the end one of
`PutDataAccessPolicy`, `PutWithoutAnswer`, `PutRefused`, `NothingToSync`. `Fail`
ends a run at any call. `ApplyAgain` is a caller that keeps the agent. The steps
are cut where the code awaits or calls a service, because that is where others
act: administrators create, edit and delete roles (`AdminCreate`, `AdminEdit`,
`AdminDelete`), always between runs and, with `AdminsInterleave`, within them.

Abstractions. A role name is a sequence of tokens, words and numbers;
sanitising is the given function `Stem` (and `CleanSuffix` for the suffix), so
that names which meet, names that begin with a digit and names that look
numbered are all covered, and `LowerCase` maps words. Ids, filters and principals
are values. Whether an export brings the Entra id of a principal is the field
`known`. Fabric stores what it is sent, gives new roles new ids and refuses two
roles of one name; it answers the listing in one page. Telemetry, logging,
snapshots and the history of lookups are left out.

Properties: `BuiltNamesDistinct`, `RequestNamesDistinct`,
`SyncLeavesNoStaleRole`, `OnlyConcurrentEditsAreLost`, `SkipsOnlyWhenInSync`,
`SyncKeepsIds`, `ResolvesAlike`, `MembersAreIdentified`, `ConstraintsTravel`,
`SplitKeepsEveryPath`, `RunsSucceed`, `RunEnds`, and `ImplementsPolicySync`;
each is stated in words above its definition.

The refinement maps the managed roles to the grants they make (principal, path,
constraints at or under the path), the others to `foreign`. A principal gets the
grants of a policy if the export brings its id or the lookup finds one. The grants an export
stands for are read off the policies directly, without splitting, naming or
merging, so the refinement says that all that machinery amounts to one
replacement. It holds while administrators keep away during runs; what happens
when they do not is the subject of `Concurrent`.

### The Dataverse connector

State: `dv`, the environment as Dataverse has it; `pc` and `todo`, the
collection to fetch and its items left; `snap`, the `DataverseEnvironment`
fetched so far; `token`; `export`; and as history `seen`, the environments there
were during the run, and `refused`, whether a request failed for good.

`FetchCollection` and `CollectionFails` are the collections whose failure ends
the run; `FetchPrivileges`, `FetchMembers`, `FetchProfile` and `ItemFails` are
those fetched item by item, whose failures are logged and leave the item empty;
`Export` is the rest of `map_policy`. `TokenExpires` makes the cached token
stale at any moment of a run, `SourceChanges` replaces the environment. Pages of
a collection and the retries of the HTTP session are inside one step.

How far one GET has come is `attempt`. A GET with a stale token is never answered
but turned away (`Unauthorised`); after the first time the token is renewed
(`Renew`) and the GET sent again, after the second the GET raises, as it does for
any other refusal of the service or of the credential (`Refused`), and only what
has raised can make `CollectionFails` or `ItemFails` happen (`Raised`). One
assumption is about time: a token that was just renewed is good for the GET it was
renewed for, since `_get_access_token` brings one that lives at least two minutes
more and mostly an hour (`TokenExpires` is not taken between the two).

A row filter is modelled by the set of rows it lets through, a row being its
owner and its business unit; the condition `false` is the empty set, no condition
is all rows. Whether a role is split per user and how, ownership through teams,
the descendants of a unit and the expansion of teams follow the code. What
Dataverse itself grants is stated independently in `RowsByRole`, with a closure
over the units' parents and over all environments seen in the run, and the
properties compare the two: `NoRowsGained` (always), `RowsAtParity` and
`ColumnsAreOwn` (when nothing failed and nothing changed), `FailsOnlyWhenRefused`.
A team of Entra is assumed to have the members in Entra that it has in Dataverse.
The units below a unit are those in every set that holds its children and is
closed under children.

`ServedAssumption` says what the collections of one environment have to do with
each other, as far as the code relies on it: the privileges of a role and their
depths are two views of one relation (`api.py:291`, `303`), a privilege is of a
role there is, a team that is gone has no members, the collections are finite, a
privilege has one depth for a role, and a read privilege is for one table, which the
code finds by the privilege's name (`api.py:352-355`). A table may be read by any
number of privileges, each with its depth: the code takes the widest
(`api.py:587-598`, `client.py:708-711`), while `RowsByRole` adds up what each gives.
The two agree if of two depths one contains the other, which `Basic` (the owner's
rows, wherever they lie) and `Local` or `Deep` (those of a unit) do not:
`RowsAtParity` is stated for environments without that pair on one table, unless
`Global` is there too (`DepthsNested`); `NoRowsGained` is stated for all. TLC evaluates
`ServedAssumption` on every environment of the run.

### The Snowflake connector

State: `sf`, the account as Snowflake has it; `pc`, the query to run next, in the
order of `__get_database_map__`; `todo`, the policies still to be taken apart;
`map`, the `SnowflakeDatabaseMap` fetched so far; `tablesWithMasks`; `export`; and
as history `seen` and `refused`, as for Dataverse.

`RunQuery` is one query of a view of ACCOUNT_USAGE and what is kept of its rows;
`FetchColumns` takes one mask or row access policy apart and runs the query for
the columns of its table, `ParserRaises` is one that its parser cannot take apart,
`QueryFails` any query that raises: nothing is caught or retried, so both end the
run. `Export` is the rest of `map_policy` in either mapping, a function of what
was fetched (`BuildRoleBasedExport`, `BuildTableBasedExport`). `SourceChanges`
replaces the account.

A row filter is the set of rows it lets through. The body of a mask or a row access
policy is kept as its form, the roles it names and, for each branch, what is shown or
a condition, which is a text with a meaning: `Lets` gives the rows it lets through
(none, if it is no condition). The parsers rewrite these texts, and so does the model:

- `api.py:469` deletes all blanks (`Bare`), of names too; of a CASE, `api.py:389` then
  deletes the letters CASE and END wherever they stand (`Cut`; `Squeezed` is both). What
  such a text lets through is looked up again, so `status <> 'PENDING'` becomes
  `status<>'PING'` with rows of its own.
- The pattern of `api.py:392` takes a WHEN with one role, in just these letters
  (`spelled`), whose condition has no W in it and does not begin right after a D
  (`Found`); it passes over any other without a sign (`BranchesFound`).
- Without an ELSE a role that no branch names has no condition (`DefaultRead`).
- What follows `current_role() in (...)` is not looked at (`RowsRead`): whoever is in
  the list has all rows.
- A mask counts as supported if its first WHEN names one role, since THEN is looked
  for where one quoted name would end (`api.py:560-565`, `OneNamed`); further WHENs are
  not looked at, and what is not a text counts as the column (`MaskType`).

Databases are one, since the configuration
names one and every query asks for it. A role's name may be a user's name, as
`__get_all_permission_objects__` looks a name up among the users first.

What Snowflake itself grants is stated independently: `Held`, a closure over
the edges of every account seen; `MayRead`; `ColumnsInSnowflake` and
`RowsInSnowflake`, by the mask's or policy's own branches. `NoTablesGained`,
`NoRowsGained` and `NoColumnsGained` say that changes between queries give nobody
what no combination of the accounts seen gave; `TablesAtParity` and
`GroupsAreServed` that without changes nobody loses a table, nor the rows that all
policies of a table leave to a role that one of them names. They are stated for accounts in which names are apart, policies have
the documented forms and columns stay (`NamesApart`, `MasksAsDocumented`,
`FiltersAsDocumented`, `TablesAsDocumented`, `ColumnsStand`), each with the line
that makes it necessary; the runs visit accounts outside of these too.

`NoRowsGained` compares what the export lets through with the texts as they are
written. A documented form is not enough for it: the texts must let through no more
after the rewriting than before (`TextsStand`). `DocumentedFilters` shows what happens
otherwise. In the same way `MasksAsDocumented` leaves out masks that are not among
those of `README.md:469-471` of the repository and that the parser takes for one of
them nevertheless: one with several WHENs is taken for its first WHEN and its ELSE
(`api.py:566-582`), although `README.md:457` promises the fallback for what is not
supported, so that the members of a role of a later WHEN may see the column.
`GroupsAreServed` is about what the export leaves to a role, so both of its sides are read as the parsers read them.

### The Databricks connector

State: `dbx`, directory and catalog as Databricks has them; `pc`; the walk
(`schemas`, `schema`, `tables`, `table`, `functions`: the loops of
`__get_catalog_schemas__` and `__get_schema_tables__`); `workspace`, what was
fetched; `export`; `seen`.

`FetchDirectory`, `GetCatalog`, `ListSchemas`, `ListTables`, `GetMask`,
`GetRowFilter`, `GetTableGrants`, `GetSchemaGrants`, `ListFunctions` and
`GetCatalogGrants` are one request each, in the order the code makes them; a
listing brings names of functions, columns with it, but neither the text of the
functions nor grants, and that is where changes bite. A column has one mask at
most and a table one filter, as attributes of the listing (`api.py:640-662`). `RequestFails` and
`ParserRaises` end a run, `ExportRaises` is the `KeyError` for a group that a mask
names and no listing brought. The pages of one listing are one request. `Export`
is `__apply_access_model__` with its snapshot and the policies of either mapping.

As for Snowflake, a filter is kept as its form, the groups it names and conditions
with a meaning, `Lets`. An IF loses all its blanks before anything else (`api.py:568`,
`Bare`). A CASE keeps them, but a branch's condition ends at the first WHEN, its
default at the first END, in a literal or a name as well (`api.py:489`, `507`,
`UpToWhen`, `UpToEnd`); a branch that the pattern does not take is passed over
(`read`), and a CASE without an ELSE is not supported. A WHEN that tests several
groups, or with NOT, is left out, and so is a text with an ELSE in it, which would move
the place where the default begins. A mask with several WHENs is read as its first WHEN
and its ELSE, if the ELSE is the column, and is not supported otherwise.
`NoRowsGained` and `NoColumnsGained` are stated for `FiltersAsDocumented` with
`TextsStand`, and for `MasksAsDocumented`; `DatabricksFilters` shows a documented filter
whose text does not stand.

The three flags the code computes for a principal at an object are the set
`KeyPermissions`; `HasReadPermissions` coalesces those of its groups over the
object and what contains it. Names of groups have no blanks but for
`account users`, because two of the parsers drop blanks (`api.py:436`, `568`). A
group synchronised from Entra is one member, as Fabric takes it.

What Unity Catalog itself grants is stated independently: `Holders` closes over
the groups of every source seen, `Uses` and `MayRead` ask for the three privileges
on the object or above it, `ColumnsInDatabricks` and `RowsInDatabricks` by what
each function did at some moment since its table was listed. One difference is
part of the statement: a mask *for the others than* a group hides the column from
its members in Databricks, while Fabric shows it to a member who is also in
another role that does not (`Faces`); `NoColumnsGained` therefore promises what
one of the identity's principals, alone, is shown. `README.md:468-471` of the repository describes
such masks without saying so. `NoTablesGained` assumes that
`ALL_PRIVILEGES` comes with usage (`AllWithUsage`), `TablesKept` that
`USE_SCHEMA` granted on the catalog is not relied on further down by its own
grantee (`UsageWhereItCounts`); `TablesKept` leaves out the groups of service
principals, which the lookup by application id never finds (`model.py:452`).

## 3. Runs

| Run | Asks | Bounds |
|---|---|---|
| `Sync` | role-based, run after run, failures everywhere, administrators between runs, names that meet, a directory that fails now and then, every mix of constraints: types, no stale role, names, constraints, nothing skipped wrongly, refinement | exports of up to 3 policies (nothing, empty, split, denied, numbered), 3 tables with a mirror, 2 scopes per part, role ids symmetric |
| `Concurrent` | administrators within runs, with names in which the suffix is inside or in another case: only what they just wrote is lost, ids are kept | 3 administrators' names, one of them a role nobody manages |
| `TableBased` | the table-based mapping on an agent kept by its caller, names that clash, lonely policies, handlers that raise | 3 tables, 6 exports |
| `Ends` | a run whose services answer ends, and not in failure; members carry an id (`FairSpec`) | exports of up to 3 policies, no failures |
| `Dataverse` | the connector over twenty environments and their changes | 3 users (one unknown to Entra), an Entra team and an owner team, 2 roles, 3 units in a chain, 2 tables, one profile, every depth, two privileges on one table |
| `Snowflake` | the connector over accounts that combine grants, masks and policies, with texts that the parsers change, and six changes at every point of a run | 4 users (one without an address), 4 roles three of them in a chain, a database role that is not listed, 3 tables in 2 schemas of which 2 are asked for |
| `Databricks` | the connector over metastores that combine grants, masks and filters, with texts that the parsers change, and five changes at every point of a run | 2 users, a service principal, an Entra group, 3 groups two of them nested, 3 tables in 2 schemas of which 2 are asked for |
| `RowToggle`, `SignInSuffix`, `UnsupportedTables`, `DocumentedFilters`, `DatabricksFilters` | five places where the code departs from what the repository says of it | |

Why the bounds are enough. The agent treats policies one at a time and they meet
only in names, the lookup cache and the merge; three policies, two of which have
parts, give every order of a name taken, a name numbered and a numbered name
taken. Two scopes per part stand for the limit of 500, with policies below, at and
above it. Two runs suffice to meet roles of an earlier run, and the number of runs
is not bounded. Three units in a chain are the least for which children and
descendants differ; two users with one team each way are the least for ownership
and profiles to diverge inside a role. A chain of three roles is the least in which
a role inherits a grant through another, and members reach it through another; a
group in a group, with a user in each, is the least for direct and indirect members
to differ, and a third group apart gives a privilege that comes from elsewhere. In
both connectors a policy or filter has two branches that count, enough for their
order to matter, and in Snowflake up to three before these that the pattern passes
over. The conditions are a handful of texts: one that the parsers leave alone, and for
each way in which they change or cut a text one that it happens to, with more rows,
with as many and with none afterwards. Each change replaces one thing a run reads at two moments, or two things
it reads at different ones.
`MaxNumber` bounds the numbers in names: a run that needs a larger one would be
stuck, and with at most four roles in a run none does.

Fairness. `FairSpec` has weak fairness on `Progress` only: a run is a
sequential program, and each call it awaits returns. Nobody is obliged to start a
run, and no call is obliged to fail. Nothing else in the project assumes
fairness. No run disables the search for deadlocks: a resting agent or connector
can always start again.

### What the violations show

- `RowToggle`: the Dataverse connector says its row filters are always applied,
  whatever `rowlevelsecurity` says; the agent drops them when the toggle is off.
- `SignInSuffix`: a suffix with a sign in it (say `-PW`) loses the sign in the
  names of roles but not in the test for managed ones; the second run takes the
  roles of the first for unmanaged and keeps them for ever.
- `UnsupportedTables`: the fallback for policies the weaver cannot express is said
  to cover aggregation, join and projection policies of Snowflake; the code looks
  for them on tables that have a row access policy as well, and a table with a
  projection policy alone is exported with all its rows.
- `DocumentedFilters`: a row access policy of Snowflake in the documented form, a CASE
  with ELSE `status <> 'PENDING'`, reaches Fabric as `status<>'PING'`, which lets through
  the rows it is there to hide.
- `DatabricksFilters`: the same for an IF of Databricks with the default
  `region <> 'New York'`, which reaches Fabric as `region<>'NewYork'`.

Two more departures are explored by `TableBased` and have no run of their own, since
what they lead to is a run that fails: a handler for unmapped policies written for the
one argument its docstring promises (`weaver.py:929`) is called with two
(`CallDocumentedHandler`), and the warning for a table-based policy of which no
principal resolves reads a field that is not there (`WarnNoMembers`,
`weaver.py:613`). `Ends`, where `RunsSucceed` holds, has neither.

## 4. Theorems

`WeaverAgentProofs` proves, for all constants that satisfy `AgentAssumption` and
the assumption of `RoleRule`:

- `TypeCorrect`: `Spec => []TypeOK`. It needs the types of the pure operators,
  among them that splitting a policy yields policies and that a stored request
  yields roles with ids.
- `BuiltNamesAreDistinct`: `Spec => []BuiltNamesDistinct`. The property alone is
  not inductive: a new name is chosen against the names in use, not against the
  names built. `NamesInv` adds that every name built is in use, that the name
  under construction is in use and is none of those built, and that nothing is
  built before the listing (an agent that is kept keeps its names, and a fresh
  one has none, which is harmless only because nothing is built then).
- `MergeInvariant`, under `SuffixSurvives` (sanitising leaves the suffix alone):
  `Spec => []MergeInv`. Its parts are that every listed or stored role has an id
  and bears the suffix unless an administrator wrote it, that every role built
  bears it, and that the listing and the item agree on the foreign roles not
  touched since.
- `ForeignRolesSurvive` (`OnlyConcurrentEditsAreLost`) and `StaleRolesGo`
  (`SyncLeavesNoStaleRole`), under `SuffixSurvives`: the only step of the agent
  that writes is `Put`; the lemmas `PutKeepsForeign` and `PutLeavesNoStaleRole`
  derive from `MergeInv` what it does. `SignInSuffix` shows that the
  assumption is needed.

`WeaverPolicyProofs` continues with

- `ConstraintsFollowTables` (`ConstraintsTravel`), `LookupsAgree`
  (`ResolvesAlike`) and `MembersAreRight` (`MembersAreIdentified`), under
  `PoliciesApart`: no two policies of one export are of the same role or table,
  which every connector ensures. They follow from `PoliciesInv`: every policy at
  work is a part of one of the export, with all its principals and constraints;
  every role built, and the one under construction but for the principals still
  pending, carries those constraints and has as members those of its principals
  that bring an id or were found; and the cache is true but for transient errors
  (`CacheInv`). That a role built early keeps agreeing with a cache that grows is
  why `Taken` asks for an answer to every principal, and not only for the members
  (`WorkStays`). `MembersAreRight` also assumes that Graph does not fail and that
  whoever is exported as a group without an id is not exported as something else
  too (`GroupsApart`), since the cache is asked before the kind is.
- `SkipsAreRight` (`SkipsOnlyWhenInSync`), with no assumption: the four counters are
  cardinalities, so the item and the listing must be shown finite (`FiniteInv`);
  then a sum of zero leaves nothing built, nothing unmanaged, and nothing listed.

`WeaverNamesProofs`, for the role-based mapping and under `SuffixSurvives`:

- `RequestsAreDistinct` (`RequestNamesDistinct`), if the words names are made of come
  in one spelling (`OneSpelling`). The assumption is the code's: names in use are
  compared with case (`weaver.py:690`), while Fabric compares without. A built role
  can only meet a built one (excluded by `NamesInv`) or one carried over (excluded by
  the suffix, `MergeInv`); two carried over come from the listing. `RequestInv` adds
  that Fabric and the listing hold no two roles of one name (`ListedApart`), which
  a PUT preserves only because its request is apart, and that every name in use is
  made of the run's own words (`OwnNames`).
- `OnlyServicesFail` (`RunsSucceed`), if services answer and the handler takes its
  arguments: what remains that could fail a run is a PUT refused for two equal names.
- `RebuiltRolesKeepIds` (`SyncKeepsIds`), for an agent of its own per run, if the
  names of two policies or parts never meet (`NamesApart`): a role is given an id by
  its name, so the name must be a function of where the role comes from
  (`NamedByOrigin`). That needs no name to be taken when its turn comes: `FreshInv`
  says that policies and parts still to come are apart from each other and that none
  of their names is in use.

`WeaverPartsProofs` proves `PathsSurviveSplitting` (`SplitKeepsEveryPath`) under
`PoliciesApart` and `GroupsApart`. `PoliciesInv` follows roles back to policies;
here `PartsInv` follows policies forward: each piece of each policy is in `parts`, or
under construction, or built, or has no member that can be found. The arithmetic
of the slices (every scope is in one, none is longer than the limit) is in `Division`
and the lemmas after it.

`WeaverRefinementProofs` proves `AgentImplementsPolicySync`: `Spec =>
ImplementsPolicySync`. `Run` and `ApplyAgain` are `Start`, `MapPolicy` is `Read` or
`Abort`, a failure is `Abort`, `NothingToSync` and each PUT that arrives is `Publish`,
the administrators are `Administer`, everything else stutters. The weight is in
`BuiltIsPublished`: at the end of the loop what is built opens what the export stands
for, neither more (each role is `Made` of a piece) nor less (each piece is accounted
for, by `PartsInv`). `RunInv` says where the export is at hand and that the listing is
still what Fabric holds. Hypotheses: administrators keep away during runs
(`~AdminsInterleave`; `Concurrent` shows what else happens), `SuffixSurvives`,
`GroupsApart`, and `OpensNoParent`. The last one was found by the proof. A policy that
denies a table drops its path by comparing paths as they are (`weaver.py:755`), so if
a policy opened a whole schema, a denial in it would be lost. No connector exports
such a policy: the scopes of role-based policies are tables
(`databricks/client.py:427`, `snowflake/client.py:399`,
`dataverse/client.py:207`, `374`, `493`), and `TablesOpenNoParent` proves that this is
enough.

The hypotheses have instances among those that TLC runs: `PoliciesApart`,
`GroupsApart`, `OneSpelling`, `SuffixSurvives` and `OpensNoParent` hold of the
constants of `Sync`, `Ends`, `Concurrent` and `TableBased`, `NamesApart` of those of
all but `Sync`, where names are made to meet.

`DataverseProofs` proves, for all environments that satisfy the assumptions,
all changes and all failures:

- `TypeCorrect` (`TypeOK`). `TypeInv` adds to the type what kind of item is gone through
  in which state, and that what is gone through is finite.
- `FailureExplained` (`FailsOnlyWhenRefused`). A GET that was turned away and one that
  raised look alike to the code around it, so the property is not inductive.
  `AttemptInv` says that a second attempt is made with a token that is good, hence not
  turned away, and that a GET has raised only if something was refused; without the
  renewal (the run's mutant) the first part is lost.
- `RowsNeverGained` (`NoRowsGained`). `FetchedInv` says that each element of what was
  fetched was there at some moment of the run. The pure half then has to give nobody
  more than the union over these moments: by direct assignment, by team, by ownership,
  at each depth, in a role that is split and in one that is not.
- `RowsKept` (`RowsAtParity`, with its `DepthsNested`) and `ColumnsKept`
  (`ColumnsAreOwn`), for runs in which nothing was refused and nothing changed. `StillInv` says how much has been served
  so far: the collections before `pc` are equal to the environment's, the items of the
  current one are equal or still to come. So at the export `snap` is the environment,
  and the policies are compared with `RowsByRole` case by case.

`SnowflakeProofs` proves, for all constants that satisfy the assumptions of
`SnowflakeExport` and `SnowflakeConnector` (any accounts, any changes, any
fallbacks, any texts with any meaning and any effect of the parsers on them), that `Spec` keeps `TypeOK` (`TypeCorrect`), `NoTablesGained`
(`TablesAreHeld`), `NoRowsGained` (`RowsAreHeld`) and `NoColumnsGained`
(`ColumnsAreHeld`). None of the last three is inductive: they speak of the export
only. `FetchedInv` says of the steps before it that what `map` holds of each kind
is what one of the accounts in `seen` had, masks and policies all of one account,
and that the columns of a table with masks were those of an account seen. What the properties take for granted
(names apart, documented forms, texts that stand, columns that stay) is part of their
statements. The
lemmas about the closure (`ClosureIsLeast`, used with the set of roles a user
holds) give `MembersHold`: whoever the connector lists for a role holds the role
and everything it inherits. Together they place every scope, row and column of
every policy among what the user has in Snowflake.

`TablesAreKept` (`TablesAtParity`) and `NamedGroupsAreServed` (`GroupsAreServed`) are
the converse. `HoldersOfOneMoment` dates users, roles, grants and memberships; if
only one account was seen, `MapIsACopy` makes `map` a copy of it, and then the
search of the connector is shown to find what the account has: members from
holders (`HoldersAreMembers`), the active roles (`AssignedIsActive`), the
privileges at each level (`HasIsPermits`, `ValidIsReadable`).

`DatabricksProofs` proves the four theorems of the same names for
`DatabricksConnector`. Here `FetchedInv` has to say which requests belong to one
moment: the groups and their members; a table's columns with the names of its
masks and filters. What a function does is that of some moment between the listing
and the export. `KeyPermissionsAreHeld` and `ReadersMayRead` show that a full set
of flags, however it is put together from a principal and its groups at three
levels, is the three privileges in Unity Catalog; `AssignedIsAFace`, `MaskLeaves`
and `FilterLeaves` do the same for columns and rows, for masks and filters of the
documented forms, and texts that stand.

`TablesAreKept` (`TablesKept`) and `NamedGroupsAreServed` (`GroupsAreServed`) need to
know that the walk misses nothing. `StillInv` says, for a run that saw one source
only, that each table and each schema is still to be visited, is being visited, or
has brought all its grants (`Walked`), and that masks and filters fetched are the
source's (`Constraining`); at the export `workspace` is a copy (`WorkspaceIsACopy`).
`GrantedRead` then goes through the search: the direct grant is found at the object,
usage on the schema under the key that `SchemaKey` chooses, usage of groups at any
level. The proof showed where `UsageWhereItCounts` is used, that `AllWithUsage` is not
needed in this direction, and that a second mask on a column would deny what the first
opens, which is why `Metastore` says there is one.

Only model-checked: `RunEnds`. It is a liveness property under fairness, which the
prover has no means for. Nothing proved rests on what a recursion over data computes:
closures are least sets, sequences are handled by their ranges.

## 5. Not modelled

Authentication, key vault secrets, YAML, logging and snapshot files (I/O, no
decision about access rests on them but the values they yield, which are
constants here); operations of the REST client nobody calls; the SQL export
script; Fabric's paging, unknown fields of roles, the expiry of the Fabric token,
and a second agent on the same item (hazards with a note each).

Of the Snowflake and the Databricks connector: the grammar of SQL; forms of masks and
filters are values, and what the parsers do to a text is a function on texts that an
instance gives, not computed from letters. Left out are conditions with an ELSE in
them (both), tails of an IN with a literal that is the name of a role (Snowflake),
WHENs with NOT or several groups and what follows the closing bracket of an IF
(Databricks), and the agent's replacement of `!=` by `<>` in conditions
(`weaver.py:656`), which changes a literal that holds it. Further: connection options;
in Databricks names of groups with blanks; several databases; pages of a listing that change between them; cycles of
roles or groups, which both sources refuse and the recursion of the code
(`snowflake/api.py:606`, `629`, `databricks/api.py:116`) would not survive; what is
fetched and not used (functions of a schema, users of the workspace). A column of
Snowflake that is renamed between the query for the masks and the query for the
columns of its table is exported unmasked; `NoColumnsGained` excludes this by name
(`ColumnsStand`).

## 6. Plan

1. `WeaverAgent` with `RoleRule`, `PolicySync`, the theorems about them and the
   refinement: done.
2. `DataverseExport`, `DataverseConnector`, `DataverseProofs`: done.
3. `SnowflakeExport`, `SnowflakeConnector`, `SnowflakeProofs`: done.
4. `DatabricksExport`, `DatabricksConnector`, `DatabricksProofs`: done.
5. To do: two agents on one item, and an agent that its caller keeps and that
   renames its roles at each run (`weaver.py:142`).
6. To do: weaken hypotheses of section 4 where the code allows more, `NamesApart`
   and `~ReuseAgent` of `RebuiltRolesKeepIds` first; state for the connectors
   that their exports satisfy what the agent's theorems assume of an export
   (`PoliciesApart`, `OpensNoParent`).
