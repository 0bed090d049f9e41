------------------------------- MODULE RoleRule -------------------------------
(***************************************************************************)
(* What one role of the export becomes in Fabric: the paths it opens, the  *)
(* column and row constraints that travel with them, and how a role with   *)
(* too many scopes is split into parts.  These are the pure parts of       *)
(* weaver.py (split_permission_scopes, __get_table_mapping__,              *)
(* __generate_rls_value__ and the first half of                            *)
(* __build_data_access_role_policy__); the state machine is WeaverAgent.   *)
(*                                                                         *)
(* A path is the sequence of its segments: <<>> is "*", <<s>> is           *)
(* "/Tables/s" and <<s, t>> is "/Tables/s/t", so that "p is q or a parent  *)
(* of q" is IsPrefix(p, q).  A row filter is a value: DenyAll, "false",    *)
(* "true" or a predicate.                                                  *)
(***************************************************************************)
EXTENDS Integers, Sequences, FiniteSets, SequencesExt

CONSTANTS
    None,            \* an absent schema or table
    Schema, Table,   \* names in the source catalog
    Column,          \* column names
    Filter,          \* the filter conditions the connectors produce
    DenyAll,         \* the condition "DENYALL", one of Filter
    Mirror,          \* config.mapped_items: <<schema, table>> -> mirror table
    FlatPaths,       \* config.type = DATAVERSE: no schema segment in a path
    ColumnSecurity,  \* config.constraints.columns.columnlevelsecurity
    RowSecurity,     \* config.constraints.rows.rowlevelsecurity
    MaxScopes        \* 500 in the code: scopes one Fabric role may hold

ASSUME RuleAssumption ==
    /\ None \notin Schema \cup Table
    /\ {DenyAll, "true", "false"} \subseteq Filter
    /\ DenyAll \notin {"true", "false"}
    /\ DOMAIN Mirror \subseteq Schema \X Table
    /\ {FlatPaths, ColumnSecurity, RowSecurity} \subseteq BOOLEAN
    /\ MaxScopes \in Nat \ {0}

Scope == [schema : Schema \cup {None}, table : Table \cup {None}, grant : BOOLEAN]
ColumnConstraint ==
    [schema : Schema, table : Table, columns : SUBSET Column, grant : BOOLEAN]
RowConstraint == [schema : Schema, table : Table, filter : Filter]

MirrorName == {Mirror[i] : i \in DOMAIN Mirror}
Path == Seq(Schema \cup Table \cup MirrorName \cup {None})

\* What a Fabric role grants on the item.
Rule == [paths : SUBSET Path,
         cols  : SUBSET [path : Path, columns : SUBSET Column],
         rows  : SUBSET [path : Path, filter : Filter]]

-------------------------------------------------------------------------------
(* __get_table_mapping__ *)

GetTableMapping(schema, table) ==
    LET item == <<schema, table>>
        name == IF item \in DOMAIN Mirror THEN Mirror[item] ELSE table
    IN  CASE table = None /\ (FlatPaths \/ schema = None) -> <<>>
          [] table = None /\ ~FlatPaths /\ schema # None  -> <<schema>>
          [] table # None /\ FlatPaths                    -> <<name>>
          [] table # None /\ ~FlatPaths                   -> <<schema, name>>

PathOf(x) == GetTableMapping(x.schema, x.table)

\* Mutants: the last scope of the slice is lost; the row constraints are.
SplitOffShort(policy, number, min, max) ==
    [policy EXCEPT !.part = number, !.scopes = SubSeq(policy.scopes, min + 1, max - 1)]
SplitOffUnfiltered(policy, number, min, max) ==
    [policy EXCEPT !.part = number, !.rows = {},
                   !.scopes = SubSeq(policy.scopes, min + 1,
                                     IF max > Len(policy.scopes) THEN Len(policy.scopes) ELSE max)]

(* A role with more than MaxScopes scopes becomes numbered parts; each     *)
(* part keeps the members and every constraint of the whole.               *)
SplitOffNewRolePolicy(policy, number, min, max) ==
    LET last == IF max > Len(policy.scopes) THEN Len(policy.scopes) ELSE max
    IN  [policy EXCEPT !.part   = number,
                       !.scopes = SubSeq(policy.scopes, min + 1, last)]

\* Mutant: the number of parts is rounded down.
SplitWholeParts(policy) ==
    IF Len(policy.scopes) <= MaxScopes
    THEN <<policy>>
    ELSE [i \in 1 .. Len(policy.scopes) \div MaxScopes |->
            SplitOffNewRolePolicy(policy, i, (i - 1) * MaxScopes, i * MaxScopes)]

SplitPermissionScopes(policy) ==
    LET parts == (Len(policy.scopes) + MaxScopes - 1) \div MaxScopes
    IN  IF Len(policy.scopes) <= MaxScopes
        THEN <<policy>>
        ELSE [i \in 1 .. parts |->
                SplitOffNewRolePolicy(policy, i, (i - 1) * MaxScopes, i * MaxScopes)]

(* The paths of the scopes that grant SELECT. *)
TablePaths(policy) == {PathOf(s) : s \in {s \in ToSet(policy.scopes) : s.grant}}

(* The column constraints the configuration lets through, and the tables   *)
(* one of them leaves without any column.                                  *)
ActiveColumns(policy) == {c \in policy.cols : ColumnSecurity /\ c.grant}
TablesWithAllColumnsDenied(policy) ==
    {PathOf(c) : c \in {c \in ActiveColumns(policy) : c.columns = {}}}

(* "DENYALL" and a condition that reads "false" deny the table; a          *)
(* condition that reads "true" is no constraint at all.                    *)
ActiveRows(policy) == {r \in policy.rows : RowSecurity}

\* Mutant: only the literal "DENYALL" denies.
TablesWithDenyAll(policy) ==
    {PathOf(r) : r \in {r \in ActiveRows(policy) : r.filter = DenyAll}}

TablesWithAllRowsDenied(policy) ==
    {PathOf(r) : r \in {r \in ActiveRows(policy) : r.filter \in {DenyAll, "false"}}}

(* _matches_table_paths *)
MatchesTablePaths(path, paths) == \E p \in paths : IsPrefix(p, path)

(* The decision rule of the role: the paths left after the denied tables   *)
(* are taken out, and the constraints that lie on or under one of them.    *)
RuleOf(policy) ==
    LET paths == TablePaths(policy) \ ( TablesWithAllColumnsDenied(policy)
                                        \cup TablesWithAllRowsDenied(policy) )
        cols  == {[path |-> PathOf(c), columns |-> c.columns] :
                    c \in {c \in ActiveColumns(policy) : c.columns # {}}}
        rows  == {[path |-> PathOf(r), filter |-> r.filter] :
                    r \in {r \in ActiveRows(policy) :
                             r.filter \notin {DenyAll, "true", "false"}}}
    IN  [paths |-> paths,
         cols  |-> {c \in cols : MatchesTablePaths(c.path, paths)},
         rows  |-> {r \in rows : MatchesTablePaths(r.path, paths)}]

===============================================================================
