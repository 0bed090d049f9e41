---------------------------- MODULE MCWeaverAgent ----------------------------
(* Small instances of WeaverAgent: the constants the .cfg files choose from. *)
EXTENDS WeaverAgentRefinement, TLC

CONSTANTS sales, hr, ops,         \* source roles
          alice, bob, carol, team \* principals

W(w) == <<"word", w>>

(* Words, and what lower() makes of them. *)
MCWord == {"Sales", "sales", "Hr", "hr", "Ops", "ops", "PW", "pw", "x", "Part", "part",
           "ID", "id", "t1", "t2", "DefaultReader", "defaultreader"}
MCLowerCase ==
    [w \in MCWord |->
        CASE w = "Sales" -> "sales" [] w = "Hr" -> "hr" [] w = "Ops" -> "ops"
          [] w = "PW" -> "pw" [] w = "Part" -> "part" [] w = "ID" -> "id"
          [] w = "DefaultReader" -> "defaultreader"
          [] OTHER -> w]

(* Names that stay apart when sanitised, and names that do not: sales and  *)
(* hr become the same, and ops is what their second becomes.               *)
DistinctStem == (sales :> <<W("Sales")>>) @@ (hr :> <<W("Hr")>>)
                @@ (ops :> << <<"number", 1>>, W("Ops") >>)
ClashingStem == (sales :> <<W("Sales")>>) @@ (hr :> <<W("Sales")>>)
                @@ (ops :> <<W("Sales"), <<"number", 1>> >>)

PW        == <<W("PW")>>
PWSigned  == <<W("x"), W("PW")>>     \* "-PW": x stands for the sign that is dropped
MCDefaultReader == <<W("defaultreader")>>

NoMirror == <<>>
T2Mirror == (<<"s", "t2">> :> "m2")
MCTableStem ==
    [x \in (Schema \cup {None}) \X (Table \cup {None}) |->
        IF x[1] = None THEN <<W("Ops")>>
        ELSE IF x[2] = None THEN <<W("Hr")>> ELSE IF x[2] = "t2" THEN <<W("Sales"), W("t2")>>
        ELSE <<W("Sales"), W("t1")>>]

(* Administrators' names: without the suffix, DefaultReader, with the      *)
(* suffix inside the name and with the suffix in another case.             *)
PlainName  == {<<W("Ops")>>}
PlainNames == {<<W("Ops")>>, <<W("DefaultReader")>>}
OddNames   == {<<W("DefaultReader")>>, <<W("Sales"), W("pw")>>, <<W("PW"), W("Ops")>>}
NoNames    == {}
TeamOnly   == {{team}}

Known(p)   == [principal |-> p, kind |-> "USER", known |-> TRUE]
Unknown(p) == [principal |-> p, kind |-> "USER", known |-> FALSE]
App(p)     == [principal |-> p, kind |-> "SERVICE_PRINCIPAL", known |-> FALSE]
Group(p)   == [principal |-> p, kind |-> "GROUP", known |-> TRUE]
LostGroup(p) == [principal |-> p, kind |-> "GROUP", known |-> FALSE]

Select(t) == [schema |-> "s", table |-> t, grant |-> TRUE]
Deny(t)   == [schema |-> "s", table |-> t, grant |-> FALSE]
Row(t, f) == [schema |-> "s", table |-> t, filter |-> f]
Col(t, c) == [schema |-> "s", table |-> t, columns |-> c, grant |-> TRUE]
Role(r, scopes, objects, cols, rows) ==
    [role |-> r, part |-> 0, scopes |-> scopes, objects |-> objects,
     cols |-> cols, rows |-> rows]

T1  == <<Select("t1")>>
T12 == <<Select("t1"), Select("t2")>>

(* Nothing; one role; two, one of them split; a role whose table is denied. *)
(* carol is not in the directory, but the export brings her id.           *)
EndsExport ==
    { NoExport, <<>>,
      << Role(sales, T1, <<Known(carol), Unknown(bob)>>, {}, {}) >>,
      << Role(sales, T12, <<Known(alice)>>, {}, {Row("t1", "p")}),
         Role(ops, T1, <<Group(team), LostGroup(carol)>>, {}, {}) >>,
      << Role(hr, T1, <<Known(alice)>>, {}, {Row("t1", DenyAll)}),
         Role(sales, <<Select("t2")>>, <<Known(alice)>>, {}, {}) >> }

(* The smallest exports that change the item. *)
SmallExport == { <<>>, << Role(sales, T1, <<Known(alice)>>, {}, {}) >> }

(* Up to three policies whose names meet, two of them with parts, in       *)
(* several orders; the same people, known and unknown to Graph, in several *)
(* of them.                                                                *)
BuildExport ==
    { << Role(sales, T12, <<Unknown(bob), App(carol), Known(alice)>>, {}, {}),
         Role(hr, T12, <<App(carol), LostGroup(team)>>, {}, {}) >>,
      << Role(ops, T1, <<Known(alice), Unknown(bob)>>, {}, {}),
         Role(hr, T1, <<Unknown(bob)>>, {}, {}),
         Role(sales, T1, <<Known(alice)>>, {}, {}) >>,
      << Role(hr, T12, <<Unknown(bob)>>, {}, {}),
         Role(sales, T1, <<Unknown(alice), Known(bob), Unknown(bob)>>, {}, {}),
         Role(ops, <<Select("t2")>>, <<Unknown(alice), App(carol)>>, {}, {}) >> }

(* One policy over three tables with mixes of constraints on two of them.  *)
RulesExport ==
    LET scopes == {<<Deny("t1"), Select("t2")>>, <<Select("t3"), Select("t1"), Select("t2")>>}
        cols == {{}, {Col("t1", {"c1"})}, {Col("t1", {})}, {Col("t1", {"c1"}), Col("t2", {})},
                 {[Col("t1", {}) EXCEPT !.grant = FALSE]}}
        rows == {{}, {Row("t1", "p"), Row("t2", DenyAll)}} \cup {{Row("t1", f)} : f \in Filter}
    IN  {<<Role(sales, s, <<Known(carol)>>, m[1], m[2])>> :
            s \in scopes, m \in (cols \X {{}, {Row("t1", "p"), Row("t2", DenyAll)}})
                                 \cup ({{}, {Col("t1", {"c1"})}} \X rows)}

(* Every role-based export, and none at all. *)
RoleBasedExport == {NoExport, <<>>} \cup BuildExport \cup RulesExport

(* Row filters only: what a Dataverse role with Business-Unit depth brings. *)
FilteredExport == { << Role(sales, T12, <<Known(alice)>>, {}, {Row("t1", f), Row("t2", "p")}) >> :
                        f \in Filter }

(* The table-based mapping. *)
Grants(s, t, objects) == [schema |-> s, table |-> t, objects |-> objects]
TableExport ==
    { <<>>, << Grants("s", "t1", <<Known(alice), Unknown(bob)>>) >>,
      << Grants("s", "t1", <<Group(team)>>), Grants("s", "t2", <<App(bob), Known(alice)>>),
         Grants("s", None, <<Unknown(bob), Unknown(carol), Group(team)>>) >>,
      << Grants(None, None, <<Unknown(carol), Known(alice)>>) >> }

(* Nobody in one of the policies is known. *)
LonelyExport == { << Grants("s", "t2", <<Known(alice)>>), Grants("s", "t1", <<Unknown(carol)>>) >> }

(* The names of t1 and t3 meet when sanitised. *)
OddTableExport == TableExport \cup LonelyExport \cup
    { << Grants("s", "t1", <<Known(alice)>>), Grants("s", "t3", <<Group(team)>>) >> }

Ids == Permutations(RoleId)
===============================================================================
