------------------------- MODULE WeaverAgentRefinement -------------------------
(***************************************************************************)
(* The agent implements PolicySync, as long as administrators keep away    *)
(* while a run is under way: between them, the listing, the lookups, the   *)
(* splitting, the naming and the merge amount to one atomic replacement.   *)
(***************************************************************************)
EXTENDS WeaverAgent

Grant == [principal : Principal, path : Path,
          cols : SUBSET [path : Path, columns : SUBSET Column],
          rows : SUBSET [path : Path, filter : Filter]]

(* The constraints of a set that bear on what lies at or under a path. *)
Under(path, constraints) == {c \in constraints : IsPrefix(path, c.path)}

(* What is read of a path, and that a principal reads it. *)
Opening(path, cols, rows) ==
    [path |-> path, cols |-> Under(path, cols), rows |-> Under(path, rows)]
To(principal, g) ==
    [principal |-> principal, path |-> g.path, cols |-> g.cols, rows |-> g.rows]

-------------------------------------------------------------------------------
(* The grants an export stands for, read off the policies themselves:      *)
(* every object of a policy reads what each of its scopes grants, unless a *)
(* constraint of the policy takes the whole table away.                    *)

ColsOf(p) == {[path |-> PathOf(c), columns |-> c.columns] : c \in ActiveColumns(p)}
RowsOf(p) == {[path |-> PathOf(r), filter |-> r.filter] :
                r \in {r \in ActiveRows(p) : r.filter # "true"}}

Denied(p, path) ==
    \/ \E c \in ColsOf(p) : c.path = path /\ c.columns = {}
    \/ \E r \in RowsOf(p) : r.path = path /\ r.filter \in {DenyAll, "false"}

Opened(p) ==
    IF RoleBased
    THEN {Opening(PathOf(s), ColsOf(p), RowsOf(p)) :
             s \in {s \in ToSet(p.scopes) : s.grant /\ ~Denied(p, PathOf(s))}}
    ELSE {Opening(PathOf(p), {}, {})}

(* What an export grants to those of its objects that are in a set. *)
GrantsTo(o, p) == {To(o.principal, g) : g \in Opened(p)}
Stands(e, objects) ==
    UNION { UNION { GrantsTo(o, e[i]) : o \in ToSet(e[i].objects) \cap objects } :
            i \in DOMAIN e }

Exports == Export \ {NoExport}
SureOf   == [e \in Exports |-> Stands(e, {o \in Object : o.known})]
LookedOf == [e \in Exports |-> Stands(e, {o \in Object : ~o.known /\ o.kind # "GROUP"})]
MissedOf == IF TransientErrors
            THEN {missed \in SUBSET Principal : Principal \ Directory \subseteq missed}
            ELSE {Principal \ Directory}

-------------------------------------------------------------------------------
(* The refinement mapping: the grants of the roles of the item. *)

Opens(r) ==
    {To(m, Opening(path, r.rule.cols, r.rule.rows)) : m \in r.members, path \in r.rule.paths}

Managed == {r \in fabric : ~IsForeign(r)}

Phase == CASE pc = "ready" -> "idle"
           [] pc \in Running -> "running"
           [] pc \in {"synced", "unchanged"} -> "done"
           [] pc \in {"failed", "empty"} -> "failed"

PS == INSTANCE PolicySync
        WITH Exports <- Exports, Sure <- SureOf, Looked <- LookedOf, Missed <- MissedOf,
             access  <- UNION {Opens(r) : r \in Managed},
             foreign <- fabric \ Managed,
             phase   <- Phase

(* Every behaviour of the agent is a behaviour of PolicySync: a run that   *)
(* ends well has published exactly the grants of its export, whatever the  *)
(* item held before (weaver.py:111-124, 238-316).                          *)
ImplementsPolicySync == PS!Spec
===============================================================================
