------------------------------ MODULE PolicySync ------------------------------
(***************************************************************************)
(* What the weaver promises: a run that succeeds replaces, in one step,    *)
(* everything the weaver manages on the Fabric item with exactly the       *)
(* grants of one export, and leaves alone what it does not manage.  A run  *)
(* that fails has done all of it or nothing.  Names, ids, parts, members   *)
(* looked up one at a time, and the merge with the listed roles are means  *)
(* to that end and do not appear here.                                     *)
(***************************************************************************)
CONSTANTS
    Grant,        \* [principal, path, cols, rows]: one principal reads one path
    Principal,
    Exports,      \* the exports a connector returns, no NoExport among them
    Sure,         \* [Exports -> SUBSET Grant], the principal identified by the export
    Looked,       \* [Exports -> SUBSET Grant], the principal to be looked up
    NoExport,
    Missed        \* the sets of principals that may be missed by a lookup

VARIABLES
    access,   \* the grants that the managed roles of the item make
    foreign,  \* the roles of the item the weaver does not manage
    export,   \* the export the run under way is to publish
    phase     \* "idle", "running", "done", "failed"

item == <<access, foreign>>
vars == <<item, export, phase>>

(* A principal that is missed is missed in every grant of the run. *)
Published(e) ==
    {Sure[e] \cup {g \in Looked[e] : g.principal \notin missed} : missed \in Missed}

Init == access = {} /\ foreign = {} /\ export = NoExport /\ phase = "idle"

Start == phase # "running" /\ phase' = "running" /\ UNCHANGED <<item, export>>

Read ==
    /\ phase = "running"
    /\ export = NoExport
    /\ export' \in Exports
    /\ UNCHANGED <<item, phase>>

Publish ==
    /\ export # NoExport
    /\ access' \in Published(export)
    /\ phase' \in {"done", "failed"}
    /\ export' = NoExport
    /\ UNCHANGED foreign

Abort ==
    /\ phase = "running"
    /\ phase' = "failed"
    /\ export' = NoExport
    /\ UNCHANGED item

(* Administrators rewrite the item between runs. *)
Administer == phase # "running" /\ UNCHANGED <<export, phase>>

Next == Start \/ Read \/ Publish \/ Abort \/ Administer

Spec == Init /\ [][Next]_vars
===============================================================================
