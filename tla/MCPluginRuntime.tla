--------------------------- MODULE MCPluginRuntime ---------------------------
(***************************************************************************)
(* A small instance of PluginRuntime for TLC: two plugin folders.  The       *)
(* directories differ in the transform, a declaration, the schedule, and in  *)
(* what is wrong with them.                                                 *)
(***************************************************************************)
EXTENDS PluginRuntime

Folders == {"f", "g"}

Source(kind, ref, path) == [kind |-> kind, ref |-> ref, path |-> path]

F == [id |-> "f", enabled |-> TRUE, faults |-> {}, menu |-> "/f",
      source |-> Source("offset", "web", "/f")]
G == [id |-> "g", enabled |-> TRUE, faults |-> {}, menu |-> NoMenu,
      source |-> Source("postgres", "db", "")]

Base == [
    connections |-> << [id |-> "web", connector |-> "http", faults |-> {}],
                       [id |-> "db", connector |-> "postgres", faults |-> {}] >>,
    registry |-> [entries |-> <<"f", "g">>, schedule |-> TRUE, faults |-> {}],
    plugin |-> [x \in Folders |-> IF x = "f" THEN F ELSE G],
    code |-> [x \in Folders |-> "one"]]

Recoded == [Base EXCEPT !.code["f"] = "two"]
Renamed == [Recoded EXCEPT !.plugin["f"].source.path = "/new", !.plugin["g"].enabled = FALSE]
Manual == [Base EXCEPT !.registry.schedule = FALSE, !.code["f"] = "impure"]
SamePath == [Base EXCEPT !.plugin["f"].enabled = FALSE,
                         !.plugin["g"] = [F EXCEPT !.id = "g",
                                           !.source = Source("localCsv", "", "x")]]
Broken == [Base EXCEPT !.code["f"] = "broken"]

Disks == {Base, Recoded, Renamed, Manual, SamePath, Broken}
PureCode == {"one", "two", "broken"}
LoadableCode == {"one", "two", "impure"}

=============================================================================
