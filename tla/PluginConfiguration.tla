------------------------- MODULE PluginConfiguration -------------------------
(***************************************************************************)
(* validateRepository of packages/plugin-config: the configuration          *)
(* directory of the operator, read file by file and taken whole or not at   *)
(* all.                                                                    *)
(*                                                                         *)
(* A directory d is a record:                                               *)
(*   connections  what the entries of connections/registry.json name, in    *)
(*                order: an id, a connector and the faults of the file       *)
(*   registry     the entries of plugins/registry.json, whether the daily    *)
(*                schedule is enabled, and the faults of the file            *)
(*   plugin       what plugin.json and source.json of each folder declare    *)
(*   code         the bytes of the transform of each folder                  *)
(* Faults are named for what the loader complains about, and grouped by the  *)
(* point at which it does, which decides what it goes on to.                *)
(***************************************************************************)
EXTENDS Integers, Sequences, FiniteSets, SequencesExt

CONSTANTS
    Folder,     \* plugin folders
    NoMenu,     \* the menu path of a plugin without a menu
    Nothing     \* what is not set

(* safeResolve, readJson and the schema of a file.                         *)
FileFaults == {"outside", "unreadable", "schema"}

(* plugins/registry.json is also checked for its time zone.                *)
RegistryFaults == {"unreadable", "schema", "timezone"}

TransformFaults == {"transform_outside", "not_javascript", "transform_missing"}

(* What does not agree inside plugin.json.                                 *)
ReferenceFaults == {"unique_key", "list_column", "query_field", "range_filter",
                    "filter_options", "section_title", "detail_field", "relation_end",
                    "menu_type"}

SourceFaults == {"source_outside", "source_unreadable", "source_schema"}

(* A live source must be keyed as the menu's type is, have a query field for *)
(* every field that is searched, and two read-only statements.              *)
LiveFaults == {"external_key", "query_fields", "read_query"}

EndpointFaults == {"endpoint"}

(* Looked for in enabled plugins only.                                     *)
DefinitionFaults == {"csv_outside", "record_limit"}

Has(declared, group) == declared.faults \intersect group # {}

SourceKind == {"offset", "single", "httpCsv", "localCsv", "postgres"}

Live(declared) == declared.source.kind = "postgres"

-----------------------------------------------------------------------------
(* The locals of validateRepository; read is what it has found so far.      *)
NewLoad == [
    pc |-> "connections",
    failed |-> FALSE,           \* errors is not empty
    connections |-> << >>,      \* connections: connector by id
    entries |-> << >>,
    schedule |-> FALSE,
    read |-> << >>,
    ids |-> {},                 \* pluginIds
    paths |-> {},               \* menuPaths
    shown |-> {},               \* plugins and pluginDetails
    definitions |-> << >>,
    menus |-> {},
    next |-> 1,                 \* of preflight: the definition looked at
    bytes |-> Nothing]          \* of preflight: its transform, read

Failed(load) == [load EXCEPT !.failed = TRUE]

(* Of two connections with one id the first is kept.                       *)
LoadConnections(load, d) ==
    LET usable == SelectSeq(d.connections, LAMBDA c : ~Has(c, FileFaults))
        ids == {usable[i].id : i \in DOMAIN usable}
        first == [x \in ids |-> SelectSeq(usable, LAMBDA c : c.id = x)[1].connector]
    IN  [load EXCEPT !.pc = "registry",
                     !.connections = first,
                     !.failed = Cardinality(ids) # Len(d.connections)]

LoadRegistry(load, d) ==
    IF Has(d.registry, RegistryFaults)
    THEN Failed([load EXCEPT !.pc = "plugins"])
    ELSE [load EXCEPT !.pc = "plugins",
                      !.entries = d.registry.entries,
                      !.schedule = d.registry.schedule]

-----------------------------------------------------------------------------
(* One turn of the loop of loadPlugins.                                    *)

MenuPaths(declared) == {declared.menu} \ {NoMenu}

Connector(load, declared) ==
    IF declared.source.ref \in DOMAIN load.connections
    THEN load.connections[declared.source.ref]
    ELSE "none"

WrongConnection(load, declared) ==
    CASE Live(declared) -> Connector(load, declared) # "postgres"
      [] declared.source.kind = "localCsv" -> FALSE
      [] OTHER -> Connector(load, declared) # "http"

RefusedSource(load, declared) ==
    \/ Has(declared, SourceFaults)
    \/ WrongConnection(load, declared)
    \/ Live(declared) /\ Has(declared, LiveFaults)
    \/ Has(declared, EndpointFaults)

(* Where the list of a menu looks for its records: a file by the path as it  *)
(* is declared.                                                            *)
MenuSource(declared) ==
    IF declared.source.kind = "localCsv"
    THEN <<"file", declared.source.path>>
    ELSE <<"connection", declared.source.ref>>

(* loadOffsetSource, loadSingleSource, loadHttpCsvSource, loadLocalCsvSource *)
(* and loadPostgresSource.  The digest is added by preflight.               *)
Definition(folder, declared) ==
    [id |-> declared.id, folder |-> folder, declared |-> declared, digest |-> Nothing]

Menus(declared) ==
    {[id |-> declared.id, path |-> path, source |-> MenuSource(declared)] :
        path \in MenuPaths(declared)}

(* What the plugin pages list, enabled or not: its summary and its details.   *)
Shown(load, declared) == [load EXCEPT !.shown = @ \union {declared.id}]

(* Mutant: the menu path of a disabled plugin is not registered.           *)
LoadPluginFreePath(load, folder, declared) ==
    LET seen == [load EXCEPT !.read = Append(@, declared)]
        known == [seen EXCEPT !.ids = @ \union {declared.id}]
        listed == [known EXCEPT !.paths = @ \union MenuPaths(declared)]
    IN  IF Has(declared, FileFaults) \/ declared.id \in load.ids THEN Failed(seen)
        ELSE IF Has(declared, TransformFaults) THEN Failed(known)
        ELSE IF \/ Has(declared, ReferenceFaults)
                \/ MenuPaths(declared) \intersect load.paths # {}
                \/ RefusedSource(load, declared)
             THEN Failed(listed)
        ELSE IF ~declared.enabled THEN Shown(known, declared)
        ELSE IF Has(declared, DefinitionFaults) THEN Failed(listed)
        ELSE
                [Shown(listed, declared) EXCEPT
                    !.definitions = Append(@, Definition(folder, declared)),
                    !.menus = @ \union Menus(declared)]

LoadPlugin(load, folder, declared) ==
    LET seen == [load EXCEPT !.read = Append(@, declared)]
        known == [seen EXCEPT !.ids = @ \union {declared.id}]
        listed == [known EXCEPT !.paths = @ \union MenuPaths(declared)]
        shown == Shown(listed, declared)
    IN  IF Has(declared, FileFaults) \/ declared.id \in load.ids THEN Failed(seen)
        ELSE IF Has(declared, TransformFaults) THEN Failed(known)
        ELSE IF \/ Has(declared, ReferenceFaults)
                \/ MenuPaths(declared) \intersect load.paths # {}
                \/ RefusedSource(load, declared)
             THEN Failed(listed)
        ELSE IF ~declared.enabled THEN shown
        ELSE IF Has(declared, DefinitionFaults) THEN Failed(shown)
        ELSE
                [shown EXCEPT !.definitions = Append(@, Definition(folder, declared)),
                              !.menus = @ \union Menus(declared)]

(* Every declaration file is read: the whole is taken if nothing was wrong. *)
EndLoad(load) ==
    [load EXCEPT !.pc = IF load.failed THEN "rejected" ELSE "transforms"]

=============================================================================
