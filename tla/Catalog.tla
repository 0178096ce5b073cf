------------------------------ MODULE Catalog -------------------------------
(***************************************************************************)
(* The extension catalog, internal/registry, and the index of entries its  *)
(* manifests are turned into, internal/extensions/registry.go and          *)
(* types.go.  Every method holds its lock, so only the order of loads and  *)
(* registrations matters.                                                  *)
(*                                                                         *)
(* Of a manifest the model keeps what decides: kind, whether the names are *)
(* given, where the module comes from, how one authenticates, hidden.      *)
(***************************************************************************)
EXTENDS Naturals, FiniteSets

CONSTANTS Names,       \* manifest names; "" is an absent one
          Manifests,   \* the manifests files may hold
          MaxLoads     \* bound: loads and registrations

ManifestKind == {"", "tool", "channel", "mcp_server", "other"}
ManifestType ==
  [name : Names \cup {""}, kind : ManifestKind, display : BOOLEAN, url : BOOLEAN,
   artifact : {"none", "empty", "url"}, source : {"none", "empty", "dir"},
   auth : {"", "dcr", "none", "oauth", "odd"}, method : {"absent", "oauth", "none", "odd"},
   hidden : BOOLEAN]

ASSUME CatalogAssumption == Manifests \subseteq ManifestType /\ MaxLoads \in Nat

\* ExtensionSource: its type, and the field that says where it is, "" if absent.
ExtensionSource == [type : {"mcp_url", "wasm_download", "wasm_buildable"}, place : {"", "url", "dir"}]
Source(type, place) == [type |-> type, place |-> place]
RegistryEntry ==
  [name : Names \cup {""}, kind : {"mcp_server", "wasm_tool", "wasm_channel"},
   source : ExtensionSource, fallback : SUBSET ExtensionSource,
   hint : {"dcr", "none", "oauth_pre_configured", "capabilities_auth"}, hidden : BOOLEAN]

VARIABLES manifests,  \* Catalog.manifests: name -> manifest
          loads

catalogVars == <<manifests, loads>>

CatalogTypeOK ==
  /\ DOMAIN manifests \subseteq Names \cup {""} /\ IsFiniteSet(DOMAIN manifests)
  /\ \A n \in DOMAIN manifests : manifests[n] \in ManifestType /\ manifests[n].name = n
  /\ loads \in 0..MaxLoads

CatalogInit == manifests = <<>> /\ loads = 0

Put(table, name, row) == [n \in DOMAIN table \cup {name} |-> IF n = name THEN row ELSE table[n]]

-----------------------------------------------------------------------------
(* Conversions.                                                            *)

\* ExtensionManifest.Validate.
Validate(m) == m.name # "" /\ m.kind # "" /\ m.display

ToExtensionKind(kind) ==
  CASE kind = "channel" -> "wasm_channel"
    [] kind = "mcp_server" -> "mcp_server"
    [] OTHER -> "wasm_tool"

mcpHint(m) ==
  CASE m.auth = "none" -> "none"
    [] m.auth = "oauth" -> "oauth_pre_configured"
    [] OTHER -> "dcr"

\* At most one entry: without a URL there is none.
toMcpRegistryEntry(m) ==
  IF m.url
  THEN {[name |-> m.name, kind |-> "mcp_server", source |-> Source("mcp_url", "url"), fallback |-> {},
         hint |-> mcpHint(m), hidden |-> m.hidden]}
  ELSE {}

\* At most one: a manifest may have no Source section, or one without a directory.
buildableSource(m) ==
  CASE m.source = "none" -> {}
    [] m.source = "empty" -> {Source("wasm_buildable", "")}
    [] m.source = "dir" -> {Source("wasm_buildable", "dir")}

wasmHint(m) == IF m.method \in {"absent", "none"} THEN "none" ELSE "capabilities_auth"

\* Fault: an artifact is taken for a download before its URL is looked at.
ToWasmAnyArtifact(m) ==
  LET build == IF m.source = "dir" THEN "dir" ELSE ""
      place == IF m.artifact = "url" THEN "url" ELSE ""
  IN {[name |-> m.name, kind |-> ToExtensionKind(m.kind),
       source |-> IF m.artifact = "none" THEN Source("wasm_buildable", build)
                  ELSE Source("wasm_download", place),
       fallback |-> IF m.artifact = "none" THEN {} ELSE buildableSource(m),
       hint |-> wasmHint(m), hidden |-> m.hidden]}

\* A prebuilt artifact before the source section; without either, and with an empty
\* source section alone, a build source that says nothing about where.
toWasmRegistryEntry(m) ==
  LET download == m.artifact = "url"
  IN {[name |-> m.name, kind |-> ToExtensionKind(m.kind),
       source |-> CASE download -> Source("wasm_download", "url")
                    [] ~download /\ m.source = "dir" -> Source("wasm_buildable", "dir")
                    [] OTHER -> Source("wasm_buildable", ""),
       fallback |-> IF download THEN buildableSource(m) ELSE {},
       hint |-> wasmHint(m), hidden |-> m.hidden]}

ToRegistryEntry(m) == IF m.kind = "mcp_server" THEN toMcpRegistryEntry(m) ELSE toWasmRegistryEntry(m)

-----------------------------------------------------------------------------
(* Operations.                                                             *)

\* DiscoverManifests and LoadFromDir of a directory with the one file m: an
\* invalid one is skipped.
LoadFromDir(m) ==
  /\ loads < MaxLoads /\ loads' = loads + 1
  /\ Validate(m)
  /\ manifests' = Put(manifests, m.name, m)

\* Catalog.Register validates nothing.
Register(m) ==
  /\ loads < MaxLoads /\ loads' = loads + 1
  /\ manifests' = Put(manifests, m.name, m)

CatalogNext == \E m \in Manifests : LoadFromDir(m) \/ Register(m)

CatalogSpec == CatalogInit /\ [][CatalogNext]_catalogVars

AllEntries == UNION {ToRegistryEntry(manifests[n]) : n \in DOMAIN manifests}

\* The entries EntryRegistry.Register accepts, by RegistryEntry.Validate.
Index == {e \in AllEntries : e.name # "" /\ e.kind # ""}

\* Catalog.Search with a query all manifests match; an empty query lists them.
SearchManifests(query) ==
  {n \in DOMAIN manifests : query = "" \/ ~manifests[n].hidden}

\* EntryRegistry.Search; matchEntry accepts everything.
SearchEntries == {e.name : e \in {e \in Index : ~e.hidden}}

-----------------------------------------------------------------------------
(* Properties.                                                             *)

\* Where a manifest says that its extension can be had.
Offers(m) ==
  IF m.kind = "mcp_server" THEN {w \in {Source("mcp_url", "url")} : m.url}
  ELSE {w \in {Source("wasm_download", "url")} : m.artifact = "url"}
       \cup {w \in {Source("wasm_buildable", "dir")} : m.source = "dir"}

\* An entry that has sources had, with this one first, keeps what m offers: nothing
\* is lost, and the one thing it may have besides is a build source that says
\* nothing about where, for a manifest that offers nothing or has an empty source
\* section.
KeepsOffers(m, first, had) ==
  /\ Offers(m) \subseteq had
  /\ had \ Offers(m) \subseteq {Source("wasm_buildable", "")}
  /\ had = Offers(m) \/ Offers(m) = {} \/ m.source = "empty"
  /\ Source("wasm_download", "url") \in Offers(m) => first = Source("wasm_download", "url")

\* Every entry has what its manifest offers, the download first and nothing twice
\* (ToRegistryEntry).
OffersKept ==
  \A e \in AllEntries :
    /\ KeepsOffers(manifests[e.name], e.source, {e.source} \cup e.fallback)
    /\ e.source \notin e.fallback

\* The index holds every named manifest once, except MCP servers without a URL;
\* its search finds those of them that the search of the catalog finds.
IndexMatchesCatalog ==
  LET usable == {n \in DOMAIN manifests \ {""} :
                   manifests[n].kind = "mcp_server" => manifests[n].url}
  IN /\ {e.name : e \in Index} = usable
     /\ Cardinality(Index) = Cardinality(usable)
     /\ SearchEntries = SearchManifests("query") \cap usable

\* The safety of the catalog: entries and searches agree with the manifests
\* (manifest.go, catalog.go).
CatalogInv ==
  /\ CatalogTypeOK
  /\ OffersKept
  /\ IndexMatchesCatalog
=============================================================================
