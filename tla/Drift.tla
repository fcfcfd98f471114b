-------------------------------- MODULE Drift --------------------------------
(***************************************************************************)
(* What the capability router makes of a change of its live authority: the *)
(* receipt of the authority (capture_authority_receipt), the changes that  *)
(* may be promoted without a human (classify_authority_update), both in    *)
(* capability_manifest_recovery.py, and the entries that may still be      *)
(* served from a manifest built for an earlier authority                   *)
(* (load_active_capabilities in capability_index.py).                      *)
(*                                                                         *)
(* An authority is a record of what lies on disk:                          *)
(*   config    value of each projected leaf of config.toml                 *)
(*   cache     installed packages <<family, name, version>>, each with its *)
(*             content [bytes, surface] and the updater's origin           *)
(*   bundle    the materialised first-party tree: app, id, packages        *)
(*   primary   the detached runtime tree: version, format, meta, packages  *)
(*   client    hash of the browser client of the configured app version    *)
(*   catalog   the newest remote catalog, by plugin name                   *)
(*   bom, rest hashes of the worker BOM and of the other source files      *)
(* Hashes and bytes are numbers, versions are ordered numbers, the surface *)
(* of a package is its set of capability identifiers.  A package has one   *)
(* cached directory per version; the alias "latest" is not distinguished.  *)
(***************************************************************************)
EXTENDS Integers, FiniteSets

Family(k) == k[1]
Name(k) == k[2]
Version(k) == k[3]

Cached(d) == DOMAIN d.cache
Of(d, family) == {k \in Cached(d) : Family(k) = family}
Surface(d, k) == d.cache[k].content.surface
SurfaceOf(d, name) == UNION {Surface(d, k) : k \in {j \in Cached(d) : Name(j) = name}}

\* The inventory of the plugin cache; the updater's receipts are not in it.
Rows(d) == [k \in Cached(d) |-> d.cache[k].content]

\* _changed_hash_keys
ChangedKeys(f, g) ==
  {x \in DOMAIN f \cup DOMAIN g :
     x \notin DOMAIN f \/ x \notin DOMAIN g \/ f[x] # g[x]}

\* Packages with a valid receipt of the first-party updater: 1 at the plugin's
\* root, 2 in the version's directory, 0 none.
Originated(d) == {k \in Cached(d) : d.cache[k].origin.schema # 0}
Origins(d) == [k \in Originated(d) |-> d.cache[k]]
Catalogued(d) == {k \in Originated(d) : d.cache[k].origin.schema = 1}
CatalogEntries(d) == [k \in Catalogued(d) |-> d.catalog[Name(k)]]

-----------------------------------------------------------------------------
(* The configuration.                                                      *)

\* Packages that are always replaced with the app.
AppRuntime == {"browser", "chrome"}
NodeRepl == "mcp:node_repl"

RequiredLeaves == {"version", "runtime", "cli", "trusted"}
AllowedLeaves == RequiredLeaves \cup {"shell"}

\* capability_config_control_descriptors and _config_capability_surfaces: what
\* a leaf controls.  Every leaf that is not named is the toggle of a plugin.
Control(d, leaf) ==
  CASE leaf \in RequiredLeaves ->
         [kind |-> "mcp_runtime", ids |-> {NodeRepl}, on |-> TRUE]
    [] leaf = "shell" ->
         [kind |-> "app_runtime", on |-> TRUE,
          ids |-> {NodeRepl} \cup UNION {SurfaceOf(d, n) : n \in AppRuntime}]
    [] leaf = "flag" ->
         [kind |-> "global_runtime", ids |-> {"router:all"}, on |-> TRUE]
    [] OTHER ->
         [kind |-> "plugin", ids |-> SurfaceOf(d, leaf), on |-> d.config[leaf] = 1]

Controls(d) == [leaf \in DOMAIN d.config |-> Control(d, leaf)]

\* What an authority is here: its fields, versions that are ordered, and curated
\* plugins whose toggle, <name>@<marketplace> in the file, is no other leaf.
Shaped(d) ==
  /\ d \in [config: {d.config}, cache: {d.cache}, bundle: {d.bundle},
            primary: {d.primary}, client: {d.client}, catalog: {d.catalog},
            bom: {d.bom}, rest: {d.rest}]
  /\ "version" \in DOMAIN d.config => d.config["version"] \in Int
  /\ d.primary.version \in Int
  /\ \A k \in Cached(d) :
       /\ k = <<Family(k), Name(k), Version(k)>>
       /\ Version(k) \in Int
       /\ Family(k) = "curated" => Name(k) \notin AllowedLeaves

\* No name is used by packages of two families.
WellFormed(d) ==
  /\ Shaped(d)
  /\ \A j, k \in Cached(d) : Name(j) = Name(k) => Family(j) = Family(k)

-----------------------------------------------------------------------------
(* capture_authority_receipt and _valid_receipt.                           *)

\* _app_identity
Identity(d) ==
  [version |-> d.config["version"], runtime |-> d.config["runtime"],
   cli |-> d.config["cli"], trusted |-> d.config["trusted"], client |-> d.client]

IdentityCoherent(d) ==
  /\ d.config["trusted"] = d.client
  /\ \A n \in AppRuntime : <<"bundled", n, d.config["version"]>> \in Cached(d)

\* _bundled_marketplace_origin: the tree is the one of the configured app, and
\* complete.
Materialized(d) ==
  /\ AppRuntime \subseteq DOMAIN d.bundle.packages
  /\ d.bundle.app = d.config["version"]

\* The bundle and the cache are equal byte for byte, wherever the cache holds a
\* package of the bundle.
BundleCoherent(d) ==
  /\ Materialized(d)
  /\ \A k \in Of(d, "bundled") :
       /\ Name(k) \in DOMAIN d.bundle.packages
       /\ LET b == d.bundle.packages[Name(k)] IN
            Version(k) = b.version /\ d.cache[k].content = b.content
  /\ \A n \in AppRuntime :
       d.bundle.packages[n].version = d.bundle.app
       /\ <<"bundled", n, d.bundle.app>> \in Cached(d)

\* _primary_runtime_bundle_origin
PrimaryPackage(d, n) == <<"primary", n, d.primary.version>>
PrimaryCoherent(d) ==
  /\ DOMAIN d.primary.packages # {}
  /\ Of(d, "primary") = {PrimaryPackage(d, n) : n \in DOMAIN d.primary.packages}
  /\ \A n \in DOMAIN d.primary.packages :
       d.cache[PrimaryPackage(d, n)].content = d.primary.packages[n]

\* _remote_plugin_catalog_entries: a package of a root receipt is the release
\* the catalog offers, with the same surface.
CatalogCoherent(d) ==
  \A k \in Catalogued(d) :
    /\ Name(k) \in DOMAIN d.catalog
    /\ LET e == d.catalog[Name(k)] IN
         /\ e.id = d.cache[k].origin.id
         /\ e.version = Version(k)
         /\ e.surface = Surface(d, k)
         /\ e.status = "AVAILABLE"

\* The capture succeeds and its receipt is valid.
Captured(d) ==
  /\ RequiredLeaves \subseteq DOMAIN d.config
  /\ IdentityCoherent(d)
  /\ BundleCoherent(d)
  /\ PrimaryCoherent(d)
  /\ CatalogCoherent(d)
  /\ \A leaf \in DOMAIN d.config : Control(d, leaf).ids # {}

\* What the receipt holds; of the catalog only the entries that were asked for.
Snapshot(d) == <<[d EXCEPT !.catalog = << >>], CatalogEntries(d)>>

-----------------------------------------------------------------------------
(* classify_authority_update: p is the receipt of the manifest, c the live *)
(* one, both captured.                                                     *)

Sources(d) == <<d.bom, d.rest>>

\* The cache is unchanged outside of some packages.
OnlyPackages(p, c, packages) == ChangedKeys(Rows(p), Rows(c)) \subseteq packages

\* The versions of a package in the bundle, and the cached package.
BundlePackage(d, n) == <<"bundled", n, d.bundle.packages[n].version>>
IsCached(d, n) == BundlePackage(d, n) \in Cached(d)

\* One package of the bundle: unchanged, or a newer version with its surface.
BundleAdvances(p, c, n) ==
  LET o == p.bundle.packages[n]
      w == c.bundle.packages[n]
  IN
  /\ IsCached(p, n) <=> IsCached(c, n)
  /\ IF o.version = w.version THEN o = w ELSE w.version > o.version
  /\ IsCached(p, n) =>
       Surface(p, BundlePackage(p, n)) = Surface(c, BundlePackage(c, n))

\* classify_app_update
AppUpdate(p, c) ==
  LET leaves == ChangedKeys(p.config, c.config) IN
  /\ Sources(p) = Sources(c)
  /\ p.primary = c.primary
  /\ CatalogEntries(p) = CatalogEntries(c)
  /\ Identity(c).version > Identity(p).version
  /\ Identity(c).runtime # Identity(p).runtime
  /\ Identity(c).cli # Identity(p).cli
  /\ Origins(p) = Origins(c)
  /\ DOMAIN p.bundle.packages = DOMAIN c.bundle.packages
  /\ p.bundle.id # c.bundle.id
  /\ \A n \in DOMAIN p.bundle.packages : BundleAdvances(p, c, n)
  /\ leaves \subseteq AllowedLeaves
  /\ RequiredLeaves \subseteq leaves
  /\ Controls(p) = Controls(c)
  /\ ChangedKeys(Rows(p), Rows(c)) # {}
  /\ OnlyPackages(p, c, Of(p, "bundled") \cup Of(c, "bundled"))

\* classify_primary_runtime_bundle_update: every package of the detached
\* runtime is replaced by a newer one with its surface.
PrimaryUpdate(p, c) ==
  LET old == Of(p, "primary")
      new == Of(c, "primary")
  IN
  /\ p.config = c.config
  /\ Controls(p) = Controls(c)
  /\ Sources(p) = Sources(c)
  /\ Identity(p) = Identity(c)
  /\ Origins(p) = Origins(c)
  /\ p.bundle = c.bundle
  /\ CatalogEntries(p) = CatalogEntries(c)
  /\ c.primary.version > p.primary.version
  /\ c.primary.format = p.primary.format
  /\ c.primary.meta # p.primary.meta
  /\ DOMAIN p.primary.packages = DOMAIN c.primary.packages
  /\ \A n \in DOMAIN p.primary.packages :
       Surface(p, PrimaryPackage(p, n)) = Surface(c, PrimaryPackage(c, n))
  /\ ChangedKeys(Rows(p), Rows(c)) = old \cup new
  /\ old \cap new = {}

\* classify_worker_runtime_bom_update
BomUpdate(p, c) ==
  /\ p.bom # c.bom
  /\ Snapshot([p EXCEPT !.bom = c.bom, !.catalog = c.catalog]) = Snapshot(c)
  /\ CatalogEntries(p) = CatalogEntries(c)

\* _compound_app_primary_runtime_receipts: p with the packages of c in some
\* families.
WithPackages(p, c, families) ==
  LET kept == {k \in Cached(p) : Family(k) \notin families}
      taken == {k \in Cached(c) : Family(k) \in families}
  IN [p EXCEPT !.cache =
        [k \in kept \cup taken |-> IF k \in taken THEN c.cache[k] ELSE p.cache[k]]]

AppPart(p, c) ==
  [WithPackages(p, c, {"bundled"}) EXCEPT
     !.config = c.config, !.client = c.client, !.bundle = c.bundle,
     !.catalog = c.catalog]
PrimaryPart(p, c) ==
  [WithPackages(p, c, {"primary"}) EXCEPT !.primary = c.primary, !.catalog = c.catalog]

\* classify_compound_app_primary_runtime_update: nothing but an app update and
\* a runtime update, each of them recognised alone.
CompoundUpdate(p, c) ==
  LET app == AppPart(p, c)
      primary == PrimaryPart(p, c)
  IN
  /\ Sources(p) = Sources(c)
  /\ Origins(p) = Origins(c)
  /\ CatalogEntries(p) = CatalogEntries(c)
  /\ Snapshot(PrimaryPart(app, c)) = Snapshot(c)
  /\ Captured(app) /\ AppUpdate(p, app)
  /\ Captured(primary) /\ PrimaryUpdate(p, primary)

\* _plugin_is_enabled
Enabled(d, name) == name \in DOMAIN d.config /\ d.config[name] = 1

\* The receipts of both versions name one remote plugin.
SameOrigin(o, w) ==
  /\ o.schema # 0 /\ w.schema # 0
  /\ o.schema = w.schema
  /\ o.id = w.id
  /\ o.schema = 1 => o.receipt = w.receipt

\* classify_enabled_plugin_version_replacement: one newer version of an enabled
\* curated plugin, in the place of the newest one or beside it.
Replaces(p, c, new) ==
  LET prior == {k \in Of(p, "curated") : Name(k) = Name(new)} IN
  /\ Family(new) = "curated"
  /\ \E old \in prior :
       /\ \A k \in prior : Version(k) <= Version(old)
       /\ Version(new) > Version(old)
       /\ Cached(p) \ Cached(c) \subseteq {old}
       /\ Enabled(p, Name(new))
       /\ SameOrigin(p.cache[old].origin, c.cache[new].origin)
       /\ Surface(p, old) = Surface(c, new)
       /\ ChangedKeys(CatalogEntries(p), CatalogEntries(c)) \subseteq {old, new}

PluginReplacement(p, c) ==
  /\ Sources(p) = Sources(c)
  /\ p.primary = c.primary
  /\ p.bundle = c.bundle
  /\ p.config = c.config
  /\ Identity(p) = Identity(c)
  /\ \E new \in Cached(c) : Cached(c) \ Cached(p) = {new} /\ Replaces(p, c, new)
  /\ \A k \in Cached(p) \cap Cached(c) : p.cache[k] = c.cache[k]

\* The direction of a toggle; a plugin without one is off.
SwitchedOff(p, c, leaf) ==
  /\ leaf \in DOMAIN p.config /\ p.config[leaf] = 1
  /\ leaf \in DOMAIN c.config => c.config[leaf] # 1

\* _scoped_config_update_plan: nothing but plugins that are switched off.
ConfigUpdate(p, c) ==
  LET leaves == ChangedKeys(p.config, c.config) IN
  /\ p.cache = c.cache
  /\ p.bundle = c.bundle
  /\ p.primary = c.primary
  /\ Sources(p) = Sources(c)
  /\ Identity(p) = Identity(c)
  /\ CatalogEntries(p) = CatalogEntries(c)
  /\ leaves # {}
  /\ \A leaf \in leaves :
       /\ \A d \in {p, c} :
            leaf \in DOMAIN d.config => Control(d, leaf).kind = "plugin"
       /\ SwitchedOff(p, c, leaf)

\* The receipts the BOM promoter left, and _worker_bom_promotion_receipt: one of
\* them is for this very change.
Promotions == {<<0, 1>>}
Promoted(p, c) == <<p.bom, c.bom>> \in Promotions

\* The lane a change is promoted in without a human, "none" if there is none.
Lane(p, c) ==
  IF ~Captured(p) \/ ~Captured(c) THEN "none"
  ELSE CASE AppUpdate(p, c) -> "coherent_app_update"
         [] PrimaryUpdate(p, c) -> "primary_runtime_bundle_update"
         [] BomUpdate(p, c) ->
              IF Promoted(p, c) THEN "worker_runtime_bom_update" ELSE "none"
         [] CompoundUpdate(p, c) -> "compound_app_primary_runtime_update"
         [] PluginReplacement(p, c) -> "updater_bound_plugin_update"
         [] ConfigUpdate(p, c) -> "scoped_config_update"
         [] OTHER -> "none"

-----------------------------------------------------------------------------
(* load_active_capabilities: p is the receipt of the manifest, d the live  *)
(* authority, captured or not.                                             *)

\* _source_hash_mismatches
Mismatches(p, d) ==
  {key \in {"config", "cache", "bom", "rest"} :
     CASE key = "config" -> p.config # d.config
       [] key = "cache" -> Rows(p) # Rows(d)
       [] key = "bom" -> p.bom # d.bom
       [] key = "rest" -> p.rest # d.rest}

\* DYNAMIC_AUTHORITY_HASH_KEYS, and the mismatches recovery looks at.
Recoverable(p, d) == Mismatches(p, d) \subseteq {"config", "cache", "bom"}

ChangedPackages(p, d) == ChangedKeys(Rows(p), Rows(d))
ChangedLeaves(p, d) == ChangedKeys(p.config, d.config)

\* The first-party packages the materialised bundle names another version of.
Rebundled(p, d) ==
  {n \in DOMAIN p.bundle.packages :
     d.bundle.packages[n].version # p.bundle.packages[n].version}

\* The cached replacement equals the bundle's, with the surface it had.
BundleMatches(p, d, n) ==
  /\ IsCached(p, n) /\ IsCached(d, n)
  /\ d.cache[BundlePackage(d, n)].content = d.bundle.packages[n].content
  /\ Surface(d, BundlePackage(d, n)) = Surface(p, BundlePackage(p, n))

RebundledIds(p, d) ==
  UNION {Surface(d, BundlePackage(d, n)) : n \in Rebundled(p, d)}

\* _coherent_bundled_app_runtime_binding: every change of the cache and of the
\* configuration belongs to a replacement of first-party packages.
BundledRuntime(p, d) ==
  /\ ChangedPackages(p, d) # {}
  /\ DOMAIN d.bundle.packages = DOMAIN p.bundle.packages
  /\ \A k \in ChangedPackages(p, d) : Family(k) = "bundled"
  /\ {Name(k) : k \in ChangedPackages(p, d)} = Rebundled(p, d)
  /\ \A n \in Rebundled(p, d) : BundleMatches(p, d, n)
  /\ \A leaf \in ChangedLeaves(p, d) :
       /\ leaf \in DOMAIN p.config
       /\ Control(p, leaf).kind \in {"app_runtime", "mcp_runtime"}
       /\ Control(p, leaf).ids \subseteq RebundledIds(p, d) \cup {NodeRepl}

\* The drift has no provable scope: nothing is served.
Unscoped(p, d) ==
  \/ ~Recoverable(p, d)
  \/ \E leaf \in ChangedLeaves(p, d) :
       \/ leaf \notin DOMAIN p.config
       \/ Control(p, leaf).kind = "global_runtime"

\* mutant: only the changed packages are quarantined, not their other versions.
SamePlugin_Exactly(p, d) == ChangedPackages(p, d) \cap Cached(p)

\* The packages of the manifest that share a name with a changed one.
SamePlugin(p, d) ==
  {k \in Cached(p) : \E j \in ChangedPackages(p, d) : Name(j) = Name(k)}

\* _dynamic_authority_assessment
Quarantined(p, d) ==
  IF BundledRuntime(p, d) THEN {}
  ELSE (UNION {Surface(p, k) : k \in SamePlugin(p, d)})
       \cup (UNION {Control(p, leaf).ids : leaf \in ChangedLeaves(p, d)})

\* The entries of a manifest built for p: what its enabled packages offer at
\* most (the builder leaves out a plugin with two cached versions).
Offered(p) ==
  {NodeRepl} \cup
  UNION {Surface(p, k) : k \in {j \in Cached(p) :
                                 Family(j) = "curated" => Enabled(p, Name(j))}}

\* What a load serves, and whether it calls that fresh.
Served(p, d) == IF Unscoped(p, d) THEN {} ELSE Offered(p) \ Quarantined(p, d)
Fresh(p, d) ==
  \/ Mismatches(p, d) = {}
  \/ ~Unscoped(p, d) /\ BundledRuntime(p, d) /\ p.bom = d.bom

-----------------------------------------------------------------------------
(* What the two are for.                                                   *)

\* d offers nothing that p does not: no identifier more, no older version, and
\* no other remote plugin.
Narrower(p, d) ==
  /\ Offered(d) \subseteq Offered(p)
  /\ p.rest = d.rest
  /\ d.config["version"] >= p.config["version"]
  /\ d.primary.version >= p.primary.version
  /\ \A j \in Of(d, "curated") : \E k \in Of(p, "curated") :
       /\ Name(j) = Name(k) /\ Version(j) >= Version(k)
       /\ j # k => p.cache[k].origin.id = d.cache[j].origin.id

\* The first-party tree vouches for what is cached of a plugin now.
Vouched(p, d, name) ==
  /\ name \in DOMAIN d.bundle.packages
  /\ LET k == <<"bundled", name, d.bundle.packages[name].version>> IN
       /\ k \in Cached(d)
       /\ d.cache[k].content = d.bundle.packages[name].content

\* What is served of id is what the manifest was built from: every package that
\* offers it is there with its bytes and no other version beside it, or the
\* first-party tree vouches for its replacement; and no toggle of it moved.
Intact(p, d, id) ==
  /\ \A k \in Cached(p) : id \in Surface(p, k) =>
       \/ {j \in Cached(d) : Name(j) = Name(k)} = {j \in Cached(p) : Name(j) = Name(k)}
          /\ p.cache[k].content = d.cache[k].content
       \/ Vouched(p, d, Name(k)) /\ id \in SurfaceOf(d, Name(k))
  /\ \A leaf \in DOMAIN p.config :
       Control(p, leaf).kind = "plugin" /\ id \in Control(p, leaf).ids =>
         leaf \in DOMAIN d.config /\ d.config[leaf] = p.config[leaf]
  /\ p.rest = d.rest
=============================================================================
