------------------------------ MODULE MCManifest ------------------------------
(* The live authorities and the settings in which Manifest is checked.     *)
EXTENDS Manifest, FiniteSetsExt, TLC

\* What may have changed since the installation, one field per updater.
Installed == [app |-> "old", notes |-> "off", primary |-> "old", gh |-> "old",
              toggle |-> 1, flag |-> 0, bom |-> 0, rest |-> 0]

Content(bytes, ids) == [bytes |-> bytes, surface |-> ids]
Package(content) ==
  [content |-> content, origin |-> [schema |-> 0, id |-> 0, receipt |-> 0]]

\* The app's version as the configuration, its bundle and its cache see it: an
\* update interrupted between them is "half", one whose browser grew "wider".
ConfigApp(x) == IF x.app \in {"old", "half"} THEN 1 ELSE 2
BundleApp(x) == IF x.app = "old" THEN 1 ELSE 2

AppContent(x, n) ==
  Content(BundleApp(x), {n} \cup (IF x.app = "wider" THEN {"extra"} ELSE {}))

Bundle(x) ==
  [app |-> BundleApp(x), id |-> BundleApp(x),
   packages |->
     [n \in {"browser", "chrome"} |->
        [version |-> BundleApp(x), content |-> AppContent(x, n)]]
     @@ (IF x.notes = "none" THEN << >>
         ELSE "notes" :> [version |-> BundleApp(x),
                          content |-> Content(BundleApp(x), {"notes"})])]

Primary(x) ==
  LET v == IF x.primary = "old" THEN 1 ELSE 2
      ids == IF x.primary = "wider" THEN {"docs", "extra"} ELSE {"docs"}
  IN [version |-> v, format |-> 1, meta |-> v,
      packages |-> ("docs" :> Content(v, ids))]

\* The curated plugin: schema 2 receipts lie in the version's directory.
Curated(v, ids, id) ==
  [content |-> Content(v, ids), origin |-> [schema |-> 2, id |-> id, receipt |-> v]]
Gh(x) ==
  CASE x.gh = "old" -> [v \in {1} |-> Curated(1, {"gh"}, 7)]
    [] x.gh = "new" -> [v \in {2} |-> Curated(2, {"gh"}, 7)]
    [] x.gh = "beside" -> [v \in {1, 2} |-> Curated(v, {"gh"}, 7)]
    [] x.gh = "wider" -> [v \in {2} |-> Curated(2, {"gh", "extra"}, 7)]
    [] x.gh = "other" -> [v \in {2} |-> Curated(2, {"gh"}, 8)]
    [] x.gh = "released" ->      \* the updater's other kind of receipt
         [v \in {1} |-> [content |-> Content(1, {"gh"}),
                         origin |-> [schema |-> 1, id |-> 7, receipt |-> 7]]]
    [] x.gh = "rereleased" ->
         [v \in {2} |-> [content |-> Content(2, {"gh"}),
                         origin |-> [schema |-> 1, id |-> 7, receipt |-> 7]]]

Catalog(x) ==
  "gh" :> [id |-> 7, version |-> IF x.gh = "released" THEN 1 ELSE 2,
           surface |-> {"gh"}, status |-> "AVAILABLE"]

Disk(x) ==
  LET app == {<<"bundled", n, BundleApp(x)>> : n \in {"browser", "chrome"}}
      gh == Gh(x)
  IN
  [config |-> [version |-> ConfigApp(x), runtime |-> ConfigApp(x),
               cli |-> ConfigApp(x), trusted |-> ConfigApp(x),
               shell |-> ConfigApp(x), flag |-> x.flag, gh |-> x.toggle],
   cache |->
     [k \in app |-> Package(AppContent(x, k[2]))]
     @@ (IF x.notes = "cached"
         THEN <<"bundled", "notes", BundleApp(x)>>
                :> Package(Content(BundleApp(x), {"notes"}))
         ELSE << >>)
     @@ (<<"primary", "docs", Primary(x).version>> :> Package(Primary(x).packages["docs"]))
     @@ [k \in {<<"curated", "gh", v>> : v \in DOMAIN gh} |-> gh[k[3]]],
   bundle |-> Bundle(x), primary |-> Primary(x), client |-> ConfigApp(x),
   catalog |-> Catalog(x), bom |-> x.bom, rest |-> x.rest]

\* Every combination of four updaters, and the rarer changes one at a time.
Combined ==
  {[Installed EXCEPT !.app = a, !.primary = r, !.gh = g, !.toggle = t] :
     a \in {"old", "new", "half", "wider"}, r \in {"old", "new"},
     g \in {"old", "new", "wider"}, t \in {0, 1}}
Rare ==
  {[Installed EXCEPT !.primary = "wider"], [Installed EXCEPT !.gh = "beside"],
   [Installed EXCEPT !.gh = "other"], [Installed EXCEPT !.gh = "beside", !.toggle = 0],
   [Installed EXCEPT !.bom = 1], [Installed EXCEPT !.bom = 2],
   [Installed EXCEPT !.bom = 1, !.rest = 1], [Installed EXCEPT !.rest = 1],
   [Installed EXCEPT !.flag = 1], [Installed EXCEPT !.notes = "cached"]}
Bound == {[Installed EXCEPT !.notes = "none", !.app = a, !.gh = g] :
            a \in {"old", "new", "half", "wider"}, g \in {"old", "new"}}
Released == {[Installed EXCEPT !.gh = g] : g \in {"released", "rereleased"}}

\* The authorities are numbered.
Worlds ==
  FoldSet(LAMBDA x, listed : Append(listed, x), << >>, Combined \cup Rare \cup Bound \cup Released)
Numbers(worlds) == {i \in DOMAIN Worlds : Worlds[i] \in worlds}
Number(x) == CHOOSE i \in DOMAIN Worlds : Worlds[i] = x
MCDisks == [i \in DOMAIN Worlds |-> Disk(Worlds[i])]

\* Two processes, operators and faults over three authorities, of which the
\* last is not recognised from the first, from a manifest older than the
\* generation contract and from one without its pointer; and one recovery after
\* any change.
AppAndPlugin == [Installed EXCEPT !.primary = "new", !.gh = "new"]
Contended(legacy) ==
  [base |-> Number(Installed), legacy |-> legacy, operator |-> TRUE, drifts |-> 2,
   faults |-> 1,
   versions |-> Numbers({Installed, [Installed EXCEPT !.primary = "new"], AppAndPlugin})]
Alone(base, worlds) ==
  [base |-> Number(base), legacy |-> TRUE, operator |-> FALSE, drifts |-> 1, faults |-> 0,
   versions |-> Numbers(worlds)]
MCSettings ==
  {Contended(TRUE), Contended(FALSE),
    Alone(Installed, Combined \cup Rare),
    Alone([Installed EXCEPT !.toggle = 0], Combined),
    Alone([Installed EXCEPT !.notes = "none"], Bound),
    Alone([Installed EXCEPT !.gh = "released"], Released \cup {Installed})}

Symmetric == Permutations(Procs)
===============================================================================
