------------------------------ MODULE TechStack ------------------------------
(***************************************************************************)
(* The scan of a repository's technology: app/techstack/detectors.py       *)
(* matches dependencies and files against the rule table, graph.py draws   *)
(* the services and what they connect to, service.py counts and caps.      *)
(*                                                                         *)
(* A path is [dir, base]; the name of a dependency is the sequence of its  *)
(* parts, so that a scoped name, and a pattern, can begin with a part.     *)
(***************************************************************************)
EXTENDS Manifests, FiniteSetsExt

CONSTANTS Rules,            \* the rule table, in the order its matches are listed
          MaxFiles,         \* MAX_FILES
          MaxDependencies,  \* MAX_DEPENDENCIES
          MaxServices,      \* MAX_SERVICES
          MaxChildren,      \* MAX_CHILDREN_PER_NODE
          MaxEdges          \* MAX_EDGES

-----------------------------------------------------------------------------
(* Rules and technologies *)

MatchesManager(rule, manager) ==
    rule.managers = {} \/ "*" \in rule.managers \/ manager \in rule.managers

\* build_index: the prefix a name must have before a rule's patterns are tried,
\* the unanchored ones among them too.
Prefix(rule) ==
    LET anchored == {p.stem : p \in {q \in rule.patterns : q.anchored}}
    IN  IF anchored = {} THEN <<>> ELSE LongestCommonPrefix(anchored)
Fits(pattern, name) ==
    IF pattern.anchored THEN IsPrefix(pattern.stem, name)
    ELSE \E i \in DOMAIN name : IsPrefix(pattern.stem, SubSeq(name, i, Len(name)))

\* match_rules and match_path.
MatchesName(rule, name, manager) ==
    /\ MatchesManager(rule, manager)
    /\ \/ name \in rule.exact
       \/ IsPrefix(Prefix(rule), name) /\ \E p \in rule.patterns : Fits(p, name)
MatchesPath(rule, path) ==
    LET segments == Append(path.dir, path.base)
    IN  \E f \in rule.files : \E i \in DOMAIN segments : IsPrefix(f, SubSeq(segments, i, Len(segments)))

\* What the manifests and then the files of a repository say, in that order.
Firings(results, paths) ==
    LET fired(Matches(_), manager, version) ==
          LET hit == SelectSeq(Rules, Matches)
          IN  [i \in DOMAIN hit |-> [rule |-> hit[i], manager |-> manager, version |-> version]]
        byName(r, d) == fired(LAMBDA rule : MatchesName(rule, d.name, r.manager), {r.manager}, d.version)
    IN  FlattenSeq([i \in DOMAIN results |->
                      FlattenSeq([k \in DOMAIN results[i].deps |-> byName(results[i], results[i].deps[k])])])
        \o FlattenSeq([i \in DOMAIN paths |->
                         fired(LAMBDA rule : MatchesPath(rule, paths[i]), {}, 0)])

\* record: one row for each name; a version, once found, stays.
Record(rows, f) ==
    LET name == f.rule.name
        old == IF name \in DOMAIN rows THEN rows[name]
               ELSE [kind |-> f.rule.kind, version |-> 0, managers |-> {}]
    IN  [n \in DOMAIN rows \cup {name} |->
           IF n # name THEN rows[n]
           ELSE [old EXCEPT !.managers = @ \cup f.manager,
                            !.version = IF @ = 0 THEN f.version ELSE @]]

DetectTechnologies(results, paths) ==
    LET rows == FoldLeft(Record, <<>>, Firings(results, paths))
        named == UNION {rows[n].managers : n \in DOMAIN rows}
        unnamed == {results[i].manager : i \in DOMAIN results} \ named
    IN  [n \in DOMAIN rows \cup unnamed |->
           IF n \in unnamed THEN [kind |-> SourceKind(n), version |-> 0, managers |-> {n}]
           ELSE rows[n]]

\* languages_for_path: the language of a file, by its extension.
LanguageOf(path) ==
    CASE path.base = "app.py" -> [name |-> "Python", programming |-> TRUE]
      [] path.base \in {"package.json", "vercel.json"} -> [name |-> "JSON", programming |-> FALSE]
      [] path.base = "main.tf" -> [name |-> "Terraform", programming |-> FALSE]
      [] OTHER -> [name |-> "", programming |-> FALSE]

\* language_histogram: the files of each language that no vendored folder holds,
\* programming languages first and the most frequent of them first.
SkippedDirs == {"node_modules", "dist"}
Skipped(path) == ToSet(path.dir) \cap SkippedDirs # {}
LanguageHistogram(paths) ==
    LET mine == SelectSeq(paths, LAMBDA p : ~Skipped(p) /\ LanguageOf(p).name # "")
        rows == {[name |-> l.name, programming |-> l.programming,
                  files |-> Cardinality({i \in DOMAIN mine : LanguageOf(mine[i]) = l})] :
                   l \in {LanguageOf(mine[i]) : i \in DOMAIN mine}}
        before(a, b) == IF a.programming # b.programming THEN a.programming ELSE a.files > b.files
    IN  SetToSortSeq(rows, before)

-----------------------------------------------------------------------------
(* The service graph.  A node is [path, tech]: a folder, or a technology. *)

Hosting == {"Hosting", "Cloud"}
ComponentKinds == Hosting \cup {"Database"}
Generic == {"web", "api"}

ServiceNode(folder) == [path |-> folder, tech |-> ""]
Component(rule) == [path |-> <<>>, tech |-> rule.name]
ServiceName(folder) == IF folder = <<>> THEN "root" ELSE Last(folder)

ShallowestOwner(dir, folders) ==
    LET over == {f \in folders : IsPrefix(f, dir)}
    IN  {f \in over : \A g \in over : Len(f) <= Len(g)}

\* owner_of: the deepest service that contains a folder, if any does.
Owner(dir, folders) ==
    LET over == {f \in folders : IsPrefix(f, dir)}
    IN  {f \in over : \A g \in over : Len(g) <= Len(f)}

Owned(things, folder, folders) == SelectSeq(things, LAMBDA t : folder \in Owner(t.dir, folders))

\* _attach_components and _set_hosting, for one service after another: node is
\* [childs, edges, inside]; a component is known even when its node is full.
Attach(node, techs) ==
    LET add(n, rule) ==
          IF n.full \/ rule.kind \notin ComponentKinds THEN n
          ELSE IF Len(n.childs) >= MaxChildren
          THEN [n EXCEPT !.full = TRUE, !.known = Append(@, rule)]
          ELSE [n EXCEPT !.known = Append(@, rule),
                         !.childs = Append(@, Component(rule)),
                         !.edges = IF rule.kind \in Hosting \/ Len(@) >= MaxEdges THEN @
                                   ELSE Append(@, Component(rule))]
    IN  FoldLeft(add, node, techs)

InComponent(techs, known) ==
    LET host == SelectSeq(techs, LAMBDA r : r.kind \in Hosting /\ r \in known)
    IN  IF host = <<>> THEN {} ELSE {Component(Last(host))}

\* The longest service folder around a service, the root of the tree without one.
ParentOf(folder, services) ==
    LET over == {f \in services \ {<<>>, folder} : IsPrefix(f, folder)}
    IN  IF over = {} THEN <<>> ELSE CHOOSE f \in over : \A g \in over : Len(g) <= Len(f)

\* The service a dependency names: by its name, or by the last part of a scoped
\* one.  Names that half the services would bear name none.
Calls(name, folder) ==
    ServiceName(folder) = Last(name) /\ (Len(name) > 1 \/ name[1] \notin Generic)

\* The top level of build_graph is read from the synthetic root, which has children
\* only if the repository itself is no service.
TopLevel(services) ==
    IF <<>> \in services THEN {} ELSE {f \in services : ParentOf(f, services) = <<>>}
Nested(folder, services) == {f \in services \ {<<>>} : ParentOf(f, services) = folder /\ f # folder}

\* Of several siblings of one name a nested one is meant.
Referred(name, folder, services) ==
    LET called(siblings) == {f \in siblings : Calls(name, f)}
        own == called(Nested(folder, services))
        any == IF own # {} THEN own ELSE called(TopLevel(services))
    IN  IF any = {} THEN {} ELSE {CHOOSE f \in any : TRUE}

\* _service_edges and add_edge: never to itself, nor twice.
Link(edges, folder, deps, services) ==
    FoldLeft(LAMBDA out, d :
               LET new == {ServiceNode(f) : f \in Referred(d.name, folder, services) \ {folder}}
                          \ ToSet(out)
               IN  IF Len(out) >= MaxEdges THEN out ELSE out \o SetToSeq(new),
             edges, deps)

\* build_graph: what each of the services kept, in that order, is built from, its
\* components, its nesting and its references.  folders are all there are.
GraphOf(results, paths, folders, kept) ==
    LET services == ToSet(kept)
        manifests == [f \in services |-> Owned(results, f, folders)]
        deps(f) == FlattenSeq([i \in DOMAIN manifests[f] |-> manifests[f][i].deps])
        techs == [f \in services |->
                    LET fired == Firings(manifests[f], Owned(paths, f, folders))
                        rules == {fired[i].rule : i \in DOMAIN fired}
                    IN  SelectSeq(Rules, LAMBDA r : r \in rules)]
        bare == [f \in services |->
                   Attach([childs |-> <<>>, edges |-> <<>>, known |-> <<>>, full |-> FALSE], techs[f])]
        known(n) == UNION {ToSet(bare[kept[i]].known) : i \in 1..n}
        index(f) == CHOOSE i \in DOMAIN kept : kept[i] = f
    IN  [total |-> Cardinality(folders),
         services |-> kept,
         components |-> {Component(r) : r \in known(Len(kept))},
         techs |-> techs,
         manifests |-> manifests,
         inside |-> [f \in services |-> InComponent(techs[f], known(index(f)))],
         childs |-> [f \in services \cup {<<>>} |->
                       (IF f \in services THEN ToSet(bare[f].childs) ELSE {})
                       \cup {ServiceNode(g) : g \in Nested(f, services)}],
         edges |-> [f \in services |->
                      Link(bare[f].edges, f, deps(f), services)]]

\* The services are the folders with a manifest, shallow first and no more than
\* MaxServices.
KeptServices(folders) ==
    LET ordered == SetToSortSeq(folders, LAMBDA f, g : Len(f) < Len(g))
    IN  SubSeq(ordered, 1, IF Len(ordered) > MaxServices THEN MaxServices ELSE Len(ordered))
BuildGraph(results, paths) ==
    LET folders == {results[i].dir : i \in {k \in DOMAIN results : IsServiceManifest(results[k].base)}}
    IN  GraphOf(results, paths, folders, KeptServices(folders))

\* _edge_list: each edge between known nodes, once.
EdgeList(graph) ==
    LET known == {ServiceNode(f) : f \in ToSet(graph.services)} \cup graph.components
    IN  {e \in UNION {{[from |-> ServiceNode(f), to |-> t] : t \in ToSet(graph.edges[f])} :
                       f \in ToSet(graph.services)} : e.to \in known}

-----------------------------------------------------------------------------
(* The scan *)

\* The files a scan looks at: shallow ones first when there are too many.
Scanable(paths) ==
    LET all == SetToSortSeq({p \in paths : ~Skipped(p)}, LAMBDA p, q : Len(p.dir) < Len(q.dir))
    IN  SubSeq(all, 1, IF Len(all) > MaxFiles THEN MaxFiles ELSE Len(all))

GroupedTwice(results, manager) ==
    FlattenSeq([i \in DOMAIN results |->
                  IF results[i].manager = manager THEN results[i].deps ELSE <<>>])

\* The packages of one manager: each once, as its first manifest declares it.
Grouped(results, manager) ==
    LET mine == SelectSeq(results, LAMBDA r : r.manager = manager)
        deps == FlattenSeq([i \in DOMAIN mine |-> mine[i].deps])
    IN  FoldLeft(LAMBDA kept, d : IF \E e \in ToSet(kept) : e.name = d.name THEN kept
                                  ELSE Append(kept, d), <<>>, deps)

\* The rows of a report, the biggest ecosystem first, cut at MaxDependencies in
\* all: a row that is left nothing stays, with a count of zero.
DependencyRows(results) ==
    LET managers == {results[i].manager : i \in DOMAIN results}
        size(m) == Len(Grouped(results, m))
        rows == SetToSortSeq(managers, LAMBDA a, b : size(a) > size(b))
        cut(st, m) ==
          LET left == MaxDependencies - st.spent
              kept == IF size(m) > left THEN left ELSE size(m)
          IN  [spent |-> st.spent + kept,
               rows |-> Append(st.rows, [manager |-> m,
                                         deps |-> SubSeq(Grouped(results, m), 1, kept)])]
        capped == FoldLeft(cut, [spent |-> 0, rows |-> <<>>], rows)
    IN  [rows |-> capped.rows, total |-> capped.spent,
         truncated |-> MapThenSumSet(size, managers) > MaxDependencies]

\* _run_scan: the manifests that were read, and what the report says of them.
ReadManifests(files, scanned) ==
    LET manifests == SelectSeq(scanned, LAMBDA p : IsManifest(p.dir, p.base))
    IN  [i \in DOMAIN manifests |->
           LET f == CHOOSE g \in files : g.dir = manifests[i].dir /\ g.base = manifests[i].base
           IN  [dir |-> f.dir, base |-> f.base, deps |-> f.deps,
                manager |-> ManagerOf(f.dir, f.base)]]
StackReport(files, scanned, results) ==
    LET table == DependencyRows(results)
    IN  [technologies |-> DetectTechnologies(results, scanned),
         languages |-> LanguageHistogram(scanned),
         graph |-> BuildGraph(results, scanned),
         dependencies |-> table.rows,
         total |-> table.total,
         skipped |-> Cardinality(files) - Len(scanned),
         truncated |-> table.truncated \/ Cardinality({f \in files : ~Skipped(f)}) > MaxFiles]
ScanStack(files) ==
    LET scanned == Scanable({[dir |-> f.dir, base |-> f.base] : f \in files})
    IN  StackReport(files, scanned, ReadManifests(files, scanned))
=============================================================================
