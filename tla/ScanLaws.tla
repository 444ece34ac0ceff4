------------------------------- MODULE ScanLaws -------------------------------
(***************************************************************************)
(* What the analyzers of the studio promise, over bounded inputs: a        *)
(* behaviour draws a sample, and the properties compare what an analyzer   *)
(* makes of it with what its docstrings say.                               *)
(***************************************************************************)
EXTENDS TechStack, ArchGraph, HealthScore, SecurityScan, TLC

CONSTANT MaxLines   \* bound: lines of a manifest

VARIABLE sample

NoSample == [of |-> "none"]

\* Lines of a go.mod and of a Cargo.toml; a spec without a number is a reference.
Line(kind, name, number) ==
    [kind |-> kind, name |-> name,
     spec |-> [form |-> IF number = 0 THEN "reference" ELSE "range", number |-> number]]
GoLines == {Line("open", "", 0), Line("close", "", 0), Line("entry", "a", 1),
            Line("entry", "b", 0), Line("require", "c", 2)}
TomlLines == {Line("header", "dependencies", 0), Line("header", "dev-dependencies", 0),
              Line("header", "package", 0), Line("assignment", "a", 1), Line("comment", "", 0)}

\* Manifests of lines of every kind, of JSON blocks, of tables, of Terraform and of
\* a workflow.
MixedLines == {Line("entry", "a", 1), Line("pinned", "b", 2), Line("coordinate", "a", 0),
               Line("from", "scratch", 0), Line("from", "a", 3), Line("installed", "b", 0)}
LineFiles == {"requirements.txt", "Gemfile.lock", "pom.xml", "Dockerfile", "yarn.lock"}
Declared == {<<>>, <<Line("entry", "a", 1)>>, <<Line("entry", "b", 0), Line("entry", "python", 2)>>}
JsonBlocks == {"dependencies", "devDependencies", "peerDependencies"}
Label(form, name) == [form |-> form, space |-> "", name |-> name]
TfBlocks == {[kind |-> "resource", label |-> Label("type", "r"), source |-> <<>>],
             [kind |-> "provider", label |-> Label("bare", "p"), source |-> <<>>],
             [kind |-> "module", label |-> Label("type", "m"), source |-> <<Label("path", "x")>>],
             [kind |-> "module", label |-> Label("type", "m"), source |-> <<Label("full", "y")>>]}
Uses == {[kind |-> k, name |-> n, spec |-> [form |-> f, number |-> 4]] :
           k \in {"local", "published"}, n \in {"a", "b"}, f \in {"tag", "sha"}}

\* Manifests of a monorepo, and files that say more of its services.
Dep(name, version) == [name |-> name, version |-> version, scope |-> "runtime"]
DepLists == {<<>>, <<Dep(<<"billing">>, 1), Dep(<<"pg">>, 0)>>,
             <<Dep(<<"@acme", "api">>, 1), Dep(<<"aws", "s3">>, 2), Dep(<<"pg">>, 3)>>}
ServiceDirs == {<<>>, <<"web">>, <<"billing">>, <<"web", "api">>}
Npm(dir, deps) == [dir |-> dir, base |-> "package.json", deps |-> deps]
Extra(dir, base, deps) == [dir |-> dir, base |-> base, deps |-> deps]
Others == {{}, {Extra(<<"web", "infra">>, "main.tf", <<Dep(<<"aws", "s3">>, 0)>>)},
           {Extra(<<"billing">>, "vercel.json", <<>>), Extra(<<"web">>, "app.py", <<>>)},
           {Extra(<<"billing">>, "app.py", <<>>), Extra(<<"web">>, "app.py", <<>>),
            Extra(<<"dist">>, "go.mod", <<>>), Extra(<<"web", "infra">>, "main.tf", <<>>)}}

\* Drawings of a model, with ids no diagram can hold and groups and paths that
\* are not there, and the files it was shown.
Group1(id) == [id |-> id]
NodeOf(id, group, path) == [id |-> id, group |-> group, path |-> path, shape |-> "box"]
GraphNodes == {NodeOf("n", "", "a.py"), NodeOf("n", "g", "gone"), NodeOf("m", "g", ""),
               NodeOf("", "g", ""), NodeOf("k", "h", "a.py")}
Drawings == {<<[from |-> "n", to |-> "m"]>>,
             <<[from |-> "m", to |-> "gone"], [from |-> "n", to |-> "m"]>>}
FileOf(path, noise, entry, size) ==
    [path |-> path, noise |-> noise, entry |-> entry, readme |-> FALSE, size |-> size]
ContextFiles == {FileOf("a.py", FALSE, TRUE, 3), FileOf("b.py", FALSE, FALSE, 1),
                 FileOf("t.py", TRUE, TRUE, 1), FileOf("e.py", FALSE, TRUE, 0),
                 FileOf("c.py", FALSE, FALSE, 2)}

\* Trees of statements, two levels deep below a definition.
Node(kind, name, branches, body) ==
    [kind |-> kind, name |-> name, branches |-> branches, calls |-> {}, body |-> body]
Leaves == {Node("return", "", 0, <<>>), Node("other", "", 1, <<>>)}
Blocks == {Node("if", "", 1, <<l>>) : l \in Leaves}
Methods == {Node("def", "m", 0, <<s>>) : s \in Leaves \cup Blocks}
Bodies(S) == UNION {[1..n -> S] : n \in 1..2}
Defs == {Node("def", "f", 0, b) : b \in Bodies(Leaves \cup Blocks)}
        \cup {Node("class", "C", 0, b) : b \in Bodies(Leaves \cup Methods)}

\* Python files of one symbol; figures one below a power of two.
Symbol(cc, nd) == [name |-> "f", path |-> "", cc |-> cc, nd |-> nd, fo |-> 0, ns |-> 0]
Symbols == {Symbol(1, 0), Symbol(3, 2), Symbol(7, 5), Symbol(63, 9)}
PythonFile(path, whole, parses, test, symbols) ==
    [path |-> path, python |-> TRUE, text |-> TRUE, whole |-> whole, parses |-> parses,
     test |-> test, symbols |-> symbols]
Remotes == [branches: {{}, {"master"}}, broken: BOOLEAN, api: {"", "trunk"},
            served: {{"p", "q"}}, late: {{}, {"q"}}]

\* Rows of dependencies, and what the advisory service says of their keys.
DepRow(name, version, manager, scope) ==
    [name |-> name, version |-> version, manager |-> manager, scope |-> scope]
DepRows == {DepRow("p", 1, "npm", "runtime"), DepRow("p", 1, "Yarn", "runtime"),
            DepRow("p", 0, "npm", "runtime"), DepRow("q", 1, "pip", "runtime"),
            DepRow("q", 1, "Docker", "runtime"), DepRow("q", 1, "pip", "dev")}
KeyPairs == {[name |-> "p", version |-> 1, ecosystem |-> "npm"],
             [name |-> "q", version |-> 1, ecosystem |-> "PyPI"]}
Advisory == [id |-> "x", label |-> "", impacts |-> {"H"}]
OsvAnswers == {[up |-> FALSE, records |-> <<>>]} \cup [up: {TRUE}, records: {<<>>, <<Advisory>>}]
CodeFile(path, hits) == [path |-> path, test |-> FALSE, python |-> TRUE, hits |-> hits]
HitsOf == {{}} \cup {{[rule |-> r.id, prose |-> p]} : r \in CodeRules, p \in BOOLEAN}
\* No rule is too slow: such a pass is the one limit a report does not state.
Engines == [missing: BOOLEAN, failing: SUBSET {"eval"}, slow: {{}}]

DrawManifest ==
    \/ \E n \in 0..MaxLines : \E lines \in [1..n -> GoLines] :
         sample' = [of |-> "go.mod", lines |-> lines]
    \/ \E n \in 0..MaxLines : \E lines \in [1..n -> TomlLines] :
         sample' = [of |-> "Cargo.toml", lines |-> lines]
ManifestFile(dir, base, body) ==
    sample' = [of |-> "manifest", file |-> [dir |-> dir, base |-> base, body |-> body]]
DrawFile ==
    \/ \E n \in 0..3, base \in LineFiles : \E lines \in [1..n -> MixedLines] :
         ManifestFile(<<>>, base, lines)
    \/ \E keys \in SUBSET JsonBlocks : \E doc \in [keys -> Declared] :
         ManifestFile(<<>>, "package.json", doc)
    \/ \E dependencies, optional, poetry \in Declared, readable \in BOOLEAN :
         ManifestFile(<<>>, "pyproject.toml",
                      [readable |-> readable, dependencies |-> dependencies, optional |-> optional,
                       poetry |-> poetry, lines |-> <<Line("header", "project", 0)>> \o optional])
    \/ \E n \in 0..3 : \E blocks \in [1..n -> TfBlocks] :
         ManifestFile(<<"infra">>, "main.tf",
                      [blocks |-> blocks, required |-> <<Label("short", "p")>>])
    \/ \E n \in 0..3 : \E uses \in [1..n -> Uses] :
         ManifestFile(<<".github", "workflows">>, "ci.yml", uses)
DrawRepository ==
    \E dirs \in SUBSET ServiceDirs, others \in Others : \E deps \in [dirs -> DepLists] :
      sample' = [of |-> "repository", files |-> others \cup {Npm(d, deps[d]) : d \in dirs}]
DrawReply ==
    \E n \in 0..3 : \E readable \in {TRUE, n > 0}, nodes \in [1..n -> GraphNodes],
       groups \in Bodies({Group1("g"), Group1("")}), edges \in Drawings, files \in Bodies(ContextFiles) :
      sample' = [of |-> "reply", files |-> files,
                 reply |-> [readable |-> readable, groups |-> groups, nodes |-> nodes, edges |-> edges]]
DrawSource == \E statements \in Bodies(Defs \cup Leaves) :
    sample' = [of |-> "source", statements |-> statements]
DrawMeasured ==
    \E p, q, parses, test, known \in BOOLEAN, ps \in Bodies(Symbols), s \in Symbols, remote \in Remotes :
      sample' = [of |-> "measured", remote |-> remote, known |-> known,
                 files |-> <<PythonFile("p", p, TRUE, test, ps),
                             PythonFile("q", q, q \/ parses, FALSE, <<s>>)>>]
DrawReport ==
    \E rows \in Bodies(DepRows), osv \in [KeyPairs -> OsvAnswers], engine \in Engines,
       hits \in HitsOf, others \in {{}, {[rule |-> "eval", prose |-> FALSE]}}, asked \in SUBSET KeyPairs :
      sample' = [of |-> "report", rows |-> rows, osv |-> osv, engine |-> engine,
                 cache |-> [k \in asked |-> <<>>],
                 files |-> <<CodeFile("a", hits), CodeFile("b", others)>>]

DrawSample == /\ sample = NoSample
              /\ \/ DrawManifest \/ DrawFile \/ DrawRepository \/ DrawReply
                 \/ DrawSource \/ DrawMeasured \/ DrawReport
Drop == sample # NoSample /\ sample' = NoSample

SampleInit == sample = NoSample
SampleNext == DrawSample \/ Drop

-----------------------------------------------------------------------------
(* Properties *)

\* Each requirement of a go.mod is one the Go tool would read: it stands inside the
\* block that was opened last and not closed since, and each package of a
\* Cargo.toml belongs to the table whose header is the nearest above it, with that
\* table's scope: _parse_go_mod and _parse_cargo carry this in a flag from line to
\* line.  The other parsers take what is a package of their format, all of it and
\* nothing else; a provider or an action that is used twice is one dependency.
Packages(file) ==
    LET of(kinds) == {l \in ToSet(file.body) : l.kind \in kinds}
        body == file.body
    IN  CASE file.base = "requirements.txt" -> of({"entry"})
          [] file.base = "Gemfile.lock" -> of({"pinned"})
          [] file.base = "pom.xml" -> of({"coordinate"})
          [] file.base = "Dockerfile" -> {l \in of({"from", "installed"}) : l.name # "scratch"}
          [] file.base = "package.json" -> UNION {ToSet(body[k]) : k \in DOMAIN body}
          [] file.base = "pyproject.toml" ->
               {l \in ToSet(body.optional)
                       \cup (IF body.readable THEN ToSet(body.dependencies \o body.poetry) ELSE {}) :
                  l.name # "python"}
          [] file.base = "main.tf" ->
               {Normalise(Label("short", "p"))}
               \cup {b.label : b \in {x \in ToSet(body.blocks) : x.kind # "module"}}
               \cup {l \in UNION {ToSet(b.source) : b \in ToSet(body.blocks)} : l.form # "path"}
          [] file.base = "ci.yml" -> of({"published"})
          [] OTHER -> {}
ManifestsReadTrue ==
    LET lines == sample.lines
        open(i) == \E j \in 1..(i - 1) : /\ lines[j].kind = "open"
                                         /\ \A k \in j..(i - 1) : lines[k].kind # "close"
        heads(i) == {j \in 1..(i - 1) : lines[j].kind = "header"}
        table(i) == IF heads(i) = {} THEN "" ELSE lines[Max(heads(i))].name
        goes(i) == /\ lines[i].kind = "require" \/ (lines[i].kind = "entry" /\ open(i))
                   /\ lines[i].spec.number # 0
        scope == [dependencies |-> "runtime"] @@ ("dev-dependencies" :> "dev")
        rows(Kept(_), scopeOf(_)) ==
          FlattenSeq([i \in DOMAIN lines |->
                        IF Kept(i) THEN <<[name |-> lines[i].name, version |-> lines[i].spec.number,
                                           scope |-> scopeOf(i)]>> ELSE <<>>])
    IN  /\ sample.of = "go.mod" => GoMod(lines) = rows(goes, LAMBDA i : "runtime")
        /\ sample.of = "Cargo.toml" =>
             Cargo(lines) = rows(LAMBDA i : lines[i].kind = "assignment" /\ table(i) \in DOMAIN scope,
                                 LAMBDA i : scope[table(i)])
        /\ sample.of = "manifest" =>
             LET deps == ParseManifest(sample.file).deps
                 names == {d.name : d \in ToSet(deps)}
                 packages == Packages(sample.file)
             IN  IF sample.file.base = "main.tf"
                 THEN packages \subseteq names /\ IsInjective([i \in DOMAIN deps |-> deps[i].name])
                 ELSE /\ names = {p.name : p \in packages}
                      /\ \A d \in ToSet(deps) : d.version = 0
                            \/ \E p \in packages : p.name = d.name /\ p.spec.number = d.version
                      /\ sample.file.base = "ci.yml" => Cardinality(names) = Len(deps)

\* The services of a repository make a tree, however its folders nest: a manifest
\* belongs to the deepest service around it, a service is nested once, under the
\* nearest service above it, and the shallowest ones are kept when there are too
\* many.  Edges stay between services and components that are there, are never
\* repeated nor to their own node, leave hosting out, and hold every reference of
\* a service to one nested in it (build_graph, _service_edges, add_edge).
IsATree(files, scan, g) ==
      LET services == ToSet(g.services)
          opened == {f.dir : f \in {x \in files : IsServiceManifest(x.base) /\ ~Skipped(x)}}
          known == {ServiceNode(f) : f \in services} \cup g.components
          child(f, p) == ServiceNode(f) \in g.childs[p]
          deps(f) == UNION {ToSet(m.deps) : m \in ToSet(g.manifests[f])}
      IN  /\ services \subseteq opened /\ (scan.truncated \/ g.total = Cardinality(opened))
          /\ \A f \in services, h \in opened \ services : Len(f) <= Len(h)
          /\ \A f \in services : \A m \in ToSet(g.manifests[f]) :
               /\ IsPrefix(f, m.dir)
               /\ ~\E h \in opened : IsStrictPrefix(f, h) /\ IsPrefix(h, m.dir)
          /\ \A f \in services \ {<<>>} :
               /\ Cardinality({p \in services \cup {<<>>} : child(f, p)}) = 1
               /\ \A p \in services : child(f, p) =>
                    /\ IsStrictPrefix(p, f)
                    /\ ~\E h \in services : IsStrictPrefix(p, h) /\ IsStrictPrefix(h, f)
          /\ \A e \in EdgeList(g) : e.from # e.to
          /\ \A f \in services :
               LET edges == g.edges[f]
               IN  /\ IsInjective(edges) /\ Len(edges) <= MaxEdges /\ ToSet(edges) \subseteq known
                   /\ \A r \in ToSet(g.techs[f]) : Component(r) \in ToSet(edges) => r.kind \notin Hosting
                   /\ \A c \in services, d \in deps(f) :
                        child(c, f) /\ Calls(d.name, c) /\ Len(edges) < MaxEdges =>
                          \E b \in services : /\ ServiceName(b) = ServiceName(c)
                                              /\ ServiceNode(b) \in ToSet(edges)
                   /\ {r.name : r \in ToSet(g.techs[f])} \subseteq DOMAIN scan.technologies

\* The graph of the services of every drawn repository is such a tree.
GraphIsATree ==
    LET scan == ScanStack(sample.files)
    IN  sample.of = "repository" => IsATree(sample.files, scan, scan.graph)

\* Siblings that name one another are linked.  They are not when the repository
\* itself is a service: build_graph reads the top level from a root that has no
\* children then.
SiblingsAreLinked ==
    sample.of = "repository" =>
      LET g == ScanStack(sample.files).graph
          services == ToSet(g.services)
      IN  \A p \in services \cup {<<>>} : \A f, c \in services :
            /\ {ServiceNode(f), ServiceNode(c)} \subseteq g.childs[p] /\ f # c
            /\ \E m \in ToSet(g.manifests[f]) : \E d \in ToSet(m.deps) : Calls(d.name, c)
            /\ Len(g.edges[f]) < MaxEdges
            => \E b \in services : /\ ServiceName(b) = ServiceName(c)
                                   /\ ServiceNode(b) \in ToSet(g.edges[f])

\* The dependencies of a report add up: the count is that of its rows and within
\* its limit, a manager is listed once and its packages once each, the bigger
\* ecosystem first, and what a manifest declares is missing only from a report that
\* says it is cut.  Every manager listed is a technology too.  The languages count
\* a file once at most, and no data format comes before a programming language
\* (_run_scan, language_histogram).
AddsUp(files, scan) ==
      LET rows == scan.dependencies
          languages == scan.languages
          names(row) == {d.name : d \in ToSet(row.deps)}
          manifests == {f \in files : IsManifest(f.dir, f.base) /\ ~Skipped(f)}
      IN  /\ scan.total = TotalOf(LAMBDA r : Len(r.deps), rows) /\ scan.total <= MaxDependencies
          /\ \A i, j \in DOMAIN rows : i < j => /\ rows[i].manager # rows[j].manager
                                                /\ Len(rows[i].deps) >= Len(rows[j].deps)
          /\ \A i \in DOMAIN rows : Cardinality(names(rows[i])) = Len(rows[i].deps)
          /\ scan.truncated \/ \A f \in manifests : \E i \in DOMAIN rows :
               /\ rows[i].manager = ManagerOf(f.dir, f.base)
               /\ {d.name : d \in ToSet(f.deps)} \subseteq names(rows[i])
          /\ \A i \in DOMAIN rows : \E n \in DOMAIN scan.technologies :
               rows[i].manager \in scan.technologies[n].managers
          /\ TotalOf(LAMBDA l : l.files, languages) + scan.skipped <= Cardinality(files)
          /\ \A i, j \in DOMAIN languages : i < j =>
               /\ languages[i].name # languages[j].name
               /\ languages[j].programming => languages[i].programming /\ languages[i].files >= languages[j].files

\* The report of every drawn repository adds up in this sense.
StackAddsUp == sample.of = "repository" => AddsUp(sample.files, ScanStack(sample.files))

\* A diagram that is drawn can be rendered: each node is declared once, inside the
\* one box of its group if that has a box, edges and links and colours speak of
\* declared nodes, and a link leads to a file of the repository.  The excerpts a
\* model saw fit into the prompt, and no file displaces an entry point.
DiagramIsWellFormed ==
    sample.of = "reply" =>
      LET known == KnownPaths(sample.files)
          text == Diagram(sample.reply, known).text
          nodes == ToSet(ParseGraph(sample.reply).nodes)
          lines(kind, id) == {i \in DOMAIN text : text[i].kind = kind /\ text[i].id = id}
          ids(kind) == {s.id : s \in {x \in ToSet(text) : x.kind = kind}}
          within(id, g) == \E n \in lines("node", id), a \in lines("subgraph", g), z \in lines("end", g) :
                             a < n /\ n < z
          excerpts == SelectFiles(sample.files)
          chosen == ToSet(excerpts.chosen)
      IN  /\ text # <<>> =>
               /\ \A n \in nodes : /\ Cardinality(lines("node", n.id)) = 1
                                   /\ Cardinality(lines("class", n.id)) = 1
                                   /\ \A g \in ids("subgraph") : within(n.id, g) <=> n.group = g
               /\ \A g \in ids("subgraph") : /\ Cardinality(lines("subgraph", g)) = 1
                                             /\ \E n \in nodes : n.group = g
               /\ \A s \in ToSet(text) : s.kind = "edge" => {s.id, s.to} \subseteq ids("node")
               /\ \A n \in nodes : n.id \in ids("click") <=> n.path \in known
          /\ TotalOf(LAMBDA f : Least2(f.size, MaxExcerpt), excerpts.chosen) <= MaxExcerpts
          /\ Len(excerpts.chosen) <= MaxSourceFiles
          /\ \A f \in chosen : /\ ~f.noise /\ f.size > 0
                               /\ f.entry \/ \A e \in ToSet(sample.files) :
                                    e.entry /\ ~e.noise /\ e.size > 0 => e \in chosen

\* No decision point is charged twice or to nobody: the symbols of a file and its
\* loose statements have together those of the file, methods beside their class.
\* And a report's figures agree: each Python file was measured or is counted as
\* unread, the score is full or nothing only if every symbol is in the best or the worst band,
\* and the hotspots are the worst symbols outside tests.
HealthIsHonest ==
    /\ sample.of = "source" =>
         DecisionPoints(sample.statements) =
           TotalOf(LAMBDA m : m.cc - 1, IterSymbols(sample.statements, ""))
           + DecisionPoints(SelectSeq(sample.statements, LAMBDA s : s.kind \notin {"def", "class"}))
    /\ sample.of = "measured" =>
         LET report == HealthScan(sample.files, sample.remote, sample.known)
             files == ToSet(sample.files)
             hot == report.hotspots
             tests == {f.path : f \in {x \in files : x.test}}
         IN  /\ report.measured + report.unparsed = Len(sample.files)
             /\ report.unparsed > 0 \/ report.files # {}
             /\ TotalOf(LAMBDA b : report.counts[b], <<1, 2, 3, 4>>) = report.symbols
             /\ report.symbols = 0 <=> report.health = -1
             /\ report.symbols > 0 => /\ report.health \in 0..100
                                      /\ report.counts[report.band] > 0
                                      /\ report.health = 100 <=> report.counts[1] = report.symbols
                                      /\ report.health = 0 <=> report.counts[4] = report.symbols
             /\ \A i \in DOMAIN hot : hot[i].path \notin tests
             /\ \A w \in report.files : w.path \notin tests =>
                  Len(hot) = MaxHotspots \/ \E i \in DOMAIN hot : hot[i].path = w.path
             /\ \A i, j \in DOMAIN hot : i < j => hot[i].lrs >= hot[j].lrs

\* A report does not pass ignorance for safety: a dependency the advisory service
\* gave no answer for, a version that cannot be asked about, a rule the engine
\* failed and a file it did not read are each stated, and a failure is never kept
\* as an answer.  What is cut from the findings is never worse than what is shown,
\* and the counts are those of the findings shown.
ReportStatesItsLimits ==
    sample.of = "report" =>
      LET report == SecurityReport(sample.files, sample.engine, sample.rows, sample.cache, sample.osv)
          shipped == {r \in ToSet(sample.rows) : ~IsDev(r)}
          askable == {KeyOf(r) : r \in {x \in shipped : IsAskable(x)}}
          shown == report.findings
          rank(i) == SeverityRank(shown[i].severity)
          ruled == {r \in CodeRules : \E f \in ToSet(sample.files) : \E h \in f.hits :
                      h.rule = r.id /\ (r.engine \/ ~h.prose)}
      IN  /\ \A k \in DOMAIN report.cache : k \in DOMAIN sample.cache \/ sample.osv[k].up
          /\ askable \subseteq DOMAIN report.cache \/ "advisories" \in report.limits
          /\ (\A r \in shipped : IsAskable(r)) \/ "unchecked" \in report.limits
          /\ report.checked = Cardinality(askable \cap DOMAIN report.cache)
          /\ \A r \in ruled : \/ {"code", "unread"} \cap report.limits # {}
                              \/ Len(shown) = MaxFindings \/ \E f \in ToSet(shown) : f.id = r.id
          /\ \A i, j \in DOMAIN shown : i < j => rank(i) <= rank(j)
          /\ MapThenSumSet(LAMBDA s : report.counts[s], ToSet(Severities)) = Len(shown)
          /\ shown # <<>> => report.worst = shown[1].severity
=============================================================================
