------------------------------ MODULE Manifests ------------------------------
(***************************************************************************)
(* app/techstack/manifests.py: which file of a repository is a manifest,   *)
(* and which dependencies each parser reads from it.                       *)
(*                                                                         *)
(* A file is [dir, base, body]; dir the folders of its path.  A line or an *)
(* entry of a body is a record [kind, name, spec]; a spec is               *)
(* [form, number], where the form says how the number is written.          *)
(***************************************************************************)
EXTENDS Integers, SequencesExt

\* The names of files, by the table or the pattern that knows them.
Registry == [base \in {"package.json", "composer.json", "pyproject.toml", "go.mod",
                       "Cargo.toml", "requirements.txt", "yarn.lock", "Gemfile.lock",
                       "pom.xml", "build.gradle", "Dockerfile"} |->
               CASE base = "package.json"     -> "npm"
                 [] base = "composer.json"    -> "Composer"
                 [] base = "pyproject.toml"   -> "PEP 621 / Poetry"
                 [] base = "go.mod"           -> "Go modules"
                 [] base = "Cargo.toml"       -> "Cargo"
                 [] base = "requirements.txt" -> "pip"
                 [] base = "yarn.lock"        -> "Yarn"
                 [] base = "Gemfile.lock"     -> "Bundler"
                 [] base = "pom.xml"          -> "Maven"
                 [] base = "build.gradle"     -> "Gradle"
                 [] OTHER                     -> "Docker"]
RequirementsFiles == {"requirements.txt", "requirements-dev.txt"}
TextFiles      == RequirementsFiles \cup {"base.txt"}
DockerFiles    == {"Dockerfile", "api.Dockerfile"}
TerraformFiles == {"main.tf"}
YamlFiles      == {"ci.yml"}

InFolder(dir, name) == dir # <<>> /\ Last(dir) = name

\* _lookup: the manager whose manifest a file is, "" for none.
ManagerOf(dir, base) ==
    CASE base \in DOMAIN Registry -> Registry[base]
      [] \/ base \in RequirementsFiles
         \/ (InFolder(dir, "requirements") /\ base \in TextFiles) -> "pip"
      [] base \in DockerFiles -> "Docker"
      [] base \in TerraformFiles -> "Terraform"
      [] /\ InFolder(dir, "workflows") /\ Contains(dir, ".github")
         /\ base \in YamlFiles -> "GitHub Actions"
      [] OTHER -> ""

IsManifest(dir, base) == ManagerOf(dir, base) # ""

\* is_service_manifest: the manifests that make their folder a service.
ServiceManifests == {"package.json", "composer.json", "pyproject.toml", "go.mod", "Cargo.toml",
                     "pom.xml", "build.gradle"}
IsServiceManifest(base) == base \in ServiceManifests \cup RequirementsFiles

\* How a source of dependencies is called when it is listed itself.
SourceKind(manager) ==
    CASE manager = "Docker" -> "Container"
      [] manager = "Terraform" -> "Infrastructure"
      [] manager = "GitHub Actions" -> "CI/CD"
      [] OTHER -> "Package manager"

-----------------------------------------------------------------------------
(* The parsers *)

\* _clean_version: the first number of a specifier; 0 for an open range, a
\* reference to a folder or a repository, and no specifier at all.
CleanVersion(spec) ==
    IF spec.form \in {"absent", "any", "reference"} THEN 0 ELSE spec.number

Declare(entry, scope) ==
    <<[name |-> entry.name, version |-> CleanVersion(entry.spec), scope |-> scope]>>
DeclareAll(entries, scope, but) ==
    FlattenSeq([i \in DOMAIN entries |->
                  IF entries[i].name \in but THEN <<>> ELSE Declare(entries[i], scope)])

\* _parse_requirements: comments and directives apart, every line names one.
Requirements(lines) ==
    DeclareAll(SelectSeq(lines, LAMBDA l : l.kind = "entry"), "runtime", {"python"})

\* Lines under headers: Read says what a line declares under the last header.
BySection(lines, Read(_, _)) ==
    FoldLeft(LAMBDA st, line :
               IF line.kind = "header" THEN [st EXCEPT !.section = line.name]
               ELSE [st EXCEPT !.deps = @ \o Read(st.section, line)],
             [section |-> "", deps |-> <<>>], lines).deps

\* _parse_pyproject_lines: under the two tables it knows, whatever begins like a
\* name is a requirement, the key of a table's entry too.
PyprojectLines(lines) ==
    BySection(lines, LAMBDA section, line :
      IF section \in {"project", "tool.poetry.dependencies"}
         /\ line.kind \in {"entry", "assignment"} /\ line.name # "python"
      THEN Declare(line, "runtime") ELSE <<>>)

\* _parse_pyproject: the tables of a readable file, the lines of another.
Pyproject(body) ==
    IF ~body.readable THEN PyprojectLines(body.lines)
    ELSE DeclareAll(body.dependencies \o body.optional \o body.poetry, "runtime", {"python"})

\* The tables _parse_cargo reads begin with one of two words: a target's do not.
IsRuntimeTable(section) == section \in {"dependencies", "dependencies.x"}
IsDevTable(section) == section = "dev-dependencies"

\* _parse_cargo.
Cargo(lines) ==
    BySection(lines, LAMBDA section, line :
      IF line.kind # "assignment" \/ ~(IsRuntimeTable(section) \/ IsDevTable(section))
      THEN <<>> ELSE Declare(line, IF IsDevTable(section) THEN "dev" ELSE "runtime"))

GoModForgetsClose(lines) ==
    FoldLeft(LAMBDA st, line :
               IF line.kind = "open" THEN [st EXCEPT !.block = TRUE]
               ELSE IF line.kind = "require" \/ (st.block /\ line.kind = "entry")
                    THEN [st EXCEPT !.deps = @ \o Declare(line, "runtime")] ELSE st,
             [block |-> FALSE, deps |-> <<>>], lines).deps

\* _parse_go_mod: single requirements and those inside a require block, if they
\* have a version.
GoMod(lines) ==
    LET read(st, line) ==
          CASE line.kind = "open" -> [st EXCEPT !.block = TRUE]
            [] line.kind = "close" -> [st EXCEPT !.block = FALSE]
            [] /\ line.kind = "require" \/ (st.block /\ line.kind = "entry")
               /\ CleanVersion(line.spec) # 0 -> [st EXCEPT !.deps = @ \o Declare(line, "runtime")]
            [] OTHER -> st
    IN  FoldLeft(read, [block |-> FALSE, deps |-> <<>>], lines).deps

\* Blocks of a JSON manifest, each with its scope; a block that is missing, or is
\* no object, is not in the domain of the document.
InBlocks(doc, blocks, but) ==
    FlattenSeq([b \in DOMAIN blocks |->
                  IF blocks[b].key \in DOMAIN doc
                  THEN DeclareAll(doc[blocks[b].key], blocks[b].scope, but) ELSE <<>>])

PackageJson(doc) ==
    InBlocks(doc, <<[key |-> "dependencies", scope |-> "runtime"],
                    [key |-> "devDependencies", scope |-> "dev"],
                    [key |-> "peerDependencies", scope |-> "peer"],
                    [key |-> "optionalDependencies", scope |-> "optional"]>>, {})
Composer(doc) ==
    InBlocks(doc, <<[key |-> "require", scope |-> "runtime"],
                    [key |-> "require-dev", scope |-> "dev"]>>, {"php"})

\* _parse_gemfile: a name with a specifier, in whatever section of the lock.
Gemfile(lines) ==
    DeclareAll(SelectSeq(lines, LAMBDA l : l.kind = "pinned"), "runtime", {})

\* _parse_pom and _parse_maven_gradle: artifacts with a group; a coordinate of one
\* part names a project of the same build.
Artifacts(entries) ==
    DeclareAll(SelectSeq(entries, LAMBDA e : e.kind = "coordinate"), "runtime", {})

\* _normalise_provider_source: a provider is published by HashiCorp unless its
\* source says otherwise; a full source stays.
Normalise(source) ==
    IF source.form = "full" THEN source
    ELSE [source EXCEPT !.form = "full",
                        !.space = IF source.form = "bare" THEN "hashicorp" ELSE @]

\* Names once, in the order they were met; paths are no names.
Distinct(names) ==
    FoldLeft(LAMBDA kept, n : IF Contains(kept, n) \/ n.form = "path" THEN kept
                              ELSE Append(kept, n), <<>>, names)

\* _parse_terraform: the types of resources, the providers under both names, and
\* for a module the source inside its own block.
Terraform(body) ==
    Distinct(FlattenSeq([i \in DOMAIN body.blocks |->
                           CASE body.blocks[i].kind = "module" -> body.blocks[i].source
                             [] body.blocks[i].kind = "provider" ->
                                  <<body.blocks[i].label, Normalise(body.blocks[i].label)>>
                             [] OTHER -> <<body.blocks[i].label>>])
             \o FlattenSeq([i \in DOMAIN body.required |->
                              <<body.required[i], Normalise(body.required[i])>>]))

\* _parse_github_actions: published actions once each; only a tag is a version.
Actions(uses) ==
    FoldLeft(LAMBDA deps, u :
               IF u.kind = "local" \/ \E d \in ToSet(deps) : d.name = u.name THEN deps
               ELSE deps \o Declare([u EXCEPT !.spec.form =
                                       IF @ \in {"branch", "sha"} THEN "absent" ELSE @], "runtime"),
             <<>>, uses)

\* _parse_dockerfile: the base images, then every word behind an install verb
\* that is not an option.
Dockerfile(lines) ==
    DeclareAll(SelectSeq(lines, LAMBDA l : l.kind = "from"), "runtime", {"scratch"})
    \o DeclareAll(SelectSeq(lines, LAMBDA l : l.kind = "installed"), "system", {})

\* parse_manifest: the result of one manifest; its parser may give up.
ParseManifest(file) ==
    LET manager == ManagerOf(file.dir, file.base)
        names(sources) == [i \in DOMAIN sources |->
                             [name |-> sources[i], version |-> 0, scope |-> "runtime"]]
    IN  [dir |-> file.dir, base |-> file.base, manager |-> manager,
         deps |-> CASE file.base \in {"yarn.lock"} \/ manager = "" -> <<>>
                    [] manager = "npm" -> PackageJson(file.body)
                    [] manager = "Composer" -> Composer(file.body)
                    [] manager = "PEP 621 / Poetry" -> Pyproject(file.body)
                    [] manager = "Go modules" -> GoMod(file.body)
                    [] manager = "Cargo" -> Cargo(file.body)
                    [] manager = "pip" -> Requirements(file.body)
                    [] manager = "Bundler" -> Gemfile(file.body)
                    [] manager \in {"Maven", "Gradle"} -> Artifacts(file.body)
                    [] manager = "Docker" -> Dockerfile(file.body)
                    [] manager = "Terraform" -> names(Terraform(file.body))
                    [] OTHER -> Actions(file.body)]
=============================================================================
