----------------------------- MODULE HealthScore -----------------------------
(***************************************************************************)
(* app/health: what is measured of a Python file (metrics.py), the score   *)
(* and the band it gets (risk.py), the files fetched because the index cut *)
(* them (fetch.py), and the report made of all of it (service.py).         *)
(*                                                                         *)
(* A statement is a tree [kind, name, branches, calls, body]: its kind,    *)
(* the decision points it adds itself, what it calls itself, and the       *)
(* statements inside it.                                                   *)
(***************************************************************************)
EXTENDS Integers, FiniteSets, SequencesExt, FiniteSetsExt

CONSTANTS MaxSymbols,  \* MAX_SYMBOLS
          MaxHotspots, \* MAX_HOTSPOTS
          MaxFetched,  \* the files a fetch asks for
          MaxNesting   \* bound: levels of statements inside a statement

Least2(a, b) == IF a < b THEN a ELSE b
TotalOf(f(_), seq) == FoldLeft(LAMBDA sum, x : sum + f(x), 0, seq)

-----------------------------------------------------------------------------
(* Metrics *)

IsDef(node) == node.kind = "def"
IsExit(node) == node.kind \in {"return", "raise", "break", "continue"}
IsNesting(node) == node.kind \in {"if", "for", "try", "with", "match"}

\* ast.walk over statements: all nodes of their trees, level by level.
AllNodes(statements) ==
    LET level[d \in 0..MaxNesting] ==
          IF d = 0 THEN statements
          ELSE LET above == level[d - 1]
               IN  FlattenSeq([i \in DOMAIN above |-> above[i].body])
    IN  FlattenSeq([d \in 1..(MaxNesting + 1) |-> level[d - 1]])

WholeBody(node) == node.body

\* scope_statements: a class is not charged for its methods.
ScopeStatements(node) ==
    IF node.kind = "class" THEN SelectSeq(node.body, LAMBDA s : ~IsDef(s)) ELSE node.body

DecisionPoints(statements) == TotalOf(LAMBDA n : n.branches, AllNodes(statements))

\* The blocks around the innermost statement.
NestingDepth(statements) ==
    LET depth[n \in ToSet(AllNodes(statements))] ==
          (IF IsNesting(n) THEN 1 ELSE 0) + Max({0} \cup {depth[c] : c \in ToSet(n.body)})
    IN  Max({0} \cup {depth[s] : s \in ToSet(statements)})

DistinctCallees(statements) ==
    LET all == AllNodes(statements) IN Cardinality(UNION {all[i].calls : i \in DOMAIN all})

\* A return at the very end is no early exit.
NonStructuredExits(statements) ==
    LET exits == Len(SelectSeq(AllNodes(statements), IsExit))
    IN  IF statements # <<>> /\ Last(statements).kind = "return" THEN exits - 1 ELSE exits

Measure(node, path) ==
    LET scope == ScopeStatements(node)
    IN  [name |-> node.name, path |-> path, cc |-> 1 + DecisionPoints(scope),
         nd |-> NestingDepth(scope), fo |-> DistinctCallees(scope), ns |-> NonStructuredExits(scope)]

\* iter_symbols: every function, method and class, wherever it is nested.
IterSymbols(statements, path) ==
    LET within[n \in ToSet(AllNodes(statements))] ==
          (IF n.kind \in {"def", "class"} THEN <<Measure(n, path)>> ELSE <<>>)
          \o FlattenSeq([i \in DOMAIN n.body |-> within[n.body[i]]])
    IN  FlattenSeq([i \in DOMAIN statements |-> within[statements[i]]])

-----------------------------------------------------------------------------
(* Risk, in tenths *)

\* log2 of a power of two: the figures of the samples are one below one.
Log2(n) == CHOOSE k \in 0..8 : 2 ^ k = n

\* analyze: each figure up to its ceiling, weighted.
Lrs(m) == 10 * Least2(Log2(m.cc + 1), 6) + 8 * Least2(m.nd, 8)
          + 6 * Least2(Log2(m.fo + 1), 6) + 7 * Least2(m.ns, 6)

BandFor(lrs) == CASE lrs < 30 -> 1 [] lrs < 60 -> 2 [] lrs < 90 -> 3 [] OTHER -> 4

\* Rounding to the nearest integer, to the even one of two.
Rounded(num, den) ==
    LET q == num \div den  r == num % den
    IN  IF 2 * r > den \/ (2 * r = den /\ q % 2 = 1) THEN q + 1 ELSE q

WorstIsEnough(bands) ==
    IF bands = <<>> THEN 100 ELSE 100 - 35 * (Last(bands) - 1)

\* health_from_bands: 100 less the mean penalty of the symbols' bands.
HealthFromBands(bands) ==
    LET penalty == <<0, 35, 70, 100>>
        total == TotalOf(LAMBDA b : penalty[b], bands)
    IN  IF bands = <<>> THEN 100 ELSE Rounded(100 * Len(bands) - total, Len(bands))

-----------------------------------------------------------------------------
(* Fetching.  remote is [branches, broken, api, served, late]: the branches  *)
(* that serve the file probed, whether the probe raises, the branch the API  *)
(* answers ("" for none), the paths served, and those the deadline cuts off. *)

BranchCandidates == <<"main", "master">>

\* _resolve_branch: the candidates first, the API when all of them miss.
ResolveBranch(remote) ==
    LET hit == SelectSeq(BranchCandidates, LAMBDA b : b \in remote.branches)
    IN  CASE remote.broken -> "" [] hit # <<>> -> hit[1] [] OTHER -> remote.api

\* fetch: the first of the files, which come shallow ones first; each is fetched or
\* counted as failed, also when the deadline passes.
Fetch(wanted, remote) ==
    LET asked == SubSeq(wanted, 1, Least2(Len(wanted), MaxFetched))
        paths == {asked[i].path : i \in DOMAIN asked}
        got == paths \cap (remote.served \ remote.late)
        branch == IF asked = <<>> THEN "" ELSE ResolveBranch(remote)
    IN  IF branch = "" THEN [files |-> {}, failed |-> Cardinality(paths),
                             unreachable |-> asked # <<>> /\ ~remote.broken]
        ELSE [files |-> got, failed |-> Cardinality(paths \ got), unreachable |-> FALSE]

-----------------------------------------------------------------------------
(* The report.  A file is [path, python, text, whole, parses, test, symbols]:  *)
(* whole says that the chunks of the index make a file that parses, parses    *)
(* that the file itself does.                                                 *)

RowsFor(file) ==
    [i \in DOMAIN file.symbols |->
       [path |-> file.path, name |-> file.symbols[i].name, test |-> file.test,
        lrs |-> Lrs(file.symbols[i]), band |-> BandFor(Lrs(file.symbols[i]))]]

Overall(rows) == IF rows = <<>> THEN 1 ELSE BandFor(Max({rows[i].lrs : i \in DOMAIN rows}))

\* The worst symbol of each file, the first of equals.
WorstByFile(rows) ==
    {rows[i] : i \in {k \in DOMAIN rows :
       \A j \in DOMAIN rows : rows[j].path = rows[k].path =>
         rows[j].lrs < rows[k].lrs \/ (rows[j].lrs = rows[k].lrs /\ j >= k)}}

\* _run_scan: what the index holds is measured, the rest is fetched if the
\* repository is known, and what stays unread is counted.
HealthScan(files, remote, known) ==
    LET python == SelectSeq(files, LAMBDA f : f.python /\ f.text)
        whole == SelectSeq(python, LAMBDA f : f.whole)
        unresolved == SelectSeq(python, LAMBDA f : ~f.whole)
        outcome == IF unresolved # <<>> /\ known THEN Fetch(unresolved, remote)
                   ELSE [files |-> {}, failed |-> 0, unreachable |-> FALSE]
        fetched == SelectSeq(unresolved, LAMBDA f : f.path \in outcome.files /\ f.parses)
        all == FlattenSeq([i \in DOMAIN whole |-> RowsFor(whole[i])])
               \o FlattenSeq([i \in DOMAIN fetched |-> RowsFor(fetched[i])])
        rows == SubSeq(all, 1, Least2(Len(all), MaxSymbols))
        bands == [i \in DOMAIN rows |-> rows[i].band]
        ranked == SortSeq(rows, LAMBDA a, b : a.lrs > b.lrs)
        hot == SelectSeq(ranked, LAMBDA r : ~r.test)
    IN  [health |-> IF rows = <<>> THEN -1 ELSE HealthFromBands(bands),
         band |-> Overall(rows),
         counts |-> [b \in 1..4 |-> Len(SelectSeq(bands, LAMBDA x : x = b))],
         hotspots |-> SubSeq(hot, 1, Least2(Len(hot), MaxHotspots)),
         files |-> WorstByFile(rows),
         symbols |-> Len(rows),
         measured |-> Len(whole) + Len(fetched),
         fetched |-> Len(fetched),
         unparsed |-> Len(unresolved) - Len(fetched),
         rateLimited |-> outcome.unreachable]
=============================================================================
