----------------------------- MODULE SecurityScan -----------------------------
(***************************************************************************)
(* app/security: the two halves of a report on somebody's repository, the  *)
(* advisories on its dependencies (cves.py) and the patterns found in its  *)
(* files (code.py), and how they are counted, cut and qualified            *)
(* (service.py).                                                           *)
(***************************************************************************)
EXTENDS Integers, FiniteSets, SequencesExt, FiniteSetsExt

CONSTANTS MaxAsked,        \* MAX_DEPENDENCIES of cves.py
          MaxAdvisories,   \* MAX_ADVISORIES_PER_PACKAGE
          MaxScannedFiles, \* MAX_FILES
          MaxFindings,     \* MAX_FINDINGS
          CodeRules        \* CODE_RULES and TEXT_RULES: [id, severity, engine, inTests]

Severities == <<"critical", "high", "medium", "low", "unknown">>
SeverityRank(severity) == CHOOSE i \in DOMAIN Severities : Severities[i] = severity
Worst(severities) ==
    IF severities = {} THEN "unknown" ELSE Severities[Min({SeverityRank(s) : s \in severities})]

-----------------------------------------------------------------------------
(* Dependencies.  A row is [name, version, manager, scope]; osv says for a key *)
(* which advisories it has, or "down".                                         *)

Ecosystem(manager) ==
    CASE manager \in {"pip", "PEP 621 / Poetry"} -> "PyPI" [] manager \in {"npm", "Yarn"} -> "npm" [] OTHER -> ""

\* severity_of: the label of a reviewed advisory, else the worst impact of its
\* vector; one that cannot be rated stays unknown.
SeverityOf(record) ==
    CASE record.label # "" -> IF record.label = "moderate" THEN "medium" ELSE record.label
      [] record.impacts = {} -> "unknown"
      [] "H" \in record.impacts -> "high"
      [] "L" \in record.impacts -> "medium"
      [] OTHER -> "low"

Advise(key, records) ==
    LET shown == SubSeq(records, 1, IF Len(records) > MaxAdvisories THEN MaxAdvisories ELSE Len(records))
    IN  [i \in DOMAIN shown |->
           [id |-> shown[i].id, severity |-> SeverityOf(shown[i]), sure |-> TRUE,
            source |-> "dependency", at |-> key.name, version |-> key.version]]

IsDev(row) == row.scope = "dev"
KeyOf(row) == [name |-> row.name, version |-> row.version, ecosystem |-> Ecosystem(row.manager)]
IsAskable(row) == ~IsDev(row) /\ row.version # 0 /\ Ecosystem(row.manager) # ""

RememberFailures(cache, keys, osv) ==
    [k \in DOMAIN cache \cup keys |-> IF k \in DOMAIN cache THEN cache[k]
                                      ELSE IF osv[k].up THEN osv[k].records ELSE <<>>]

\* What a check leaves in the cache: the answers, never the failures.
Remember(cache, keys, osv) ==
    [k \in DOMAIN cache \cup {a \in keys : osv[a].up} |->
       IF k \in DOMAIN cache THEN cache[k] ELSE osv[k].records]

\* check_dependencies: the shipped rows with a version and an ecosystem, each key
\* once, from the cache if it was asked before.
CheckDependencies(rows, cache, osv) ==
    LET asked == SubSeq(rows, 1, IF Len(rows) > MaxAsked THEN MaxAsked ELSE Len(rows))
        keys == {KeyOf(asked[i]) : i \in {k \in DOMAIN asked : IsAskable(asked[k])}}
        after == Remember(cache, keys, osv)
        answered == keys \cap DOMAIN after
        findings == FlattenSeq(SetToSeq({Advise(k, after[k]) : k \in answered}))
    IN  [cache |-> after,
         checked |-> Cardinality(answered),
         unchecked |-> Len(SelectSeq(asked, LAMBDA r : ~IsDev(r) /\ ~IsAskable(r))),
         vulnerable |-> Cardinality({findings[i].at : i \in DOMAIN findings}),
         findings |-> findings,
         error |-> keys # answered]

-----------------------------------------------------------------------------
(* Code.  A file is [path, test, python, hits]; a hit is [rule, prose].        *)
(* engine says of the pattern engine: "missing", or which rules it fails and   *)
(* which it is too slow for.                                                   *)

RulesOfEngine == {r \in CodeRules : r.engine}

Hit(rule, file) == \E h \in file.hits : h.rule = rule.id /\ ~h.prose
FoundBy(rule, file) ==
    [id |-> rule.id, severity |-> rule.severity, sure |-> file.python, source |-> "code", at |-> file.path, version |-> 0]

\* _scan_text_rules and _scan_secrets: one finding for a rule and a file, prose
\* apart; a secret counts in a test, a setting does not.
ScanText(files) ==
    {FoundBy(p[1], p[2]) : p \in {p \in (CodeRules \ RulesOfEngine) \X ToSet(files) :
                                    Hit(p[1], p[2]) /\ (p[1].inTests \/ ~p[2].test)}}

\* _run_engine: one pass per rule; a pass that fails is named, one that is too
\* slow is not.
ScanPatterns(files, engine) ==
    {FoundBy(p[1], p[2]) : p \in {p \in RulesOfEngine \X ToSet(files) :
       /\ p[1].id \notin engine.failing \cup engine.slow
       /\ \E h \in p[2].hits : h.rule = p[1].id
       /\ p[1].inTests \/ ~p[2].test}}

\* _cap: the worst first.
Worse(a, b) ==
    \/ SeverityRank(a.severity) < SeverityRank(b.severity)
    \/ a.severity = b.severity /\ a.sure /\ ~b.sure
CapUnsorted(findings) ==
    LET n == Cardinality(findings)
    IN  SubSeq(SetToSeq(findings), 1, IF n > MaxFindings THEN MaxFindings ELSE n)
CapFindings(findings) ==
    LET ranked == SetToSortSeq(findings, Worse)
    IN  SubSeq(ranked, 1, IF Len(ranked) > MaxFindings THEN MaxFindings ELSE Len(ranked))

\* scan_code: without the engine only the text is scanned, and no file counts as
\* read.
ScanCode(files, engine) ==
    LET read == SubSeq(files, 1, IF Len(files) > MaxScannedFiles THEN MaxScannedFiles ELSE Len(files))
        failed == engine.failing \cap {r.id : r \in RulesOfEngine}
    IN  IF engine.missing
        THEN [findings |-> ScanText(files), scanned |-> 0, available |-> Len(files), error |-> TRUE]
        ELSE [findings |-> ScanText(files) \cup ScanPatterns(read, engine),
              scanned |-> Len(read), available |-> Len(files), error |-> read # <<>> /\ failed # {}]

\* _stated_limit: what a report says it did not do.
StatedLimits(code, advisories) ==
    {limit \in {"code", "advisories", "unchecked", "unread"} :
       CASE limit = "code" -> code.error
         [] limit = "advisories" -> advisories.error
         [] limit = "unchecked" -> advisories.unchecked > 0
         [] OTHER -> code.scanned < code.available}

\* _run_scan and _payload.
SecurityReport(files, engine, rows, cache, osv) ==
    LET code == ScanCode(files, engine)
        advisories == CheckDependencies(rows, cache, osv)
        shown == CapFindings(code.findings \cup ToSet(advisories.findings))
        of(s) == Len(SelectSeq(shown, LAMBDA f : f.severity = s))
    IN  [findings |-> shown,
         counts |-> [s \in ToSet(Severities) |-> of(s)],
         worst |-> Worst({shown[i].severity : i \in DOMAIN shown}),
         checked |-> advisories.checked, unchecked |-> advisories.unchecked,
         vulnerable |-> advisories.vulnerable,
         cache |-> advisories.cache,
         limits |-> StatedLimits(code, advisories),
         truncated |-> code.scanned < code.available]
=============================================================================
