------------------------------ MODULE ArchGraph ------------------------------
(***************************************************************************)
(* app/architecture: the view of a repository a model is shown, and what   *)
(* becomes of the graph it draws: read, checked against the repository,    *)
(* repaired, and compiled into the statements of a Mermaid diagram.        *)
(*                                                                         *)
(* A reply is [readable, groups, nodes, edges]; an entry whose id no       *)
(* diagram could hold has the id "".                                       *)
(***************************************************************************)
EXTENDS Integers, FiniteSets, SequencesExt

CONSTANTS MaxGraphGroups, MaxGraphNodes, MaxGraphEdges,  \* MAX_GROUPS, MAX_NODES, MAX_EDGES
          MaxSourceFiles,   \* MAX_SOURCE_FILES
          MaxExcerpt,       \* MAX_FILE_CHARS
          MaxExcerpts       \* the characters left for excerpts in a prompt

\* The first entries, those with a usable id.
Usable(entries, max) ==
    SelectSeq(SubSeq(entries, 1, IF Len(entries) > max THEN max ELSE Len(entries)),
              LAMBDA e : e.id # "")

\* parse_graph: too many groups, nodes and edges are cut; an edge to a node that
\* is not there is dropped.  A reply without nodes is no graph.
ParseGraph(reply) ==
    LET nodes == Usable(reply.nodes, MaxGraphNodes)
        ids == {nodes[i].id : i \in DOMAIN nodes}
        edges == SubSeq(reply.edges, 1,
                        IF Len(reply.edges) > MaxGraphEdges THEN MaxGraphEdges ELSE Len(reply.edges))
    IN  [groups |-> Usable(reply.groups, MaxGraphGroups),
         nodes |-> nodes,
         edges |-> SelectSeq(edges, LAMBDA e : {e.from, e.to} \subseteq ids)]
IsUnreadable(reply) == ~reply.readable \/ ParseGraph(reply).nodes = <<>>

Repeated(entries) == \E i, j \in DOMAIN entries : i < j /\ entries[i].id = entries[j].id
IsMissing(node, known) == node.path # "" /\ node.path \notin known

\* validate_graph: the categories of what is wrong.
Issues(graph, known) ==
    LET ids == {graph.groups[i].id : i \in DOMAIN graph.groups}
        nodes == ToSet(graph.nodes)
    IN  {issue \in {"duplicate_group_id", "duplicate_node_id", "unknown_group_id",
                    "missing_repository_path"} :
           CASE issue = "duplicate_group_id" -> Repeated(graph.groups)
             [] issue = "duplicate_node_id" -> Repeated(graph.nodes)
             [] issue = "unknown_group_id" -> \E n \in nodes : n.group \notin ids \cup {""}
             [] OTHER -> \E n \in nodes : IsMissing(n, known)}

OnlyBadPaths(issues) == issues = {"missing_repository_path"}

\* strip_unknown_paths.
StripUnknownPaths(graph, known) ==
    [graph EXCEPT !.nodes = [i \in DOMAIN @ |->
        IF IsMissing(@[i], known) THEN [@[i] EXCEPT !.path = ""] ELSE @[i]]]

\* The colour of a node: its group's, else one for what it is.
Tone(node, groups) ==
    IF node.group # "" THEN [group |-> node.group, shape |-> ""]
    ELSE [group |-> "", shape |-> node.shape]

EveryoneLoose(groups, nodes) == nodes

\* The nodes no group of the diagram holds.
Loose(groups, nodes) ==
    SelectSeq(nodes, LAMBDA n : n.group \notin {groups[i].id : i \in DOMAIN groups})

\* compile_mermaid: each group that has members around them, the other nodes, the
\* edges, the links of the nodes with a path, and a colour for every node.
CompileMermaid(graph) ==
    LET statement(kind, id) == [kind |-> kind, id |-> id, to |-> "", tone |-> <<>>]
        nodesOf(nodes) == [i \in DOMAIN nodes |-> statement("node", nodes[i].id)]
        subgraph(g) ==
          LET members == SelectSeq(graph.nodes, LAMBDA n : n.group = g.id)
          IN  IF members = <<>> THEN <<>>
              ELSE <<statement("subgraph", g.id)>> \o nodesOf(members) \o <<statement("end", g.id)>>
        linked == SelectSeq(graph.nodes, LAMBDA n : n.path # "")
    IN  FlattenSeq([i \in DOMAIN graph.groups |-> subgraph(graph.groups[i])])
        \o nodesOf(Loose(graph.groups, graph.nodes))
        \o [i \in DOMAIN graph.edges |->
              [statement("edge", graph.edges[i].from) EXCEPT !.to = graph.edges[i].to]]
        \o [i \in DOMAIN linked |-> statement("click", linked[i].id)]
        \o [i \in DOMAIN graph.nodes |->
              [statement("class", graph.nodes[i].id) EXCEPT
                 !.tone = <<Tone(graph.nodes[i], graph.groups)>>]]

\* What generate makes of a reply, the second one if it is not readable: bad paths
\* are repaired, any other issue is refused.
Diagram(reply, known) ==
    LET graph == ParseGraph(reply)
        issues == Issues(graph, known)
    IN  IF ~IsUnreadable(reply) /\ (issues = {} \/ OnlyBadPaths(issues))
        THEN [drawn |-> TRUE, text |-> CompileMermaid(StripUnknownPaths(graph, known))]
        ELSE [drawn |-> FALSE, text |-> <<>>]

-----------------------------------------------------------------------------
(* The context of a prompt.  A file is [path, noise, entry, readme, size]. *)

\* _build_context: the tree a model sees leaves noise out; the paths it may name
\* are those of all files.
TreeFiles(files) == SelectSeq(files, LAMBDA f : ~f.noise)
KnownPaths(files) == {files[i].path : i \in DOMAIN files}

\* _select_files: entry points first, each up to MaxExcerpt, until one does not
\* fit into the prompt any more or there are enough.
SelectFiles(files) ==
    LET candidates == SelectSeq(TreeFiles(files), LAMBDA f : ~f.readme)
        ordered == SelectSeq(candidates, LAMBDA f : f.entry)
                   \o SelectSeq(candidates, LAMBDA f : ~f.entry)
        share(f) == IF f.size > MaxExcerpt THEN MaxExcerpt ELSE f.size
        choose(st, f) ==
          CASE st.full \/ f.size = 0 -> st
            [] Len(st.chosen) >= MaxSourceFiles \/ st.spent + share(f) > MaxExcerpts ->
                 [st EXCEPT !.full = TRUE]
            [] OTHER -> [st EXCEPT !.chosen = Append(@, f), !.spent = @ + share(f)]
    IN  FoldLeft(choose, [chosen |-> <<>>, spent |-> 0, full |-> FALSE], ordered)
=============================================================================
