-------------------------- MODULE MCKnowledgeBase ---------------------------
(* One page that changes and may be stored under an old id; or a page that is *)
(* renamed and put on cards, beside an upload.                                *)
EXTENDS KnowledgeBase, TLC

CONSTANTS changing, named, upload

MCVersions == (changing :> {1, 2}) @@ (named :> {1}) @@ (upload :> {1})
MCCorpora == {{changing}, {named, upload}}
ProcSymmetry == Permutations(Procs)
=============================================================================
