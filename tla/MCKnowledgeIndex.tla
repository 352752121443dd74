-------------------------- MODULE MCKnowledgeIndex --------------------------
(* Two files, one of them in a watched directory, and one item. *)
EXTENDS KnowledgeIndex

CONSTANTS f1, f2
=============================================================================
