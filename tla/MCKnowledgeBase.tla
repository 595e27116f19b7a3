-------------------------- MODULE MCKnowledgeBase --------------------------
(***************************************************************************)
(* KnowledgeBase for TLC: runs that archive, and runs that search at the   *)
(* same time with room for one case or for two.                            *)
(***************************************************************************)
EXTENDS KnowledgeBase, TLC

RunSymmetry == Permutations(Runs)
=============================================================================
