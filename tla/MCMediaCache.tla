---------------------------- MODULE MCMediaCache ----------------------------
(* Instances of MediaCache for TLC.  Tasks are interchangeable, and so are  *)
(* inodes.                                                                  *)
EXTENDS MediaCache, TLC

Symmetry == Permutations(Tasks) \union Permutations(Inodes)
==============================================================================
