-------------------------- MODULE MCClusterEvents --------------------------
(***************************************************************************)
(* Instances of ClusterEvents for TLC.  Nodes are interchangeable, and so  *)
(* are the boot identities of a node.                                      *)
(***************************************************************************)
EXTENDS ClusterEvents, TLC

Symmetry == Permutations(Node) \cup Permutations(Boot)

=============================================================================
