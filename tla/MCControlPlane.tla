--------------------------- MODULE MCControlPlane ---------------------------
(* TLC instances of ControlPlane.  Edge connections, and databases, are
   interchangeable.                                                          *)
EXTENDS ControlPlane, TLC

Symmetry == Permutations(Dbs) \cup Permutations(Edges)
=============================================================================
