-------------------------- MODULE MCTenantRegistry --------------------------
(* TLC instances of TenantRegistry.  Connections, tenants and collections are
   interchangeable: no action tells two of them apart.                       *)
EXTENDS TenantRegistry, TLC

Symmetry == Permutations(Conns) \cup Permutations(DbIds) \cup Permutations(Colls)
=============================================================================
