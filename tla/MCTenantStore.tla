-------------------------- MODULE MCTenantStore --------------------------
EXTENDS TenantStore, TLC

CONSTANTS w1, w2, p1, p2

(* One thread in each process, or two in one. *)
HomeApart == w1 :> p1 @@ w2 :> p2

HomeTogether == w1 :> p1 @@ w2 :> p1

Symmetry == Permutations(Tenants)
==========================================================================
