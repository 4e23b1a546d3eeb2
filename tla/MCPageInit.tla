----------------------------- MODULE MCPageInit -----------------------------
(***************************************************************************)
(* Model checking of PageInit: all maps of two entries, in any order,      *)
(* overlapping or not, aligned or not, that end behind the tree.           *)
(***************************************************************************)
EXTENDS PageInit

MCEntries == [type : {1, 2}, addr : {0, 2, 6, 14}, len : {4, 8, 13, 20}]
MCMaps == {<<e, f>> : e, f \in MCEntries} \ {m \in MCEntries \X MCEntries :
             \A k \in 1..2 : m[k].type = 2 \/ m[k].addr + m[k].len < 20}

=============================================================================
