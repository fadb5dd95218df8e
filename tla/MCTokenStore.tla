---------------------------- MODULE MCTokenStore ----------------------------
(* TokenStore on small sets of model values. *)
EXTENDS TokenStore, TLC

Symmetry ==
    Permutations(Users) \cup Permutations(Sids) \cup Permutations(Pairs)
        \cup Permutations(Requests)
=============================================================================
