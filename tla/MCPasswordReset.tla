--------------------------- MODULE MCPasswordReset ---------------------------
(* PasswordReset on small sets of model values. *)
EXTENDS PasswordReset, TLC

Symmetry ==
    Permutations(Users) \cup Permutations(Tokens)
        \cup Permutations(Requesters) \cup Permutations(Resetters)
=============================================================================
