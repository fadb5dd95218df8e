---------------------------- MODULE MCResetRetry ----------------------------
(* ResetRetry on small sets of model values. *)
EXTENDS ResetRetry, TLC

(* Every request passes its email as a variable. *)
ByVariable == [email : Users, inline : {FALSE}]

Symmetry ==
    Permutations(Users) \cup Permutations(Keys) \cup Permutations(Tokens)
        \cup Permutations(Requesters) \cup Permutations(Resetters)

=============================================================================
