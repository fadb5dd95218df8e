---------------------------- MODULE MCIdempotency ----------------------------
(* Idempotency on small sets of model values. *)
EXTENDS Idempotency, TLC

CONSTANTS docA, docB, docV, empty, given

(* Two requests with their arguments written into the document, and one that
   passes them as variables. *)
SomeBodies == {docA, docB, docV}
SomeVariables == {empty, given}
VariablesOf == [b \in SomeBodies |-> IF b = docV THEN given ELSE empty]

Symmetry ==
    Permutations(Keys) \cup Permutations({docA, docB})
        \cup Permutations(Effects) \cup Permutations(Attempts)
=============================================================================
