--------------------------- MODULE ResetTokenLife ---------------------------
(***************************************************************************)
(* What the two reset mutations promise about a reset token, without       *)
(* transactions: its life goes one way.  It is issued, becomes active when *)
(* its request commits, and is spent when it has changed a password, when  *)
(* a newer request replaces it or when its own request is rolled back.     *)
(* PasswordReset implements it.                                            *)
(***************************************************************************)
EXTENDS Naturals

CONSTANT Tokens

VARIABLES
    stage,    \* new, issued, active or spent
    changes   \* passwords changed with each token

vars == <<stage, changes>>

Init ==
    /\ stage = [t \in Tokens |-> "new"]
    /\ changes = [t \in Tokens |-> 0]

Issue(t) ==
    /\ stage[t] = "new"
    /\ stage' = [stage EXCEPT ![t] = "issued"]
    /\ UNCHANGED changes

(* A token becomes active and replaces tokens that were. *)
Activate(t, replaced) ==
    /\ stage[t] = "issued"
    /\ \A x \in replaced : stage[x] \in {"active", "spent"}
    /\ stage' = [x \in Tokens |-> IF x = t THEN "active"
                                  ELSE IF x \in replaced THEN "spent"
                                  ELSE stage[x]]
    /\ UNCHANGED changes

(* The request that issued a token is undone. *)
Forget(t) ==
    /\ stage[t] = "issued"
    /\ stage' = [stage EXCEPT ![t] = "spent"]
    /\ UNCHANGED changes

(* A password is changed with a token that is, or was, active.  It is not
   again: resets that overlap may find it active together. *)
Change(t) ==
    /\ stage[t] \in {"active", "spent"}
    /\ stage' = [stage EXCEPT ![t] = "spent"]
    /\ changes' = [changes EXCEPT ![t] = @ + 1]

Next ==
    \/ \E t \in Tokens : Issue(t) \/ Forget(t) \/ Change(t)
    \/ \E t \in Tokens, replaced \in SUBSET Tokens : Activate(t, replaced)

Spec == Init /\ [][Next]_vars
=============================================================================
