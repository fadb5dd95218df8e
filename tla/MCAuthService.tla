---------------------------- MODULE MCAuthService ----------------------------
(* AuthService on small sets of model values. *)
EXTENDS AuthService, TLC

Symmetry ==
    Permutations(Sids) \cup Permutations(Pairs) \cup Permutations(Requests)

(* Registrations, logins and resets in which nothing fails. *)
CalmNext ==
    \/ \E r \in Requests :
          \/ RegisterMutation(r) \/ LoginMutation(r)
          \/ \E u \in Users : ResetPassword(r, u)
          \/ UpdateUser(r) \/ RevokeAll(r) \/ RevokeStep(r)
          \/ RecordAudit(r) /\ tx'[r].new = tx[r].new
          \/ Commit(r)
    \/ Tick /\ UNCHANGED database

CalmSpec == AuthInit /\ [][CalmNext]_authVars
=============================================================================
