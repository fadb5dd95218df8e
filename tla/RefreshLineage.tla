--------------------------- MODULE RefreshLineage ---------------------------
(***************************************************************************)
(* What the token store promises about refresh tokens, without saying how: *)
(* each session has at most one live refresh token, a token is handed out  *)
(* once, and a token that was used, revoked or has expired stays dead.     *)
(* TokenStore implements it.                                               *)
(***************************************************************************)
CONSTANTS Sids, Pairs, None

VARIABLES
    live,   \* the session a token can still refresh, or None
    used    \* the tokens that were ever handed out

vars == <<live, used>>

Init ==
    /\ live = [t \in Pairs |-> None]
    /\ used = {}

(* Login or a rotation gives a new token to a session that has none. *)
Hand(s, t) ==
    /\ t \notin used
    /\ \A x \in Pairs : live[x] # s
    /\ live' = [live EXCEPT ![t] = s]
    /\ used' = used \cup {t}

(* Tokens go away: redeemed, revoked or expired. *)
Drop(T) ==
    /\ live' = [t \in Pairs |-> IF t \in T THEN None ELSE live[t]]
    /\ UNCHANGED used

Next ==
    \/ \E s \in Sids, t \in Pairs : Hand(s, t)
    \/ \E T \in SUBSET Pairs : Drop(T)

Spec == Init /\ [][Next]_vars
=============================================================================
