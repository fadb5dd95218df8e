---------------------------- MODULE MCRateLimiter ----------------------------
(* The login rules with small numbers: one request per address in a window of
   two ticks, two per email in a window of three; one client sends no email,
   and one request is not limited. *)
EXTENDS RateLimiter

CONSTANTS ip, email

LoginKeys == {ip, email}
LoginLimit == [k \in LoginKeys |-> IF k = email THEN 2 ELSE 1]
LoginWindow == [k \in LoginKeys |-> IF k = email THEN 3 ELSE 2]
LoginRoutes == {<<>>, <<ip, email>>, <<ip>>}
=============================================================================
