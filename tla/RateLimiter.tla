----------------------------- MODULE RateLimiter -----------------------------
(***************************************************************************)
(* The fixed-window rate limiter (infrastructure/security/rate_limiter.py) *)
(* and the middleware that asks it (GraphQLRateLimitMiddleware, main.py).  *)
(*                                                                         *)
(* A counter key rl:{key} is its value and its TTL, written as Redis       *)
(* reports it: -2 when the key is absent, -1 when it has no expiry.  Each  *)
(* await on Redis is one action: other requests, and the key's expiry, may *)
(* come between the SET NX, the INCR and the TTL of one check.             *)
(***************************************************************************)
EXTENDS Integers, Sequences

CONSTANTS
    Keys,      \* counter keys: {operation}:{dimension}:{ip or email}
    Limit,     \* limit of the rule a key belongs to
    Window,    \* its window_seconds, in ticks
    Routes,    \* key lists a request may be checked against: the rules of its
               \* operation in table order, a rule without an email left out
    Requests   \* requests in the middleware at the same time

ASSUME RuleAssumption ==
    /\ Limit \in [Keys -> Nat \ {0}]
    /\ Window \in [Keys -> Nat \ {0}]
    /\ Routes \subseteq Seq(Keys)

VARIABLES
    count,     \* value of rl:{key}
    ttl,       \* TTL of rl:{key}
    req,       \* coroutine serving each request
    passed,    \* history: checks that passed on the key since it was created
    span       \* history: a stretch of one window's length that is being
               \* watched: the ticks left of it and the checks passed in it

vars == <<count, ttl, req, passed, span>>

Absent == -2
NoExpiry == -1

Idle == [pc |-> "idle", rules |-> <<>>, retry |-> 0]
NoSpan == [left |-> 0, n |-> 0]

Init ==
    /\ count = [k \in Keys |-> 0]
    /\ ttl = [k \in Keys |-> Absent]
    /\ req = [r \in Requests |-> Idle]
    /\ passed = [k \in Keys |-> 0]
    /\ span = [k \in Keys |-> NoSpan]

-----------------------------------------------------------------------------
(* dispatch: the loop over the operation's rules; with no rule left the
   request goes on to GraphQL (call_next) and leaves this model. *)
CheckNext(rules) ==
    IF rules = <<>> THEN Idle ELSE [pc |-> "set", rules |-> rules, retry |-> 0]

(* dispatch up to the loop.  A request that is not a POST to /graphql, has no
   JSON body or no limited operation has the empty route. *)
Dispatch(r, route) ==
    /\ req[r].pc = "idle"
    /\ req' = [req EXCEPT ![r] = CheckNext(route)]
    /\ UNCHANGED <<count, ttl, passed, span>>

(* check_ip or check_email: the key of the rule being checked. *)
KeyChecked(r) == Head(req[r].rules)

(* Mutants: SET without NX restarts the counter, the window restarts with
   every attempt, or it is given in another unit. *)
SetAlways(k) ==
    /\ count' = [count EXCEPT ![k] = 0]
    /\ ttl' = [ttl EXCEPT ![k] = Window[k]]
SetSliding(k) ==
    /\ UNCHANGED count
    /\ ttl' = [ttl EXCEPT ![k] = Window[k]]
SetLong(k) ==
    /\ count' = [count EXCEPT ![k] = IF ttl[k] = Absent THEN 0 ELSE @]
    /\ ttl' = [ttl EXCEPT ![k] = IF @ = Absent THEN 60 * Window[k] ELSE @]

(* SET rl:{key} 0 EX window NX. *)
SetNX(k) ==
    IF ttl[k] = Absent
    THEN /\ count' = [count EXCEPT ![k] = 0]
         /\ ttl' = [ttl EXCEPT ![k] = Window[k]]
    ELSE UNCHANGED <<count, ttl>>

(* check, the SET. *)
Initialise(r) ==
    /\ req[r].pc = "set"
    /\ SetNX(KeyChecked(r))
    /\ req' = [req EXCEPT ![r].pc = "incr"]
    /\ UNCHANGED <<passed, span>>

(* Mutant: off by one. *)
OverByOne(n, k) == n > Limit[k] + 1

(* if count > limit *)
Over(n, k) == n > Limit[k]

(* What INCR returns.  Only its comparison with the limit is ever used, so
   the value stays at the first one beyond the limit. *)
Incremented(k) == IF count[k] > Limit[k] THEN count[k] ELSE count[k] + 1

(* A passed check counts for the stretch being watched. *)
Counted(w) == IF w.left > 0 THEN [w EXCEPT !.n = @ + 1] ELSE w

(* check, the INCR and the comparison.  INCR on a key that has gone creates
   it, with the value 1 and no expiry. *)
Increment(r) ==
    /\ req[r].pc = "incr"
    /\ LET k == KeyChecked(r)
           n == Incremented(k)
       IN  /\ count' = [count EXCEPT ![k] = n]
           /\ ttl' = [ttl EXCEPT ![k] = IF @ = Absent THEN NoExpiry ELSE @]
           /\ IF Over(n, k)
              THEN /\ req' = [req EXCEPT ![r].pc = "ttl"]
                   /\ UNCHANGED <<passed, span>>
              ELSE /\ req' = [req EXCEPT ![r] = CheckNext(Tail(req[r].rules))]
                   /\ passed' = [passed EXCEPT ![k] = @ + 1]
                   /\ span' = [span EXCEPT ![k] = Counted(@)]

(* TTL answers in whole seconds, rounded: n ticks left read as n or n - 1. *)
TTLReply(k) == IF ttl[k] > 0 THEN {ttl[k], ttl[k] - 1} ELSE {ttl[k]}

(* Mutant: no fallback. *)
RetryAsRead(k, n) == n

(* retry_after = ttl if ttl > 0 else window_seconds *)
RetryAfter(k, n) == IF n > 0 THEN n ELSE Window[k]

(* check, the TTL; the middleware answers 429 with Retry-After. *)
Refuse(r) ==
    /\ req[r].pc = "ttl"
    /\ LET k == KeyChecked(r)
       IN  \E n \in TTLReply(k) :
              req' = [req EXCEPT ![r].pc = "refused",
                                 ![r].retry = RetryAfter(k, n)]
    /\ UNCHANGED <<count, ttl, passed, span>>

(* The 429 has been sent; or the worker died, the client went away or Redis
   failed between two steps. *)
Leave(r) ==
    /\ req[r].pc # "idle"
    /\ req' = [req EXCEPT ![r] = Idle]
    /\ UNCHANGED <<count, ttl, passed, span>>

(* The stretch being watched gets shorter. *)
Aged(w) == IF w.left > 1 THEN [w EXCEPT !.left = @ - 1] ELSE NoSpan

(* When it is over, or none is watched, one of any key may begin. *)
Watchable ==
    {{}} \cup {{k} : k \in {x \in Keys : \A y \in Keys : span[y].left <= 1}}

(* A second passes, after which any stretch may be the next one watched. *)
Tick ==
    /\ ttl' = [k \in Keys |-> IF ttl[k] = 1 THEN Absent
                              ELSE IF ttl[k] > 1 THEN ttl[k] - 1 ELSE ttl[k]]
    /\ count' = [k \in Keys |-> IF ttl[k] = 1 THEN 0 ELSE count[k]]
    /\ passed' = [k \in Keys |-> IF ttl[k] = 1 THEN 0 ELSE passed[k]]
    /\ \E W \in Watchable :
          span' = [k \in Keys |-> IF k \in W THEN [left |-> Window[k], n |-> 0]
                                 ELSE Aged(span[k])]
    /\ UNCHANGED req

Next ==
    \/ \E r \in Requests :
          \/ \E route \in Routes : Dispatch(r, route)
          \/ Initialise(r)
          \/ Increment(r)
          \/ Refuse(r)
          \/ Leave(r)
    \/ Tick

Spec == Init /\ [][Next]_vars

(* Time passes; nothing is assumed of clients or requests. *)
FairSpec == Spec /\ WF_vars(Tick)

-----------------------------------------------------------------------------
(* Properties. *)

(* Every variable keeps its type; a TTL is one Redis can report. *)
TypeOK ==
    /\ count \in [Keys -> Nat] /\ \A k \in Keys : count[k] <= Limit[k] + 1
    /\ ttl \in [Keys -> Int]
    /\ \A k \in Keys : ttl[k] \in {Absent, NoExpiry} \cup 1..Window[k]
    /\ req \in [Requests ->
                  [pc : {"idle", "set", "incr", "ttl", "refused"},
                   rules : Seq(Keys), retry : Int]]
    /\ \A r \in Requests : req[r].pc # "idle" => req[r].rules # <<>>
    /\ passed \in [Keys -> Nat]
    /\ span \in [Keys -> [left : Nat, n : Nat]]
    /\ \A k \in Keys : span[k].left <= Window[k]

(* The rule as check states it: at most limit requests pass per window,
   however the SETs and INCRs of overlapping requests and the expiry of the
   key interleave. *)
LimitHolds == \A k \in Keys : passed[k] <= Limit[k]

(* Class comment: "a client can burst up to 2x the limit by straddling a
   window boundary".  That is the most there is: no more than twice the limit
   pass in any stretch of one window's length. *)
BurstBound == \A k \in Keys : span[k].n <= 2 * Limit[k]

(* Retry-After is never zero, negative or longer than the window, although
   the key may expire, or be created anew, between the INCR and the TTL. *)
RetryInWindow ==
    \A r \in Requests :
        req[r].pc = "refused" => req[r].retry \in 1..Window[KeyChecked(r)]

(* "Account lockout deliberately NOT implemented": attempts made while the
   limit is exceeded do not prolong it.  A counter that has an expiry goes
   away, whatever the clients keep sending. *)
WindowEnds ==
    \A k \in Keys : ttl[k] > 0 ~> ttl[k] = Absent

(* Comment in check: "the TTL is always set before the first INCR,
   eliminating the race condition where the key could exist without an
   expiry". *)
KeysExpire == \A k \in Keys : ttl[k] # NoExpiry

=============================================================================
