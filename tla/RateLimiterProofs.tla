------------------------- MODULE RateLimiterProofs -------------------------
(***************************************************************************)
(* Proofs about RateLimiter, for any set of keys, limits, windows, rule    *)
(* lists and overlapping requests.                                         *)
(***************************************************************************)
EXTENDS RateLimiter, TLAPS

(* A check that passed was counted: the counter bounds the passed checks, and
   a key that is absent has none to account for. *)
PassedCounted ==
    \A k \in Keys : /\ passed[k] <= count[k]
                    /\ passed[k] <= Limit[k]
                    /\ ttl[k] = Absent => passed[k] = 0

Inv == TypeOK /\ PassedCounted /\ RetryInWindow

Span == [left : Nat, n : Nat]

Request == [pc : {"idle", "set", "incr", "ttl", "refused"},
            rules : Seq(Keys), retry : Int]

(* Limits and windows are positive numbers. *)
LEMMA RuleNumbers ==
    \A k \in Keys : /\ Limit[k] \in Nat /\ Limit[k] >= 1
                    /\ Window[k] \in Nat /\ Window[k] >= 1
  BY RuleAssumption

(* The state of no request. *)
LEMMA IdleType == Idle \in Request /\ Idle.pc = "idle"
  BY DEF Idle, Request

(* The state a request has before its next rule. *)
LEMMA CheckNextType ==
    ASSUME NEW rules \in Seq(Keys)
    PROVE  /\ CheckNext(rules) \in Request
           /\ CheckNext(rules).pc # "idle" => CheckNext(rules).rules # <<>>
           /\ CheckNext(rules).pc # "refused"
  BY DEF CheckNext, Idle, Request

(* A passed check adds one to a stretch that is being watched. *)
LEMMA CountedSpan ==
    ASSUME NEW w \in Span
    PROVE  /\ Counted(w) \in Span /\ Counted(w).left = w.left
           /\ w.left > 0 => Counted(w).n = w.n + 1
           /\ w.left = 0 => Counted(w) = w
  BY DEF Counted, Span

(* A tick makes a stretch shorter, and forgets it at its end. *)
LEMMA AgedSpan ==
    ASSUME NEW w \in Span
    PROVE  /\ Aged(w) \in Span
           /\ w.left > 1 => Aged(w).left = w.left - 1 /\ Aged(w).n = w.n
           /\ w.left <= 1 => Aged(w).left = 0 /\ Aged(w).n = 0
  BY DEF Aged, NoSpan, Span

(* The initial state. *)
LEMMA InitInv == Init => Inv
  <1> SUFFICES ASSUME Init PROVE Inv
    OBVIOUS
  <1>1. TypeOK
    <2>1. NoSpan \in Span /\ NoSpan.left = 0
      BY DEF NoSpan, Span
    <2>2. span \in [Keys -> Span] /\ \A k \in Keys : span[k].left <= Window[k]
      BY <2>1, RuleNumbers DEF Init
    <2> QED
      BY <2>2, RuleAssumption, IdleType DEF Init, TypeOK, Request, Absent, Span
  <1>2. PassedCounted
    <2>1. count = [k \in Keys |-> 0] /\ passed = [k \in Keys |-> 0]
      BY DEF Init
    <2>2. \A k \in Keys : 0 <= Limit[k]
      BY RuleAssumption
    <2>3. 0 <= 0
      OBVIOUS
    <2> QED
      BY <2>1, <2>2, <2>3 DEF PassedCounted
  <1>3. RetryInWindow
    BY IdleType DEF Init, RetryInWindow, KeyChecked
  <1> QED
    BY <1>1, <1>2, <1>3 DEF Inv

(* The types of the counters. *)
LEMMA CounterTypes ==
    ASSUME Inv
    PROVE  /\ count \in [Keys -> Nat] /\ passed \in [Keys -> Nat]
           /\ ttl \in [Keys -> Int]
           /\ \A k \in Keys : count[k] <= Limit[k] + 1
           /\ \A k \in Keys : ttl[k] \in {Absent, NoExpiry} \cup 1..Window[k]
  BY DEF Inv, TypeOK

(* A step that only moves one coroutine. *)
LEMMA MoveStep ==
    ASSUME Inv, UNCHANGED <<count, ttl, passed, span>>,
           NEW r \in Requests, NEW q \in Request, req' = [req EXCEPT ![r] = q],
           q.pc # "idle" => q.rules # <<>>,
           q.pc = "refused" => q.retry \in 1..Window[Head(q.rules)]
    PROVE  Inv'
  <1>1. /\ req' \in [Requests -> Request] /\ req'[r] = q
        /\ \A x \in Requests : x # r => req'[x] = req[x]
    BY DEF Inv, TypeOK, Request
  <1>2. TypeOK'
    BY <1>1 DEF Inv, TypeOK, Request
  <1>3. PassedCounted'
    BY DEF Inv, PassedCounted
  <1>4. RetryInWindow'
    BY <1>1 DEF Inv, RetryInWindow, KeyChecked
  <1> QED
    BY <1>2, <1>3, <1>4 DEF Inv

(* The request and its first rule, while it is being checked. *)
LEMMA CheckedKey ==
    ASSUME Inv, NEW r \in Requests, req[r].pc # "idle"
    PROVE  /\ req[r] \in Request /\ req[r].rules \in Seq(Keys)
           /\ req[r].rules # <<>>
           /\ Head(req[r].rules) \in Keys /\ Tail(req[r].rules) \in Seq(Keys)
  <1>1. /\ req[r] \in Request /\ req[r].rules \in Seq(Keys)
        /\ req[r].rules # <<>>
    BY DEF Inv, TypeOK, Request
  <1> QED
    BY <1>1

(* The SET NX keeps the invariant. *)
LEMMA InitialiseStep ==
    ASSUME Inv, NEW r \in Requests, Initialise(r)
    PROVE  Inv'
  <1> DEFINE k == Head(req[r].rules)
             q == [req[r] EXCEPT !.pc = "incr"]
  <1>1. req[r] \in Request /\ req[r].rules # <<>> /\ k \in Keys
    BY CheckedKey DEF Initialise, KeyChecked
  <1>2. q \in Request /\ q.pc = "incr" /\ q.rules # <<>>
    BY <1>1 DEF Request
  <1>3. req' = [req EXCEPT ![r] = q] /\ UNCHANGED <<passed, span>>
    BY DEF Initialise, KeyChecked
  <1>4. CASE ttl[k] # Absent
    <2>1. UNCHANGED <<count, ttl>>
      BY <1>4 DEF Initialise, KeyChecked, SetNX
    <2> HIDE DEF q
    <2> QED
      BY <1>2, <1>3, <2>1, MoveStep
  <1>5. CASE ttl[k] = Absent
    <2>1. /\ count' = [count EXCEPT ![k] = 0]
          /\ ttl' = [ttl EXCEPT ![k] = Window[k]]
      BY <1>5 DEF Initialise, KeyChecked, SetNX
    <2> HIDE DEF q
    <2>2. /\ req' \in [Requests -> Request] /\ req'[r] = q
          /\ \A x \in Requests : x # r => req'[x] = req[x]
      BY <1>2, <1>3 DEF Inv, TypeOK, Request
    <2>3. TypeOK'
      <3>1. /\ ttl' \in [Keys -> Int]
            /\ \A x \in Keys : ttl'[x] \in {Absent, NoExpiry} \cup 1..Window[x]
        BY <1>1, <2>1, RuleNumbers, CounterTypes
      <3>2. count' \in [Keys -> Nat] /\ \A x \in Keys : count'[x] <= Limit[x] + 1
        BY <1>1, <2>1, RuleNumbers, CounterTypes
      <3> QED
        BY <1>2, <1>3, <2>2, <3>1, <3>2 DEF Inv, TypeOK, Request
    <2>4. PassedCounted'
      BY <1>1, <1>3, <1>5, <2>1, RuleNumbers, CounterTypes
         DEF Inv, PassedCounted, Absent
    <2>5. RetryInWindow'
      BY <1>2, <2>2 DEF Inv, RetryInWindow, KeyChecked
    <2> QED
      BY <2>3, <2>4, <2>5 DEF Inv
  <1> QED
    BY <1>4, <1>5

(* The INCR keeps the invariant, also when the key has gone since the SET. *)
LEMMA IncrementStep ==
    ASSUME Inv, NEW r \in Requests, Increment(r)
    PROVE  Inv'
  <1> DEFINE k == Head(req[r].rules)
             n == Incremented(k)
             q == IF Over(n, k) THEN [req[r] EXCEPT !.pc = "ttl"]
                  ELSE CheckNext(Tail(req[r].rules))
  <1>1. /\ req[r] \in Request /\ req[r].rules # <<>> /\ k \in Keys
        /\ Tail(req[r].rules) \in Seq(Keys)
    BY CheckedKey DEF Increment, KeyChecked
  <1>2. q \in Request /\ q.pc # "refused" /\ (q.pc # "idle" => q.rules # <<>>)
    <2>1. CASE Over(n, k)
      BY <1>1, <2>1 DEF Request
    <2>2. CASE ~Over(n, k)
      BY <1>1, <2>2, CheckNextType
    <2> QED
      BY <2>1, <2>2
  <1>3. /\ req' = [req EXCEPT ![r] = q]
        /\ count' = [count EXCEPT ![k] = n]
        /\ ttl' = [ttl EXCEPT ![k] = IF @ = Absent THEN NoExpiry ELSE @]
        /\ passed' = IF Over(n, k) THEN passed
                     ELSE [passed EXCEPT ![k] = @ + 1]
    BY DEF Increment, KeyChecked
  <1>s. span' = IF Over(n, k) THEN span
                ELSE [span EXCEPT ![k] = Counted(span[k])]
    BY DEF Increment, KeyChecked
  <1>4. /\ n \in Nat /\ n <= Limit[k] + 1 /\ count[k] <= n
        /\ ~Over(n, k) => n = count[k] + 1 /\ n <= Limit[k]
    <2>1. Limit[k] \in Nat /\ count[k] \in Nat /\ count[k] <= Limit[k] + 1
      BY <1>1, RuleNumbers DEF Inv, TypeOK
    <2> HIDE DEF k
    <2> QED
      BY <2>1 DEF Incremented, Over
  <1> HIDE DEF q, n
  <1>5. /\ req' \in [Requests -> Request] /\ req'[r] = q
        /\ \A x \in Requests : x # r => req'[x] = req[x]
    BY <1>2, <1>3 DEF Inv, TypeOK, Request
  <1>6. TypeOK'
    <2>1. passed' \in [Keys -> Nat]
      BY <1>1, <1>3, CounterTypes
    <2>2. /\ ttl' \in [Keys -> Int]
          /\ \A x \in Keys : ttl'[x] \in {Absent, NoExpiry} \cup 1..Window[x]
      <3>1. \A x \in Keys : ttl'[x] = ttl[x] \/ ttl'[x] = NoExpiry
        BY <1>1, <1>3, CounterTypes
      <3>2. ttl' \in [Keys -> Int]
        <4>1. NoExpiry \in Int
          BY DEF NoExpiry
        <4> QED
          BY <1>1, <1>3, <4>1, CounterTypes
      <3> QED
        BY <3>1, <3>2, CounterTypes
    <2>3. count' \in [Keys -> Nat] /\ \A x \in Keys : count'[x] <= Limit[x] + 1
      BY <1>1, <1>3, <1>4 DEF Inv, TypeOK
    <2>4. \A x \in Requests : req'[x].pc # "idle" => req'[x].rules # <<>>
      BY <1>2, <1>5 DEF Inv, TypeOK
    <2>5. span' \in [Keys -> Span] /\ \A x \in Keys : span'[x].left <= Window[x]
      <3>1. span \in [Keys -> Span] /\ \A x \in Keys : span[x].left <= Window[x]
        BY DEF Inv, TypeOK, Span
      <3>2. Counted(span[k]) \in Span /\ Counted(span[k]).left = span[k].left
        BY <1>1, <3>1, CountedSpan
      <3> QED
        BY <1>1, <1>s, <3>1, <3>2
    <2> QED
      BY <1>5, <2>1, <2>2, <2>3, <2>4, <2>5 DEF TypeOK, Request, Span
  <1>7. PassedCounted'
    <2> SUFFICES ASSUME NEW x \in Keys
                 PROVE  /\ passed'[x] <= count'[x] /\ passed'[x] <= Limit[x]
                        /\ ttl'[x] = Absent => passed'[x] = 0
      BY DEF PassedCounted
    <2>1. /\ passed[x] \in Nat /\ count[x] \in Nat /\ ttl[x] \in Int
          /\ passed[x] <= count[x] /\ passed[x] <= Limit[x]
          /\ ttl[x] = Absent => passed[x] = 0
          /\ Limit[x] \in Nat
      BY RuleAssumption DEF Inv, PassedCounted, TypeOK
    <2>2. CASE x = k
      <3>1. count'[k] = n /\ ttl'[k] # Absent
        BY <1>1, <1>3, CounterTypes DEF Absent, NoExpiry
      <3>2. passed'[k] = IF Over(n, k) THEN passed[k] ELSE passed[k] + 1
        BY <1>1, <1>3, CounterTypes
      <3> QED
        BY <1>4, <2>1, <2>2, <3>1, <3>2
    <2>3. CASE x # k
      BY <1>1, <1>3, <2>1, <2>3 DEF Inv, TypeOK
    <2> QED
      BY <2>2, <2>3
  <1>8. RetryInWindow'
    BY <1>2, <1>5 DEF Inv, RetryInWindow, KeyChecked
  <1> QED
    BY <1>6, <1>7, <1>8 DEF Inv

(* The TTL and the refusal keep the invariant. *)
LEMMA RefuseStep ==
    ASSUME Inv, NEW r \in Requests, Refuse(r)
    PROVE  Inv'
  <1> DEFINE k == Head(req[r].rules)
  <1>1. req[r] \in Request /\ req[r].rules # <<>> /\ k \in Keys
    BY CheckedKey DEF Refuse, KeyChecked
  <1>2. PICK n \in TTLReply(k) :
          req' = [req EXCEPT ![r] = [req[r] EXCEPT !.pc = "refused",
                                                   !.retry = RetryAfter(k, n)]]
    BY DEF Refuse, KeyChecked
  <1>3. RetryAfter(k, n) \in 1..Window[k]
    <2>1. /\ Window[k] \in Nat /\ Window[k] >= 1
          /\ ttl[k] \in {Absent, NoExpiry} \cup 1..Window[k]
      BY <1>1, RuleNumbers DEF Inv, TypeOK
    <2> HIDE DEF k
    <2> QED
      BY <2>1 DEF RetryAfter, TTLReply, Absent, NoExpiry
  <1> DEFINE q == [req[r] EXCEPT !.pc = "refused", !.retry = RetryAfter(k, n)]
  <1>4. /\ q \in Request /\ q.rules = req[r].rules /\ q.retry = RetryAfter(k, n)
        /\ q.pc = "refused"
    <2>1. RetryAfter(k, n) \in Int
      BY <1>1, <1>3, RuleAssumption
    <2> QED
      BY <1>1, <2>1 DEF Request
  <1>5. UNCHANGED <<count, ttl, passed, span>>
    BY DEF Refuse, KeyChecked
  <1> HIDE DEF q
  <1> QED
    BY <1>1, <1>2, <1>3, <1>4, <1>5, MoveStep DEF q

(* The passing of time keeps the invariant. *)
LEMMA TickStep ==
    ASSUME Inv, Tick
    PROVE  Inv'
  <1>1. TypeOK'
    <2>1. span \in [Keys -> Span] /\ \A k \in Keys : span[k].left <= Window[k]
      BY DEF Inv, TypeOK, Span
    <2>2. PICK W : span' = [k \in Keys |-> IF k \in W
                                          THEN [left |-> Window[k], n |-> 0]
                                          ELSE Aged(span[k])]
      BY DEF Tick
    <2>3. \A k \in Keys : /\ span'[k] \in Span /\ span'[k].left <= Window[k]
      <3> TAKE k \in Keys
      <3>1. CASE k \in W
        BY <2>2, <3>1, RuleNumbers DEF Span
      <3>2. CASE k \notin W
        <4>1. span'[k] = Aged(span[k]) /\ span[k] \in Span
              /\ span[k].left \in Nat /\ span[k].left <= Window[k]
              /\ Window[k] \in Nat
          BY <2>1, <2>2, <3>2, RuleNumbers DEF Span
        <4> QED
          BY <4>1, AgedSpan
      <3> QED
        BY <3>1, <3>2
    <2>4. span' \in [Keys -> Span]
      BY <2>2, <2>3
    <2>5. /\ count' \in [Keys -> Nat] /\ \A k \in Keys : count'[k] <= Limit[k] + 1
          /\ ttl' \in [Keys -> Int] /\ passed' \in [Keys -> Nat]
          /\ \A k \in Keys : ttl'[k] \in {Absent, NoExpiry} \cup 1..Window[k]
      BY RuleAssumption DEF Tick, Inv, TypeOK, Absent, NoExpiry
    <2> QED
      BY <2>3, <2>4, <2>5 DEF Tick, Inv, TypeOK, Span
  <1>2. PassedCounted'
    BY RuleAssumption DEF Tick, Inv, TypeOK, PassedCounted, Absent, NoExpiry
  <1>3. RetryInWindow'
    BY DEF Tick, Inv, RetryInWindow, KeyChecked
  <1> QED
    BY <1>1, <1>2, <1>3 DEF Inv

(* Every step keeps the invariant. *)
LEMMA StepInv == Inv /\ [Next]_vars => Inv'
  <1> SUFFICES ASSUME Inv, [Next]_vars PROVE Inv'
    OBVIOUS
  <1>1. ASSUME NEW r \in Requests, NEW route \in Routes, Dispatch(r, route)
        PROVE  Inv'
    <2>1. route \in Seq(Keys)
      BY RuleAssumption
    <2> QED
      BY <1>1, <2>1, CheckNextType, MoveStep DEF Dispatch
  <1>2. ASSUME NEW r \in Requests, Leave(r) PROVE Inv'
    BY <1>2, IdleType, MoveStep DEF Leave
  <1>3. CASE UNCHANGED vars
    BY <1>3 DEF vars, Inv, TypeOK, PassedCounted, RetryInWindow, KeyChecked
  <1> QED
    BY <1>1, <1>2, <1>3, InitialiseStep, IncrementStep, RefuseStep, TickStep
       DEF Next

(* The inductive invariant holds in every reachable state. *)
THEOREM Invariance == Spec => []Inv
  BY InitInv, StepInv, PTL DEF Spec

(* Counters, TTLs and coroutines keep their types. *)
THEOREM TypeCorrect == Spec => []TypeOK
  BY Invariance, PTL DEF Inv

(* At most limit requests pass per window, whatever overlaps. *)
THEOREM LimitEnforced == Spec => []LimitHolds
  <1>1. Inv => LimitHolds
    BY DEF Inv, PassedCounted, LimitHolds
  <1> QED
    BY <1>1, Invariance, PTL

(* Every 429 carries a Retry-After between one and the window's length. *)
THEOREM RetryBounded == Spec => []RetryInWindow
  BY Invariance, PTL DEF Inv

-----------------------------------------------------------------------------
(* A burst is at most twice the limit. *)

(* Everything that passed in the stretch being watched is counted by the key
   that is there now; or one key has expired since the stretch began, and the
   key that is there now outlives the stretch. *)
SpanCounted(k) ==
    \/ span[k].n <= passed[k]
    \/ /\ span[k].n <= Limit[k] + passed[k]
       /\ ttl[k] > 0 => span[k].left <= ttl[k]

SpansCounted == \A k \in Keys : SpanCounted(k)

(* The numbers of one key. *)
LEMMA KeyNumbers ==
    ASSUME Inv, NEW k \in Keys
    PROVE  /\ passed[k] \in Nat /\ passed[k] <= Limit[k]
           /\ ttl[k] \in Int /\ ttl[k] \in {Absent, NoExpiry} \cup 1..Window[k]
           /\ ttl[k] = Absent => passed[k] = 0
           /\ span[k] \in Span /\ span[k].n \in Nat /\ span[k].left \in Nat
           /\ span[k].left <= Window[k]
           /\ Limit[k] \in Nat /\ Window[k] \in Nat
  BY RuleNumbers DEF Inv, TypeOK, PassedCounted, Span

(* The SET NX gives a new key the whole window. *)
LEMMA InitialiseSpan ==
    ASSUME Inv, SpansCounted, NEW r \in Requests, Initialise(r)
    PROVE  SpansCounted'
  <1> DEFINE x == Head(req[r].rules)
  <1>1. x \in Keys
    BY CheckedKey DEF Initialise
  <1> SUFFICES ASSUME NEW k \in Keys PROVE SpanCounted(k)'
    BY DEF SpansCounted
  <1>2. /\ span'[k] = span[k] /\ passed'[k] = passed[k]
        /\ ttl'[k] = ttl[k] \/ (ttl[k] = Absent /\ ttl'[k] = Window[k])
    <2>1. /\ UNCHANGED <<passed, span>>
          /\ \/ ttl[x] = Absent /\ ttl' = [ttl EXCEPT ![x] = Window[x]]
             \/ ttl' = ttl
      BY DEF Initialise, KeyChecked, SetNX
    <2> HIDE DEF x
    <2> QED
      BY <1>1, <2>1, CounterTypes
  <1> QED
    BY <1>2, KeyNumbers DEF SpansCounted, SpanCounted

(* The INCR counts for the key and for the stretch. *)
LEMMA IncrementSpan ==
    ASSUME Inv, SpansCounted, NEW r \in Requests, Increment(r)
    PROVE  SpansCounted'
  <1> DEFINE x == Head(req[r].rules)
             n == Incremented(x)
  <1>1. x \in Keys
    BY CheckedKey DEF Increment
  <1> SUFFICES ASSUME NEW k \in Keys PROVE SpanCounted(k)'
    BY DEF SpansCounted
  <1>2. ttl' = [ttl EXCEPT ![x] = IF @ = Absent THEN NoExpiry ELSE @]
    BY DEF Increment, KeyChecked
  <1>3. \/ UNCHANGED <<passed, span>>
        \/ /\ passed' = [passed EXCEPT ![x] = @ + 1]
           /\ span' = [span EXCEPT ![x] = Counted(@)]
    BY DEF Increment, KeyChecked
  <1> HIDE DEF x
  <1>4. ttl'[k] > 0 => ttl'[k] = ttl[k]
    BY <1>1, <1>2, CounterTypes DEF NoExpiry
  <1>5. span \in [Keys -> Span]
    BY DEF Inv, TypeOK, Span
  <1>6. /\ span'[k].left = span[k].left
        /\ \/ passed'[k] = passed[k] /\ span'[k].n = span[k].n
           \/ passed'[k] = passed[k] + 1 /\ span'[k].n \in {span[k].n, span[k].n + 1}
    <2>1. CASE UNCHANGED <<passed, span>>
      BY <2>1
    <2>2. CASE /\ passed' = [passed EXCEPT ![x] = @ + 1]
               /\ span' = [span EXCEPT ![x] = Counted(@)]
      <3>1. CASE k = x
        <4>1. passed'[k] = passed[k] + 1 /\ span'[k] = Counted(span[k])
          BY <1>1, <1>5, <2>2, <3>1, CounterTypes
        <4> QED
          BY <4>1, KeyNumbers, CountedSpan
      <3>2. CASE k # x
        BY <1>1, <1>5, <2>2, <3>2, CounterTypes
      <3> QED
        BY <3>1, <3>2
    <2> QED
      BY <1>3, <2>1, <2>2
  <1> QED
    BY <1>4, <1>6, KeyNumbers DEF SpansCounted, SpanCounted

(* A key that expires was the first of the stretch, or the stretch is over. *)
LEMMA TickSpan ==
    ASSUME Inv, SpansCounted, Tick
    PROVE  SpansCounted'
  <1> SUFFICES ASSUME NEW k \in Keys PROVE SpanCounted(k)'
    BY DEF SpansCounted
  <1>1. PICK W : span' = [x \in Keys |-> IF x \in W
                                         THEN [left |-> Window[x], n |-> 0]
                                         ELSE Aged(span[x])]
    BY DEF Tick
  <1>2. /\ passed'[k] = IF ttl[k] = 1 THEN 0 ELSE passed[k]
        /\ ttl'[k] = IF ttl[k] = 1 THEN Absent
                     ELSE IF ttl[k] > 1 THEN ttl[k] - 1 ELSE ttl[k]
    BY DEF Tick
  <1>3. CASE k \in W \/ span[k].left <= 1
    <2>1. span'[k].n = 0
      BY <1>1, <1>3, KeyNumbers, AgedSpan
    <2> QED
      BY <1>2, <2>1, KeyNumbers DEF SpanCounted
  <1>4. CASE k \notin W /\ span[k].left > 1
    <2>1. span'[k] = Aged(span[k])
      BY <1>1, <1>4
    <2>2. span'[k].n = span[k].n /\ span'[k].left = span[k].left - 1
      BY <1>4, <2>1, KeyNumbers, AgedSpan
    <2>3. SpanCounted(k)
      BY DEF SpansCounted
    <2> QED
      BY <1>2, <1>4, <2>2, <2>3, KeyNumbers DEF SpanCounted, Absent, NoExpiry
  <1> QED
    BY <1>3, <1>4, KeyNumbers

(* Every step keeps the count of the stretch. *)
LEMMA SpanStep == Inv /\ SpansCounted /\ [Next]_vars => SpansCounted'
  <1> SUFFICES ASSUME Inv, SpansCounted, [Next]_vars PROVE SpansCounted'
    OBVIOUS
  <1>1. CASE UNCHANGED <<ttl, passed, span>>
    BY <1>1 DEF SpansCounted, SpanCounted
  <1>2. ASSUME NEW r \in Requests, NEW route \in Routes, Dispatch(r, route)
        PROVE  SpansCounted'
    BY <1>1, <1>2 DEF Dispatch
  <1>3. ASSUME NEW r \in Requests, Refuse(r) \/ Leave(r)
        PROVE  SpansCounted'
    BY <1>1, <1>3 DEF Refuse, Leave
  <1>4. CASE UNCHANGED vars
    BY <1>1, <1>4 DEF vars
  <1> QED
    BY <1>2, <1>3, <1>4, InitialiseSpan, IncrementSpan, TickSpan DEF Next

(* In a stretch as long as a window, wherever it begins, at most twice the
   limit passes: what the class comment calls straddling the boundary is the
   worst there is. *)
THEOREM BurstBounded == Spec => []BurstBound
  <1>1. Init => SpansCounted
    <2> SUFFICES ASSUME Init, NEW k \in Keys PROVE SpanCounted(k)
      BY DEF SpansCounted
    <2>1. span[k].n = 0 /\ passed[k] = 0
      BY DEF Init, NoSpan
    <2>2. 0 <= 0
      OBVIOUS
    <2> QED
      BY <2>1, <2>2 DEF SpanCounted
  <1>2. Inv /\ SpansCounted => BurstBound
    <2> SUFFICES ASSUME Inv, SpansCounted, NEW k \in Keys
                 PROVE  span[k].n <= 2 * Limit[k]
      BY DEF BurstBound
    <2> QED
      BY KeyNumbers DEF SpansCounted, SpanCounted
  <1> QED
    BY <1>1, <1>2, SpanStep, Invariance, PTL DEF Spec
=============================================================================
