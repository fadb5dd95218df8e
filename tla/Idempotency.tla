----------------------------- MODULE Idempotency -----------------------------
(***************************************************************************)
(* The idempotency extension of the GraphQL schema                         *)
(* (presentation/graphql/idempotency.py) over its Redis store              *)
(* (infrastructure/redis/idempotency_store.py).                            *)
(*                                                                         *)
(* An attempt is one HTTP request.  Its GET, the mutation and its SETEX    *)
(* are separate awaits: a client that retries because no answer came back  *)
(* may overlap with its own first attempt, and a worker may die between    *)
(* any two of them.                                                        *)
(***************************************************************************)
EXTENDS Naturals

CONSTANTS
    Keys,      \* idempotency:{operation}:{Idempotency-Key}
    Bodies,    \* requests: query document and variables
    Variables, \* what request_hash covers: the operation and its variables
    Hash,      \* the variables of a request; arguments written into the
               \* document are not among them
    Effects,   \* side effects: a session opened, an email sent
    Attempts,  \* requests served at the same time
    RecordTTL, \* 24 hours, in ticks
    None,      \* no record, no key
    Refused    \* data without a side effect: success=False

ASSUME TTLAssumption == RecordTTL \in Nat \ {0}
ASSUME HashAssumption == Hash \in [Bodies -> Variables]
ASSUME NoneAssumption ==
    /\ None \notin Keys \cup Bodies \cup Variables \cup Effects \cup {Refused}
    /\ Refused \notin Effects

VARIABLES
    cache,   \* the record of each key: hash, response and TTL
    att,     \* the coroutine of each attempt
    by,      \* history: the key and body an effect was executed for
    done,    \* history: effects executed for a key since its record expired
    shaken   \* history: keys an attempt of which overlapped or died since a
             \* record expired with none of their attempts running

vars == <<cache, att, by, done, shaken>>

Idle == [pc |-> "idle", key |-> None, body |-> None, resp |-> None]
NoRecord == [hash |-> None, resp |-> None, ttl |-> 0]
Nobody == [key |-> None, body |-> None]

Init ==
    /\ cache = [k \in Keys |-> NoRecord]
    /\ att = [a \in Attempts |-> Idle]
    /\ by = [e \in Effects |-> Nobody]
    /\ done = [k \in Keys |-> 0]
    /\ shaken = {}

-----------------------------------------------------------------------------
(* Mutant: the stored hash is not compared. *)
MatchesAny(rec, b) == TRUE

(* cached.get("request_hash") == request_hash *)
Matches(rec, b) == rec.hash = Hash[b]

(* Attempts that have found no record for the key and not stored one yet. *)
Running(k) ==
    {a \in Attempts : att[a].key = k /\ att[a].pc \in {"execute", "store"}}

(* Mutant: a replay executes the mutation again. *)
DecisionRerun(rec, b) ==
    IF rec.ttl = 0 \/ Matches(rec, b) THEN "execute" ELSE "conflict"

(* A record that matches is the answer, one that does not is a conflict, and
   a miss runs the mutation. *)
Decision(rec, b) ==
    CASE rec.ttl = 0 -> "execute"
      [] rec.ttl > 0 /\ Matches(rec, b) -> "answered"
      [] OTHER -> "conflict"

(* on_execute up to the first yield. *)
Begin(a, k, b) ==
    /\ att[a].pc = "idle"
    /\ LET next == Decision(cache[k], b)
       IN  att' = [att EXCEPT ![a] =
              [pc |-> next, key |-> k, body |-> b,
               resp |-> IF next = "answered" THEN cache[k].resp ELSE None]]
    /\ shaken' = shaken \cup {x \in {k} : Running(x) # {}}
    /\ UNCHANGED <<cache, by, done>>

(* An operation that is not in IDEMPOTENT_OPERATIONS, or no Idempotency-Key:
   the mutation runs and nothing is looked up or stored. *)
BeginPlain(a, b) ==
    /\ att[a].pc = "idle"
    /\ att' = [att EXCEPT ![a] = [Idle EXCEPT !.pc = "execute", !.body = b]]
    /\ UNCHANGED <<cache, by, done, shaken>>

(* The mutation succeeds: it has a side effect of its own. *)
Execute(a, e) ==
    /\ att[a].pc = "execute"
    /\ by[e] = Nobody
    /\ by' = [by EXCEPT ![e] = [key |-> att[a].key, body |-> att[a].body]]
    /\ done' = [k \in Keys |-> IF k = att[a].key THEN done[k] + 1 ELSE done[k]]
    /\ att' = [att EXCEPT ![a].pc = "store", ![a].resp = e]
    /\ UNCHANGED <<cache, shaken>>

(* The mutation answers success=False (requestPasswordReset for an unknown
   email): data, no errors, no side effect. *)
ExecuteRefused(a) ==
    /\ att[a].pc = "execute"
    /\ att' = [att EXCEPT ![a].pc = "store", ![a].resp = Refused]
    /\ UNCHANGED <<cache, by, done, shaken>>

(* The resolver raises: result.errors is set and there is no data. *)
ExecuteErrors(a) ==
    /\ att[a].pc = "execute"
    /\ att' = [att EXCEPT ![a].pc = "store", ![a].resp = None]
    /\ UNCHANGED <<cache, by, done, shaken>>

(* Mutants: results with errors are stored as well, or none is. *)
StorableAlways(q) == q.key # None
StorableNever(q) == FALSE

(* not result.errors and result.data is not None, on the path with a key. *)
Storable(q) == q.key # None /\ q.resp # None

(* Mutant: the TTL is given in another unit. *)
RecordLong(q) ==
    [hash |-> Hash[q.body], resp |-> q.resp, ttl |-> 60 * RecordTTL]

(* The record, as set stores it. *)
Record(q) == [hash |-> Hash[q.body], resp |-> q.resp, ttl |-> RecordTTL]

(* on_execute after the yield: SETEX, or nothing. *)
Store(a) ==
    /\ att[a].pc = "store"
    /\ cache' = [k \in Keys |->
                    IF Storable(att[a]) /\ k = att[a].key
                    THEN Record(att[a]) ELSE cache[k]]
    /\ att' = [att EXCEPT ![a].pc = "answered"]
    /\ UNCHANGED <<by, done, shaken>>

(* The answer goes out. *)
Answer(a) ==
    /\ att[a].pc \in {"answered", "conflict"}
    /\ att' = [att EXCEPT ![a] = Idle]
    /\ UNCHANGED <<cache, by, done, shaken>>

(* The worker dies or Redis fails: the attempt ends where it is. *)
Crash(a) ==
    /\ att[a].pc \in {"execute", "store"}
    /\ att' = [att EXCEPT ![a] = Idle]
    /\ shaken' = shaken \cup (Keys \cap {att[a].key})
    /\ UNCHANGED <<cache, by, done>>

Tick ==
    /\ cache' = [k \in Keys |-> IF cache[k].ttl > 1
                                THEN [cache[k] EXCEPT !.ttl = @ - 1]
                                ELSE NoRecord]
    /\ done' = [k \in Keys |-> IF cache[k].ttl = 1 THEN 0 ELSE done[k]]
    /\ shaken' = {k \in shaken : cache[k].ttl # 1 \/ Running(k) # {}}
    /\ UNCHANGED <<att, by>>

-----------------------------------------------------------------------------
Serve(a) ==
    \/ \E k \in Keys, b \in Bodies : Begin(a, k, b)
    \/ \E b \in Bodies : BeginPlain(a, b)
    \/ \E e \in Effects : Execute(a, e)
    \/ ExecuteRefused(a)
    \/ ExecuteErrors(a)
    \/ Store(a)
    \/ Answer(a)

Next == \/ \E a \in Attempts : Serve(a) \/ Crash(a)
        \/ Tick

Spec == Init /\ [][Next]_vars

-----------------------------------------------------------------------------
(* Properties. *)

(* Every variable keeps its type. *)
TypeOK ==
    /\ cache \in [Keys -> [hash : Variables \cup {None},
                           resp : Effects \cup {None, Refused},
                           ttl : 0..RecordTTL]]
    /\ att \in [Attempts ->
                  [pc : {"idle", "execute", "store", "answered", "conflict"},
                   key : Keys \cup {None}, body : Bodies \cup {None},
                   resp : Effects \cup {None, Refused}]]
    /\ by \in [Effects -> [key : Keys \cup {None}, body : Bodies \cup {None}]]
    /\ done \in [Keys -> Nat]
    /\ shaken \in SUBSET Keys

(* A record holds the data of an execution of its own key and hash, never an
   error, whichever of several overlapping attempts wrote it. *)
RecordsBacked ==
    \A k \in Keys : cache[k].ttl > 0 =>
        \/ cache[k].resp = Refused
        \/ /\ cache[k].resp \in Effects
           /\ by[cache[k].resp].key = k
           /\ Hash[by[cache[k].resp].body] = cache[k].hash

(* An attempt is only ever answered with the outcome of a request with its own
   key and variables, however attempts with other variables overlap it and
   overwrite the record. *)
ReplayMatches ==
    \A a \in Attempts :
        att[a].resp \in Effects =>
            /\ by[att[a].resp].key = att[a].key
            /\ Hash[by[att[a].resp].body] = Hash[att[a].body]

(* Requirements: "Retry must not create a second session", "Retry must not
   send a second email".  While no two attempts with a key overlap and none
   dies, the key's mutation has had its side effect at most once per life of
   its record, whatever replays, conflicts, refusals and expiries come in
   between. *)
OnceIfSerial == \A k \in Keys \ shaken : done[k] <= 1

=============================================================================
