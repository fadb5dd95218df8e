------------------------- MODULE IdempotencyProofs -------------------------
(***************************************************************************)
(* Proofs about Idempotency, for any keys, requests, hashes, side effects, *)
(* overlapping attempts and TTL.                                           *)
(***************************************************************************)
EXTENDS Idempotency, TLAPS

-----------------------------------------------------------------------------
(* The inductive invariant. *)

Responses == Effects \cup {None, Refused}
Attempt == [pc : {"idle", "execute", "store", "answered", "conflict"},
            key : Keys \cup {None}, body : Bodies \cup {None},
            resp : Responses]

RecordType == [hash : Variables \cup {None}, resp : Responses, ttl : 0..RecordTTL]

(* An effect was executed for this key and a request with this hash. *)
ExecutedFor(e, k, h) ==
    by[e].key = k /\ by[e].body \in Bodies /\ Hash[by[e].body] = h

(* A record that exists holds data executed for its key and hash. *)
RecordBacked(k) ==
    /\ cache[k].ttl = 0 => cache[k] = NoRecord
    /\ cache[k].ttl > 0 =>
         \/ cache[k].resp = Refused
         \/ /\ cache[k].resp \in Effects
            /\ ExecutedFor(cache[k].resp, k, cache[k].hash)

(* What an attempt knows: its request; no response before the mutation has
   run; a response that was executed for its key and hash. *)
AttemptKnows(a) ==
    /\ att[a].pc # "idle" => att[a].body \in Bodies
    /\ att[a].pc \in {"idle", "execute", "conflict"} => att[a].resp = None
    /\ att[a].resp \in Effects =>
         ExecutedFor(att[a].resp, att[a].key, Hash[att[a].body])

(* A key that was not shaken has one attempt running at most, and none while
   there is a record; its mutation has had no effect as long as none was
   executed by the attempt that runs, or none runs and there is no record. *)
Quiet(k) ==
    /\ \A a, b \in Running(k) : a = b
    /\ \A a \in Running(k) :
         /\ cache[k].ttl = 0
         /\ att[a].resp \notin Effects => done[k] = 0
    /\ Running(k) = {} /\ cache[k].ttl = 0 => done[k] = 0
    /\ done[k] <= 1

Backed == \A k \in Keys : RecordBacked(k)
Known == \A a \in Attempts : AttemptKnows(a)
QuietKeys == \A k \in Keys \ shaken : Quiet(k)

Inv == TypeOK /\ Backed /\ Known /\ QuietKeys

-----------------------------------------------------------------------------
(* The initial state. *)
LEMMA InitInv == Init => Inv
  <1> SUFFICES ASSUME Init PROVE Inv
    OBVIOUS
  <1> USE NoneAssumption, TTLAssumption
  <1>1. TypeOK
    BY DEF Init, TypeOK, Idle, NoRecord, Nobody
  <1>2. Backed
    <2>1. \A k \in Keys : cache[k] = NoRecord
      BY DEF Init
    <2>2. NoRecord.ttl \in Nat /\ ~(NoRecord.ttl > 0)
      BY DEF NoRecord
    <2> QED
      BY <2>1, <2>2 DEF Backed, RecordBacked
  <1>3. Known
    BY DEF Init, Known, AttemptKnows, Idle
  <1>4. QuietKeys
    <2>1. \A k \in Keys : Running(k) = {}
      BY DEF Init, Running, Idle
    <2>2. \A k \in Keys : done[k] = 0 /\ done[k] <= 1
      <3>1. 0 <= 1
        OBVIOUS
      <3> QED
        BY <3>1 DEF Init
    <2> QED
      BY <2>1, <2>2 DEF QuietKeys, Quiet
  <1> QED
    BY <1>1, <1>2, <1>3, <1>4 DEF Inv

(* A step that replaces the state of one attempt leaves the others alone. *)
LEMMA AttemptUpdate ==
    ASSUME TypeOK, NEW a \in Attempts, NEW q \in Attempt,
           att' = [att EXCEPT ![a] = q]
    PROVE  /\ att' \in [Attempts -> Attempt]
           /\ att'[a] = q
           /\ \A x \in Attempts : x # a => att'[x] = att[x]
  BY DEF TypeOK, Attempt, Responses

(* A step that replaces the state of one attempt, and neither Redis nor what
   was executed. *)
LEMMA MoveStep ==
    ASSUME Inv, UNCHANGED <<cache, by, done>>, shaken' \in SUBSET Keys,
           shaken \subseteq shaken',
           NEW a \in Attempts, NEW q \in Attempt, att' = [att EXCEPT ![a] = q],
           q.pc # "idle" => q.body \in Bodies,
           q.pc \in {"idle", "execute", "conflict"} => q.resp = None,
           q.resp \in Effects => ExecutedFor(q.resp, q.key, Hash[q.body]),
           \A k \in Keys \ shaken' : Quiet(k)'
    PROVE  Inv'
  <1>1. /\ att' \in [Attempts -> Attempt] /\ att'[a] = q
        /\ \A x \in Attempts : x # a => att'[x] = att[x]
    BY AttemptUpdate DEF Inv
  <1>2. TypeOK'
    BY <1>1 DEF Inv, TypeOK, Attempt, Responses
  <1>3. Backed'
    BY DEF Inv, Backed, RecordBacked, ExecutedFor
  <1>4. Known'
    BY <1>1 DEF Inv, Known, AttemptKnows, ExecutedFor
  <1>5. QuietKeys'
    BY DEF QuietKeys
  <1> QED
    BY <1>2, <1>3, <1>4, <1>5 DEF Inv

(* The lookup decides for an answer, a conflict or the mutation. *)
LEMMA DecisionCases ==
    ASSUME NEW rec, NEW b, rec.ttl \in Nat
    PROVE  \/ rec.ttl = 0 /\ Decision(rec, b) = "execute"
           \/ /\ rec.ttl > 0 /\ rec.hash = Hash[b]
              /\ Decision(rec, b) = "answered"
           \/ rec.ttl > 0 /\ Decision(rec, b) = "conflict"
  BY DEF Decision, Matches

(* The lookup keeps the invariant: it finds another attempt running and the
   key is shaken, or it is the only one. *)
LEMMA BeginStep ==
    ASSUME Inv, NEW a \in Attempts, NEW k \in Keys, NEW b \in Bodies,
           Begin(a, k, b)
    PROVE  Inv'
  <1> DEFINE next == Decision(cache[k], b)
             q == [pc |-> next, key |-> k, body |-> b,
                   resp |-> IF next = "answered" THEN cache[k].resp ELSE None]
  <1>1. /\ att[a].pc = "idle" /\ att' = [att EXCEPT ![a] = q]
        /\ shaken' = shaken \cup {x \in {k} : Running(x) # {}}
        /\ UNCHANGED <<cache, by, done>>
    BY DEF Begin
  <1>2. /\ cache[k].ttl \in 0..RecordTTL /\ cache[k].resp \in Responses
        /\ cache[k].ttl \in Nat
    BY TTLAssumption DEF Inv, TypeOK, Responses
  <1>3. \/ cache[k].ttl = 0 /\ next = "execute"
        \/ cache[k].ttl > 0 /\ cache[k].hash = Hash[b] /\ next = "answered"
        \/ cache[k].ttl > 0 /\ next = "conflict"
    BY <1>2, DecisionCases
  <1>4. q \in Attempt
    BY <1>2, <1>3 DEF Attempt, Responses
  <1>5. q.resp \in Effects => ExecutedFor(q.resp, q.key, Hash[q.body])
    BY <1>3, NoneAssumption DEF Inv, Backed, RecordBacked
  <1>6. /\ q.pc = next /\ q.key = k /\ q.body = b
        /\ next # "answered" => q.resp = None
    OBVIOUS
  <1> HIDE DEF q, next
  <1>7. \A x \in Keys \ shaken' : Quiet(x)'
    <2> SUFFICES ASSUME NEW x \in Keys \ shaken' PROVE Quiet(x)'
      OBVIOUS
    <2>1. x \in Keys \ shaken /\ Quiet(x)
      BY <1>1 DEF Inv, QuietKeys
    <2>2. att'[a] = q /\ \A y \in Attempts : y # a => att'[y] = att[y]
      BY <1>1, <1>4, AttemptUpdate DEF Inv
    <2>3. CASE x # k \/ next # "execute"
      <3>1. Running(x)' = Running(x) /\ \A y \in Running(x) : att'[y] = att[y]
        BY <1>1, <1>3, <1>6, <2>2, <2>3 DEF Running
      <3> QED
        BY <1>1, <2>1, <3>1 DEF Quiet
    <2>4. CASE x = k /\ next = "execute"
      <3>1. Running(k) = {} /\ cache[k].ttl = 0
        BY <1>1, <1>3, <2>4
      <3>2. Running(k)' = {a}
        BY <1>1, <1>6, <2>2, <2>4, <3>1 DEF Running
      <3> QED
        BY <1>1, <1>6, <2>1, <2>2, <2>4, <3>1, <3>2, NoneAssumption DEF Quiet
    <2> QED
      BY <2>3, <2>4
  <1>8. shaken' \in SUBSET Keys /\ shaken \subseteq shaken'
    BY <1>1 DEF Inv, TypeOK
  <1> QED
    BY <1>1, <1>3, <1>4, <1>5, <1>6, <1>7, <1>8, MoveStep

(* A step of one attempt that runs no key's mutation before or after, or goes
   on running without an effect, leaves quiet keys quiet. *)
LEMMA QuietFrame ==
    ASSUME Inv, UNCHANGED <<cache, done, shaken>>,
           NEW a \in Attempts, NEW q \in Attempt, att' = [att EXCEPT ![a] = q],
           \A x \in Keys : a \in Running(x) <=>
                              q.key = x /\ q.pc \in {"execute", "store"},
           \A x \in Keys : a \in Running(x) =>
                              (att[a].resp \in Effects <=> q.resp \in Effects)
    PROVE  \A x \in Keys \ shaken' : Quiet(x)'
  <1> SUFFICES ASSUME NEW x \in Keys \ shaken PROVE Quiet(x)'
    OBVIOUS
  <1>1. Quiet(x)
    BY DEF Inv, QuietKeys
  <1>2. att'[a] = q /\ \A y \in Attempts : y # a => att'[y] = att[y]
    BY AttemptUpdate DEF Inv
  <1>3. Running(x)' = Running(x)
    BY <1>2 DEF Running
  <1>4. \A y \in Running(x) : att'[y].resp \in Effects <=> att[y].resp \in Effects
    BY <1>2 DEF Running
  <1> QED
    BY <1>1, <1>3, <1>4 DEF Quiet

(* A request without a key keeps the invariant. *)
LEMMA BeginPlainStep ==
    ASSUME Inv, NEW a \in Attempts, NEW b \in Bodies, BeginPlain(a, b)
    PROVE  Inv'
  <1> DEFINE q == [Idle EXCEPT !.pc = "execute", !.body = b]
  <1>1. /\ q \in Attempt /\ q.pc = "execute" /\ q.key = None
        /\ q.body = b /\ q.resp = None
    BY DEF Attempt, Responses, Idle
  <1>2. /\ att[a].pc = "idle" /\ att' = [att EXCEPT ![a] = q]
        /\ UNCHANGED <<cache, by, done, shaken>>
    BY DEF BeginPlain
  <1> HIDE DEF q
  <1>3. \A x \in Keys \ shaken' : Quiet(x)'
    BY <1>1, <1>2, NoneAssumption, QuietFrame DEF Running
  <1> QED
    BY <1>1, <1>2, <1>3, NoneAssumption, MoveStep DEF Inv, TypeOK

(* The mutation of an attempt answers without a side effect. *)
LEMMA NoEffectStep ==
    ASSUME Inv, NEW a \in Attempts, ExecuteRefused(a) \/ ExecuteErrors(a)
    PROVE  Inv'
  <1>1. PICK x \in {Refused, None} :
           /\ att[a].pc = "execute"
           /\ att' = [att EXCEPT ![a] = [att[a] EXCEPT !.pc = "store",
                                                       !.resp = x]]
           /\ UNCHANGED <<cache, by, done, shaken>>
    BY DEF ExecuteRefused, ExecuteErrors
  <1> DEFINE q == [att[a] EXCEPT !.pc = "store", !.resp = x]
  <1>2. att[a] \in Attempt /\ att[a].body \in Bodies /\ att[a].resp = None
    BY <1>1 DEF Inv, TypeOK, Known, AttemptKnows, Attempt, Responses
  <1>3. /\ q \in Attempt /\ q.pc = "store" /\ q.key = att[a].key
        /\ q.body = att[a].body /\ q.resp = x
    BY <1>2 DEF Attempt, Responses
  <1>4. x \notin Effects /\ None \notin Effects
    BY NoneAssumption
  <1> HIDE DEF q
  <1>5. /\ att' = [att EXCEPT ![a] = q]
        /\ \A k \in Keys : a \in Running(k) <=>
                              q.key = k /\ q.pc \in {"execute", "store"}
        /\ \A k \in Keys : a \in Running(k) =>
                              (att[a].resp \in Effects <=> q.resp \in Effects)
    BY <1>1, <1>2, <1>3, <1>4 DEF Running, q
  <1>6. \A k \in Keys \ shaken' : Quiet(k)'
    BY <1>1, <1>3, <1>5, QuietFrame
  <1> QED
    <2>1. /\ UNCHANGED <<cache, by, done>> /\ shaken' \in SUBSET Keys
          /\ shaken \subseteq shaken'
      BY <1>1 DEF Inv, TypeOK
    <2>2. q.body \in Bodies /\ q.resp \notin Effects /\ q.pc = "store"
      BY <1>2, <1>3, <1>4
    <2> QED
      BY <1>3, <1>5, <1>6, <2>1, <2>2, MoveStep

(* The side effect is new: nothing was answered with it, and it is the first
   one of a quiet key. *)
LEMMA ExecuteStep ==
    ASSUME Inv, NEW a \in Attempts, NEW e \in Effects, Execute(a, e)
    PROVE  Inv'
  <1> DEFINE q == [att[a] EXCEPT !.pc = "store", !.resp = e]
             w == [key |-> att[a].key, body |-> att[a].body]
  <1>1. /\ att[a].pc = "execute" /\ by[e] = Nobody
        /\ att' = [att EXCEPT ![a] = q]
        /\ by' = [by EXCEPT ![e] = w]
        /\ done' = [k \in Keys |-> IF k = att[a].key THEN done[k] + 1 ELSE done[k]]
        /\ UNCHANGED <<cache, shaken>>
    BY DEF Execute
  <1>2. att[a] \in Attempt /\ att[a].body \in Bodies /\ att[a].resp = None
    BY <1>1 DEF Inv, TypeOK, Known, AttemptKnows, Attempt, Responses
  <1>3. /\ q \in Attempt /\ q.pc = "store" /\ q.key = att[a].key
        /\ q.body = att[a].body /\ q.resp = e
    BY <1>2 DEF Attempt, Responses
  <1>4. /\ by' \in [Effects -> [key : Keys \cup {None}, body : Bodies \cup {None}]]
        /\ by'[e].key = q.key /\ by'[e].body = q.body
        /\ \A x \in Effects : x # e => by'[x] = by[x]
    BY <1>1, <1>2, <1>3 DEF Inv, TypeOK, Attempt
  <1>5. by[e].body \notin Bodies
    BY <1>1, NoneAssumption DEF Nobody
  <1> HIDE DEF q, w
  <1>6. /\ att' \in [Attempts -> Attempt] /\ att'[a] = q
        /\ \A x \in Attempts : x # a => att'[x] = att[x]
    BY <1>1, <1>3, AttemptUpdate DEF Inv
  <1>7. TypeOK'
    <2>1. done' \in [Keys -> Nat]
      BY <1>1 DEF Inv, TypeOK
    <2> QED
      BY <1>1, <1>4, <1>6, <2>1 DEF Inv, TypeOK, Attempt, Responses
  <1>8. Backed'
    BY <1>1, <1>4, <1>5 DEF Inv, Backed, RecordBacked, ExecutedFor
  <1>9. Known'
    <2> SUFFICES ASSUME NEW x \in Attempts PROVE AttemptKnows(x)'
      BY DEF Known
    <2>1. CASE x = a
      BY <1>2, <1>3, <1>4, <1>6, <2>1 DEF AttemptKnows, ExecutedFor
    <2>2. CASE x # a
      BY <1>4, <1>5, <1>6, <2>2 DEF Inv, Known, AttemptKnows, ExecutedFor
    <2> QED
      BY <2>1, <2>2
  <1>10. QuietKeys'
    <2> SUFFICES ASSUME NEW k \in Keys \ shaken PROVE Quiet(k)'
      BY <1>1 DEF QuietKeys
    <2>1. Quiet(k) /\ done[k] \in Nat
      BY DEF Inv, QuietKeys, TypeOK
    <2>2. Running(k)' = Running(k)
      BY <1>1, <1>3, <1>6 DEF Running
    <2>3. CASE k = att[a].key
      <3>1. a \in Running(k)
        BY <1>1, <2>3 DEF Running
      <3>2. cache[k].ttl = 0 /\ done[k] = 0 /\ \A b \in Running(k) : b = a
        BY <1>2, <2>1, <3>1, NoneAssumption DEF Quiet
      <3>3. done'[k] = 1 /\ done'[k] <= 1
        BY <1>1, <2>1, <2>3, <3>2
      <3>4. att'[a].resp \in Effects
        BY <1>3, <1>6
      <3> QED
        BY <1>1, <2>2, <3>1, <3>2, <3>3, <3>4 DEF Quiet
    <2>4. CASE k # att[a].key
      <3>1. done'[k] = done[k]
        BY <1>1, <2>4
      <3>2. \A b \in Running(k) : att'[b] = att[b]
        BY <1>6, <2>4 DEF Running
      <3> QED
        BY <1>1, <2>1, <2>2, <3>1, <3>2 DEF Quiet
    <2> QED
      BY <2>3, <2>4
  <1> QED
    BY <1>7, <1>8, <1>9, <1>10 DEF Inv

(* The SETEX stores what the attempt was answered with, if it was data. *)
LEMMA StoreStep ==
    ASSUME Inv, NEW a \in Attempts, Store(a)
    PROVE  Inv'
  <1> DEFINE q == [att[a] EXCEPT !.pc = "answered"]
  <1>1. /\ att[a].pc = "store" /\ att' = [att EXCEPT ![a] = q]
        /\ UNCHANGED <<by, done, shaken>>
        /\ cache' = [k \in Keys |-> IF Storable(att[a]) /\ k = att[a].key
                                    THEN Record(att[a]) ELSE cache[k]]
    BY DEF Store
  <1>2. att[a] \in Attempt /\ att[a].body \in Bodies
    BY <1>1 DEF Inv, TypeOK, Known, AttemptKnows, Attempt, Responses
  <1>3. /\ q \in Attempt /\ q.pc = "answered" /\ q.key = att[a].key
        /\ q.body = att[a].body /\ q.resp = att[a].resp
    BY <1>2 DEF Attempt
  <1> HIDE DEF q
  <1>4. /\ att' \in [Attempts -> Attempt] /\ att'[a] = q
        /\ \A x \in Attempts : x # a => att'[x] = att[x]
    BY <1>1, <1>3, AttemptUpdate DEF Inv
  <1>5. /\ Record(att[a]).hash = Hash[att[a].body]
        /\ Record(att[a]).resp = att[a].resp
        /\ Record(att[a]).ttl = RecordTTL
        /\ Record(att[a]) \in [hash : Variables \cup {None}, resp : Responses,
                               ttl : 0..RecordTTL]
    BY <1>2, HashAssumption, TTLAssumption DEF Record, Attempt
  <1>6. TypeOK'
    <2>1. cache' \in [Keys -> [hash : Variables \cup {None}, resp : Responses,
                               ttl : 0..RecordTTL]]
      BY <1>1, <1>5 DEF Inv, TypeOK, Responses
    <2> QED
      BY <1>1, <1>4, <2>1 DEF Inv, TypeOK, Attempt, Responses
  <1>7. Backed'
    <2> SUFFICES ASSUME NEW k \in Keys PROVE RecordBacked(k)'
      BY DEF Backed
    <2>1. CASE Storable(att[a]) /\ k = att[a].key
      <3>1. cache'[k] = Record(att[a])
        BY <1>1, <2>1
      <3>2. att[a].resp = Refused \/ att[a].resp \in Effects
        BY <1>2, <2>1 DEF Storable, Attempt, Responses
      <3>3. att[a].resp \in Effects =>
               ExecutedFor(att[a].resp, k, Hash[att[a].body])
        BY <2>1 DEF Inv, Known, AttemptKnows
      <3> QED
        BY <1>1, <1>5, <3>1, <3>2, <3>3, TTLAssumption
           DEF RecordBacked, ExecutedFor
    <2>2. CASE ~(Storable(att[a]) /\ k = att[a].key)
      <3>1. cache'[k] = cache[k]
        BY <1>1, <2>2
      <3> QED
        BY <1>1, <3>1 DEF Inv, Backed, RecordBacked, ExecutedFor
    <2> QED
      BY <2>1, <2>2
  <1>8. Known'
    BY <1>1, <1>2, <1>3, <1>4 DEF Inv, Known, AttemptKnows, ExecutedFor
  <1>9. QuietKeys'
    <2> SUFFICES ASSUME NEW k \in Keys \ shaken PROVE Quiet(k)'
      BY <1>1 DEF QuietKeys
    <2>1. Quiet(k)
      BY DEF Inv, QuietKeys
    <2>2. CASE k = att[a].key
      <3>1. a \in Running(k)
        BY <1>1, <2>2 DEF Running
      <3>2. \A b \in Running(k) : b = a
        BY <2>1, <3>1 DEF Quiet
      <3>3. Running(k)' = {}
        BY <1>1, <1>3, <1>4, <3>2 DEF Running
      <3>4. att[a].resp \notin Effects => done[k] = 0
        BY <2>1, <3>1 DEF Quiet
      <3>5. att[a].resp \in Effects => cache'[k].ttl # 0
        BY <1>1, <1>5, <2>2, TTLAssumption, NoneAssumption DEF Storable
      <3> QED
        BY <1>1, <2>1, <3>3, <3>4, <3>5 DEF Quiet
    <2>3. CASE k # att[a].key
      <3>1. Running(k)' = Running(k) /\ \A b \in Running(k) : att'[b] = att[b]
        BY <1>1, <1>3, <1>4, <2>3 DEF Running
      <3>2. cache'[k] = cache[k]
        BY <1>1, <2>3
      <3> QED
        BY <1>1, <2>1, <3>1, <3>2 DEF Quiet
    <2> QED
      BY <2>2, <2>3
  <1> QED
    BY <1>6, <1>7, <1>8, <1>9 DEF Inv

(* The state of no attempt. *)
LEMMA IdleType ==
    /\ Idle \in Attempt /\ Idle.pc = "idle" /\ Idle.resp = None
    /\ Idle.key = None
  BY DEF Idle, Attempt, Responses

(* An answer that goes out changes nothing else. *)
LEMMA AnswerStep ==
    ASSUME Inv, NEW a \in Attempts, Answer(a)
    PROVE  Inv'
  <1>1. \A k \in Keys \ shaken' : Quiet(k)'
    BY IdleType, QuietFrame DEF Answer, Running
  <1> QED
    BY <1>1, IdleType, NoneAssumption, MoveStep DEF Answer, Inv, TypeOK

(* The key of an attempt that dies is shaken, other keys are as they were. *)
LEMMA CrashStep ==
    ASSUME Inv, NEW a \in Attempts, Crash(a)
    PROVE  Inv'
  <1>1. /\ att' = [att EXCEPT ![a] = Idle] /\ UNCHANGED <<cache, by, done>>
        /\ shaken' = shaken \cup (Keys \cap {att[a].key})
    BY DEF Crash
  <1>2. att'[a] = Idle /\ \A x \in Attempts : x # a => att'[x] = att[x]
    BY <1>1, IdleType, AttemptUpdate DEF Inv
  <1>3. \A k \in Keys \ shaken' : Quiet(k)'
    <2> SUFFICES ASSUME NEW k \in Keys \ shaken' PROVE Quiet(k)'
      OBVIOUS
    <2>1. Quiet(k) /\ k # att[a].key
      BY <1>1 DEF Inv, QuietKeys
    <2>2. Running(k)' = Running(k) /\ \A b \in Running(k) : att'[b] = att[b]
      BY <1>2, <2>1, IdleType DEF Running
    <2> QED
      BY <1>1, <2>1, <2>2 DEF Quiet
  <1>4. shaken' \in SUBSET Keys /\ shaken \subseteq shaken'
    BY <1>1 DEF Inv, TypeOK
  <1> QED
    BY <1>1, <1>3, <1>4, IdleType, NoneAssumption, MoveStep

(* A record that grows older by a tick. *)
LEMMA RecordAges ==
    ASSUME NEW c \in RecordType, NEW d,
           d = IF c.ttl > 1 THEN [c EXCEPT !.ttl = @ - 1] ELSE NoRecord
    PROVE  /\ c.ttl \in Nat /\ d \in RecordType
           /\ c.ttl > 1 => d.ttl > 0 /\ d.hash = c.hash /\ d.resp = c.resp
           /\ c.ttl <= 1 => d = NoRecord /\ d.ttl = 0
  <1>1. c.ttl \in Nat /\ c.ttl <= RecordTTL
    BY TTLAssumption DEF RecordType
  <1>2. CASE c.ttl > 1
    <2>1. c.ttl - 1 \in 0..RecordTTL /\ c.ttl - 1 > 0
      BY <1>1, <1>2, TTLAssumption
    <2>2. d = [c EXCEPT !.ttl = c.ttl - 1]
      BY <1>2
    <2> QED
      BY <1>1, <1>2, <2>1, <2>2 DEF RecordType
  <1>3. CASE ~(c.ttl > 1)
    BY <1>1, <1>3, TTLAssumption DEF RecordType, NoRecord, Responses
  <1> QED
    BY <1>2, <1>3

(* Records expire; a key is forgiven only when nothing of it is left. *)
LEMMA TickStep ==
    ASSUME Inv, Tick
    PROVE  Inv'
  <1>1. UNCHANGED <<att, by>> /\ \A k \in Keys : Running(k)' = Running(k)
    BY DEF Tick, Running
  <1>2. cache \in [Keys -> RecordType]
    BY DEF Inv, TypeOK, RecordType, Responses
  <1>3. \A k \in Keys :
           /\ cache[k].ttl \in Nat /\ cache'[k] \in RecordType
           /\ cache[k].ttl > 1 => /\ cache'[k].ttl > 0
                                  /\ cache'[k].hash = cache[k].hash
                                  /\ cache'[k].resp = cache[k].resp
           /\ cache[k].ttl <= 1 => cache'[k] = NoRecord /\ cache'[k].ttl = 0
           /\ done'[k] = IF cache[k].ttl = 1 THEN 0 ELSE done[k]
    <2> TAKE k \in Keys
    <2>1. cache[k] \in RecordType
      BY <1>2
    <2>2. /\ cache'[k] = IF cache[k].ttl > 1
                         THEN [cache[k] EXCEPT !.ttl = @ - 1] ELSE NoRecord
          /\ done'[k] = IF cache[k].ttl = 1 THEN 0 ELSE done[k]
      BY DEF Tick
    <2> QED
      BY <2>1, <2>2, RecordAges
  <1>4. TypeOK'
    <2>1. cache' \in [Keys -> RecordType]
      BY <1>3 DEF Tick
    <2>2. done' \in [Keys -> Nat] /\ shaken' \in SUBSET Keys
      BY DEF Tick, Inv, TypeOK
    <2> QED
      BY <1>1, <2>1, <2>2 DEF Inv, TypeOK, RecordType, Responses
  <1>5. Backed'
    <2> SUFFICES ASSUME NEW k \in Keys PROVE RecordBacked(k)'
      BY DEF Backed
    <2>1. RecordBacked(k) /\ cache[k].ttl \in Nat
      BY <1>3 DEF Inv, Backed
    <2>2. CASE cache[k].ttl > 1
      <3>1. cache'[k].ttl # 0
        BY <1>3, <2>2 DEF RecordType
      <3> QED
        BY <1>1, <1>3, <2>1, <2>2, <3>1 DEF RecordBacked, ExecutedFor
    <2>3. CASE cache[k].ttl <= 1
      <3>1. cache'[k] = NoRecord /\ ~(cache'[k].ttl > 0)
        BY <1>3, <2>3
      <3> QED
        BY <3>1 DEF RecordBacked
    <2> QED
      BY <2>1, <2>2, <2>3
  <1>6. Known'
    BY <1>1 DEF Inv, Known, AttemptKnows, ExecutedFor
  <1>7. QuietKeys'
    <2> SUFFICES ASSUME NEW k \in Keys, k \notin shaken' PROVE Quiet(k)'
      BY DEF QuietKeys
    <2>1. CASE k \in shaken
      <3>1. cache[k].ttl = 1 /\ Running(k) = {}
        BY <2>1 DEF Tick
      <3>2. Running(k)' = {} /\ done'[k] = 0
        BY <1>1, <1>3, <3>1
      <3>3. done'[k] <= 1
        BY <3>2
      <3> QED
        BY <3>2, <3>3 DEF Quiet
    <2>2. CASE k \notin shaken
      <3>1. Quiet(k) /\ done[k] \in Nat
        BY <2>2 DEF Inv, QuietKeys, TypeOK
      <3>2. \A b \in Running(k) : cache[k].ttl = 0
        BY <3>1 DEF Quiet
      <3>3. CASE cache[k].ttl = 0
        BY <1>1, <1>3, <3>1, <3>3 DEF Quiet
      <3>4. CASE cache[k].ttl = 1
        <4>1. Running(k)' = {} /\ done'[k] = 0
          BY <1>1, <1>3, <3>2, <3>4
        <4>2. done'[k] <= 1
          BY <4>1
        <4> QED
          BY <4>1, <4>2 DEF Quiet
      <3>5. CASE cache[k].ttl > 1
        <4>1. Running(k)' = {} /\ done'[k] = done[k] /\ cache'[k].ttl # 0
          BY <1>1, <1>3, <3>2, <3>5 DEF RecordType
        <4> QED
          BY <3>1, <4>1 DEF Quiet
      <3> QED
        BY <1>3, <3>3, <3>4, <3>5
    <2> QED
      BY <2>1, <2>2
  <1> QED
    BY <1>4, <1>5, <1>6, <1>7 DEF Inv

-----------------------------------------------------------------------------
(* Every step keeps the invariant. *)
LEMMA StepInv == Inv /\ [Next]_vars => Inv'
  <1> SUFFICES ASSUME Inv, [Next]_vars PROVE Inv'
    OBVIOUS
  <1>1. ASSUME NEW a \in Attempts, Serve(a) PROVE Inv'
    BY <1>1, BeginStep, BeginPlainStep, ExecuteStep, NoEffectStep, StoreStep,
       AnswerStep DEF Serve
  <1>2. CASE UNCHANGED vars
    BY <1>2 DEF vars, Inv, TypeOK, Backed, RecordBacked, Known, AttemptKnows,
       ExecutedFor, QuietKeys, Quiet, Running
  <1> QED
    BY <1>1, <1>2, CrashStep, TickStep DEF Next

(* The inductive invariant holds in every reachable state. *)
THEOREM Invariance == Spec => []Inv
  BY InitInv, StepInv, PTL DEF Spec

(* Records, attempts and effects keep their types. *)
THEOREM TypeCorrect == Spec => []TypeOK
  BY Invariance, PTL DEF Inv

(* A record is never an error and never the data of another key or hash,
   whichever overlapping attempts wrote it. *)
THEOREM RecordsAreBacked == Spec => []RecordsBacked
  <1>1. Inv => RecordsBacked
    BY DEF Inv, Backed, RecordBacked, ExecutedFor, RecordsBacked
  <1> QED
    BY <1>1, Invariance, PTL

(* Retries that neither overlap nor follow a crash execute the mutation of a
   key once per life of its record. *)
THEOREM OncePerRecord == Spec => []OnceIfSerial
  <1>1. Inv => OnceIfSerial
    BY DEF Inv, QuietKeys, Quiet, OnceIfSerial
  <1> QED
    BY <1>1, Invariance, PTL

(* An attempt is answered only with the outcome of a request with its own key
   and variables. *)
THEOREM AnswersMatch == Spec => []ReplayMatches
  <1>1. Inv => ReplayMatches
    BY DEF Inv, Known, AttemptKnows, ExecutedFor, ReplayMatches
  <1> QED
    BY <1>1, Invariance, PTL
=============================================================================
