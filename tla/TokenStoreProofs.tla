-------------------------- MODULE TokenStoreProofs --------------------------
(***************************************************************************)
(* Proofs about TokenStore, for every number of users, sessions, token     *)
(* pairs and overlapping requests, and for all TTLs.                       *)
(***************************************************************************)
EXTENDS TokenStore, TLAPS

-----------------------------------------------------------------------------
(* The inductive invariant: the properties of TokenStore and what they need. *)

(* A pair is dead until it is issued, and is issued in the name of the user
   who opened the session. *)
IssuedToOwner ==
    \A t \in Pairs :
        IF payload[t].sid = None
        THEN access[t] = 0 /\ refresh[t] = 0
        ELSE LET u == owner[payload[t].sid]
             IN  u # None /\ payload[t].user = u /\ payload[t].sub = u

(* A hash names the pair it was last written with; its user_id, when it has
   one, is the user who opened the session. *)
HashNamesPair ==
    \A s \in Sids :
        LET h == session[s]
        IN  IF h.ttl = 0 THEN h = NoHash
            ELSE /\ h.current # None /\ payload[h.current].sid = s
                 /\ h.user # None => h.user = owner[s]

(* A session has a hash with its user_id from login until it ends, and never
   again afterwards. *)
UserUntilEnd ==
    \A s \in Sids :
        /\ s \in Ended => owner[s] # None /\ session[s].user = None
        /\ s \notin Ended => session[s].user = owner[s]

(* While the hash exists, the only usable access token of a session is the
   one the hash names. *)
HashNamesAccess ==
    \A s \in Sids, t \in Pairs :
        session[s].ttl > 0 /\ LiveAccess(t, s) => session[s].current = t

(* What a coroutine knows in refreshToken: the token it redeemed is gone and
   belongs to the session; past the HGETALL, the pair it read is the only one
   that may still be usable. *)
RotationKnows ==
    \A r \in Requests :
        LET q == req[r]
        IN  /\ q.pc \in {"redeemed", "rotate"} =>
                 /\ q.pair # None /\ q.sid # None
                 /\ payload[q.pair].sid = q.sid
                 /\ refresh[q.pair] = 0
            /\ q.pc = "rotate" =>
                 /\ q.seen.user # None /\ q.seen.user = owner[q.sid]
                 /\ q.seen.current # None
                 /\ payload[q.seen.current].sid = q.sid
                 /\ \A t \in Pairs : LiveAccess(t, q.sid) => t = q.seen.current

(* What a coroutine knows in revokeSession and revoke_all_user_sessions. *)
RevocationFacts(q) ==
    /\ q.pc = "owner" => q.sid # None /\ q.caller # None
    /\ q.pc = "listed" \/ q.todo # {} => q.caller # None
    /\ q.pc = "revoke" =>
         /\ q.sid # None /\ q.sid \in q.todo
         /\ q.seen.current # None
         /\ payload[q.seen.current].sid = q.sid
         /\ q.seen.user \in {None, owner[q.sid]}

RevocationKnows == \A r \in Requests : RevocationFacts(req[r])

(* The user's set holds sessions of the user, and outlives each of them. *)
IndexOutlives ==
    \A u \in Users : \A s \in index[u].ids :
        owner[s] = u /\ session[s].ttl <= index[u].ttl

(* The parts that say nothing of the coroutines. *)
StoreInv ==
    /\ IssuedToOwner
    /\ HashNamesPair
    /\ UserUntilEnd
    /\ HashNamesAccess
    /\ IndexOutlives
    /\ OneAccessPerSession
    /\ LiveTokenUsable
    /\ IndexComplete

(* The parts that do. *)
RequestInv ==
    /\ RotationKnows
    /\ RevocationKnows
    /\ RefreshNeverForks
    /\ OwnSessionsOnly

Inv == TypeOK /\ StoreInv /\ RequestInv

-----------------------------------------------------------------------------
(* The initial state. *)
LEMMA InitInv == Init => Inv
  <1> SUFFICES ASSUME Init PROVE Inv
    OBVIOUS
  <1> USE NoneAssumption, TTLAssumption
  <1>1. TypeOK
    BY DEF Init, TypeOK, Payload, Hash, Index, Request, Seen, Opt, NoPayload,
           NoHash, NoIndex, Idle, NotSeen
  <1>2. StoreInv
    BY DEF Init, StoreInv, IssuedToOwner, HashNamesPair, UserUntilEnd,
           HashNamesAccess, IndexOutlives, OneAccessPerSession,
           LiveTokenUsable, IndexComplete, LiveAccess, Ended, NoPayload,
           NoHash, NoIndex
  <1>3. RequestInv
    BY DEF Init, RequestInv, RotationKnows, RevocationKnows, RevocationFacts,
           RefreshNeverForks, OwnSessionsOnly, LiveRefresh, Rotating, Idle
  <1> QED
    BY <1>1, <1>2, <1>3 DEF Inv

(* A step that leaves Redis alone keeps what is said of Redis. *)
LEMMA StoreFrame ==
    ASSUME StoreInv, UNCHANGED <<store, history>>
    PROVE  StoreInv'
  BY DEF StoreInv, IssuedToOwner, HashNamesPair, UserUntilEnd,
         HashNamesAccess, IndexOutlives, OneAccessPerSession,
         LiveTokenUsable, IndexComplete, LiveAccess, Ended, store, history

(* Updating the state of one coroutine. *)
LEMMA IdleType == Idle \in Request
  BY DEF Idle, NotSeen, Request, Seen, Opt

(* A step that changes one coroutine keeps the others. *)
LEMMA RequestUpdate ==
    ASSUME TypeOK, NEW r \in Requests, NEW q \in Request,
           req' = [req EXCEPT ![r] = q]
    PROVE  /\ req' \in [Requests -> Request]
           /\ req'[r] = q
           /\ \A x \in Requests : x # r => req'[x] = req[x]
  BY DEF TypeOK

-----------------------------------------------------------------------------
(* Login. *)
LEMMA CreateSessionStep ==
    ASSUME Inv, NEW u \in Users, NEW s \in Sids, NEW t \in Pairs,
           CreateSession(u, s, t)
    PROVE  Inv'
  <1> USE NoneAssumption, TTLAssumption DEF Inv, StoreInv, RequestInv, CreateSession
  <1>0. /\ owner[s] = None /\ payload[t].sid = None
        /\ u # None /\ s # None /\ t # None
    BY DEF FreshSid, FreshPair
  <1>1. TypeOK'
    BY DEF TypeOK, Payload, Hash, Index, Opt
  <1>2. IssuedToOwner'
    BY <1>0 DEF IssuedToOwner, TypeOK, Payload, Opt
  <1>3. HashNamesPair'
    BY <1>0 DEF HashNamesPair, TypeOK, Payload, Hash, Opt, NoHash
  <1>4. UserUntilEnd'
    BY <1>0 DEF UserUntilEnd, TypeOK, Hash, Opt, Ended
  <1>5. HashNamesAccess'
    BY <1>0 DEF HashNamesAccess, TypeOK, Payload, Hash, Opt, LiveAccess, IssuedToOwner
  <1>6. IndexOutlives'
    BY <1>0 DEF IndexOutlives, TypeOK, Index, Hash, Opt
  <1>7. OneAccessPerSession'
    BY <1>0 DEF OneAccessPerSession, TypeOK, Payload, LiveAccess, IssuedToOwner
  <1>8. LiveTokenUsable'
    BY <1>0 DEF LiveTokenUsable, TypeOK, Payload, Hash, Opt, Ended, IssuedToOwner, UserUntilEnd
  <1>9. IndexComplete'
    BY <1>0 DEF IndexComplete, TypeOK, Index, Hash, Opt
  <1>10. RotationKnows'
    BY <1>0 DEF RotationKnows, TypeOK, Request, Seen, Payload, Opt, LiveAccess, IssuedToOwner
  <1>11. RevocationKnows'
    BY <1>0 DEF RevocationKnows, RevocationFacts, TypeOK, Request, Seen, Payload, Opt, IssuedToOwner
  <1>12. RefreshNeverForks'
    BY <1>0 DEF RefreshNeverForks, RotationKnows, TypeOK, Request, Payload, Opt, LiveRefresh, Rotating, IssuedToOwner
  <1>13. OwnSessionsOnly'
    BY <1>0 DEF OwnSessionsOnly, RevocationKnows, RevocationFacts, TypeOK, Request, Opt
  <1> QED
    BY <1>1, <1>2, <1>3, <1>4, <1>5, <1>6, <1>7, <1>8, <1>9, <1>10, <1>11,
       <1>12, <1>13

-----------------------------------------------------------------------------
(* The refreshToken mutation. *)
LEMMA RedeemStep ==
    ASSUME Inv, NEW r \in Requests, NEW t \in Pairs,
           GetSessionByRefreshToken(r, t)
    PROVE  Inv'
  <1> USE NoneAssumption, TTLAssumption
      DEF Inv, StoreInv, RequestInv, GetSessionByRefreshToken, GetDel, Idle,
          NotSeen, history
  <1>0. /\ t # None /\ payload[t].sid # None
        /\ \A q \in Requests : q # r => req'[q] = req[q]
        /\ req'[r].pc = "redeemed" /\ req'[r].pair = t
        /\ req'[r].sid = payload[t].sid /\ req'[r].todo = {}
    BY DEF TypeOK, IssuedToOwner
  <1>1. TypeOK'
    <2>1. payload[t].sid \in Opt(Sids)
      BY DEF TypeOK, Payload
    <2>2. [Idle EXCEPT !.pc = "redeemed", !.pair = t, !.sid = payload[t].sid]
            \in Request
      BY <2>1 DEF Request, Seen, Opt
    <2> QED
      BY <2>2, RequestUpdate DEF TypeOK
  <1>2. IssuedToOwner'
    BY DEF IssuedToOwner, TypeOK
  <1>3. HashNamesPair' /\ HashNamesAccess' /\ OneAccessPerSession'
    BY DEF HashNamesPair, HashNamesAccess, OneAccessPerSession, LiveAccess
  <1>4. UserUntilEnd' /\ IndexOutlives' /\ IndexComplete'
    BY DEF UserUntilEnd, IndexOutlives, IndexComplete, Ended
  <1>5. LiveTokenUsable'
    BY DEF LiveTokenUsable, TypeOK, Ended
  <1>6. RotationKnows'
    BY <1>0 DEF RotationKnows, TypeOK, Request, LiveAccess
  <1>7. RevocationKnows'
    BY <1>0 DEF RevocationKnows, RevocationFacts, TypeOK, Request
  <1>8. RefreshNeverForks'
    BY <1>0 DEF RefreshNeverForks, TypeOK, Payload, Opt, LiveRefresh, Rotating
  <1>9. OwnSessionsOnly'
    BY <1>0 DEF OwnSessionsOnly
  <1> QED
    BY <1>1, <1>2, <1>3, <1>4, <1>5, <1>6, <1>7, <1>8, <1>9

(* The read of rotate_session keeps the invariant. *)
LEMMA RotateReadStep ==
    ASSUME Inv, NEW r \in Requests, RotateRead(r)
    PROVE  Inv'
  <1> USE NoneAssumption DEF Inv, RequestInv, RotateRead
  <1> DEFINE h == session[req[r].sid]
  <1>0. \A q \in Requests : q # r => req'[q] = req[q]
    BY DEF TypeOK
  <1>1. StoreInv'
    BY StoreFrame
  <1>2. /\ req[r].sid \in Sids
        /\ UNCHANGED <<access, refresh, payload, owner>>
        /\ IF Rotatable(h)
           THEN req'[r] = [req[r] EXCEPT !.pc = "rotate",
                              !.seen = [user |-> h.user, current |-> h.current]]
           ELSE req'[r] = Idle
    BY DEF RotationKnows, TypeOK, Request, Opt, store, history
  <1>3. TypeOK'
    <2>1. [user |-> h.user, current |-> h.current] \in Seen
      BY <1>2 DEF TypeOK, Hash, Seen
    <2>2. req'[r] \in Request
      BY <1>2, <2>1, IdleType DEF TypeOK, Request
    <2> QED
      BY <2>2 DEF TypeOK, store, history
  <1>4. RotationKnows'
    BY <1>0, <1>2 DEF RotationKnows, TypeOK, Request, Seen, Hash, Opt, Idle,
       LiveAccess, Rotatable, StoreInv, HashNamesPair, HashNamesAccess
  <1>5. RevocationKnows'
    BY <1>0, <1>2 DEF RevocationKnows, RevocationFacts, TypeOK, Request, Idle
  <1>6. RefreshNeverForks'
    BY <1>0, <1>2 DEF RefreshNeverForks, TypeOK, Request, LiveRefresh, Rotating, Idle
  <1>7. OwnSessionsOnly'
    BY <1>0, <1>2 DEF OwnSessionsOnly, TypeOK, Request, Idle
  <1> QED
    BY <1>1, <1>3, <1>4, <1>5, <1>6, <1>7

(* The MULTI of rotate_session keeps the invariant, also when the session
   was revoked or expired after the read. *)
LEMMA RotateStep ==
    ASSUME Inv, NEW r \in Requests, NEW t \in Pairs, Rotate(r, t)
    PROVE  Inv'
  <1> USE NoneAssumption, TTLAssumption DEF Inv, StoreInv, RequestInv
  <1> DEFINE q == req[r]
             s == req[r].sid
             u == req[r].seen.user
  <1>1. /\ q \in Request /\ q.pc = "rotate"
        /\ s \in Sids /\ s # None /\ q.pair \in Pairs /\ q.seen.current \in Pairs
        /\ u \in Users /\ u # None /\ u = owner[s]
        /\ payload[q.pair].sid = s /\ payload[q.pair].user = u
        /\ payload[q.seen.current].sid = s
        /\ refresh[q.pair] = 0
        /\ payload[t].sid = None /\ t # q.pair /\ t # q.seen.current
        /\ t # None
    BY DEF Rotate, NewClaims, RotationKnows, IssuedToOwner, FreshPair, TypeOK, Request,
           Seen, Opt
  <1>2. /\ \A x \in Pairs : x # t => refresh'[x] = refresh[x]
        /\ \A x \in Pairs : x # t => payload'[x] = payload[x]
        /\ \A x \in Pairs : x # t /\ x # q.seen.current => access'[x] = access[x]
        /\ access'[q.seen.current] = 0
        /\ refresh'[t] = RefreshTTL /\ access'[t] = AccessTTL
        /\ payload'[t] = [sub |-> u, user |-> u, sid |-> s]
    BY <1>1 DEF Rotate, NewClaims, TypeOK
  <1>3. /\ \A x \in Sids : x # s => session'[x] = session[x]
        /\ session'[s] = [user |-> session[s].user, current |-> t,
                          ttl |-> RefreshTTL]
        /\ \A x \in Users : x # u => index'[x] = index[x]
        /\ index'[u] = Extend(index[u])
        /\ UNCHANGED <<owner, revoked, lapsed, wiped>>
    BY <1>1 DEF Rotate, NewClaims, Renewed, TypeOK, Hash, history
  <1>4. /\ \A x \in Requests : x # r => req'[x] = req[x]
        /\ req'[r] = Idle
    BY <1>1 DEF Rotate, NewClaims, TypeOK
  <1>a. /\ \A x \in Users : index'[x].ids = index[x].ids
        /\ index[u].ids # {} => index'[u].ttl = RefreshTTL
        /\ session'[s].user = session[s].user
        /\ session'[s].ttl = RefreshTTL
        /\ session'[s].current = t
    BY <1>1, <1>3 DEF Extend, TypeOK, Index
  <1>5. \A x \in Pairs : refresh[x] > 0 => payload[x].sid # s
    BY <1>1 DEF RefreshNeverForks, LiveRefresh, Rotating
  <1>6. \A x \in Pairs : LiveAccess(x, s) => x = q.seen.current
    BY <1>1 DEF RotationKnows
  <1>7. TypeOK'
    <2>1. payload' \in [Pairs -> Payload]
      BY <1>1 DEF Rotate, NewClaims, TypeOK, Payload, Opt
    <2>2. session' \in [Sids -> Hash]
      <3>1. session'[s] \in Hash
        BY <1>1, <1>3 DEF TypeOK, Hash, Opt
      <3> QED
        BY <1>1, <3>1 DEF Rotate, NewClaims, TypeOK
    <2>3. index' \in [Users -> Index]
      BY <1>1 DEF Rotate, NewClaims, Extend, TypeOK, Index
    <2>4. req' \in [Requests -> Request]
      BY <1>1 DEF Rotate, NewClaims, TypeOK, Request, Seen, Opt, Idle, NotSeen
    <2>5. access' \in [Pairs -> 0..AccessTTL] /\ refresh' \in [Pairs -> 0..RefreshTTL]
      BY <1>1 DEF Rotate, NewClaims, TypeOK
    <2> QED
      BY <1>3, <2>1, <2>2, <2>3, <2>4, <2>5 DEF TypeOK
  <1>8. IssuedToOwner'
    BY <1>1, <1>2, <1>3 DEF IssuedToOwner
  <1>9. HashNamesPair'
    <2> SUFFICES ASSUME NEW x \in Sids
                 PROVE  LET h == session'[x]
                        IN  IF h.ttl = 0 THEN h = NoHash
                            ELSE /\ h.current # None
                                 /\ payload'[h.current].sid = x
                                 /\ h.user # None => h.user = owner'[x]
      BY DEF HashNamesPair
    <2>1. CASE x = s
      BY <1>1, <1>2, <1>3, <1>a, <2>1 DEF HashNamesPair, NoHash
    <2>2. CASE x # s
      <3>1. session[x].ttl # 0 => session[x].current \in Pairs
        BY DEF HashNamesPair, TypeOK, Hash, Opt
      <3> QED
        BY <1>1, <1>2, <1>3, <2>2, <3>1 DEF HashNamesPair
    <2> QED
      BY <2>1, <2>2
  <1>10. UserUntilEnd'
    BY <1>1, <1>3 DEF UserUntilEnd, Ended
  <1>11. HashNamesAccess' /\ OneAccessPerSession'
    BY <1>1, <1>2, <1>3, <1>6 DEF HashNamesAccess, OneAccessPerSession, LiveAccess
  <1>12. IndexOutlives'
    <2> SUFFICES ASSUME NEW v \in Users, NEW x \in index[v].ids
                 PROVE  owner[x] = v /\ session'[x].ttl <= index'[v].ttl
      BY <1>3, <1>a DEF IndexOutlives
    <2>1. x \in Sids /\ owner[x] = v
      BY DEF IndexOutlives, TypeOK, Index
    <2>2. CASE x = s
      BY <1>1, <1>a, <2>1, <2>2
    <2>3. CASE x # s /\ v = u
      <3>1. session[x].ttl \in 0..RefreshTTL
        BY <2>1 DEF TypeOK, Hash
      <3> QED
        BY <1>3, <1>a, <2>1, <2>3, <3>1
    <2>4. CASE x # s /\ v # u
      BY <1>3, <2>1, <2>4 DEF IndexOutlives
    <2> QED
      BY <2>2, <2>3, <2>4
  <1>13. LiveTokenUsable'
    <2> SUFFICES ASSUME NEW x \in Pairs, refresh'[x] > 0,
                        payload'[x].sid \notin Ended'
                 PROVE  session'[payload'[x].sid] =
                           [user |-> owner'[payload'[x].sid], current |-> x,
                            ttl |-> refresh'[x]]
      BY DEF LiveTokenUsable
    <2>1. CASE x = t
      <3>1. payload'[x].sid = s /\ s \notin Ended
        BY <1>2, <1>3, <2>1 DEF Ended
      <3>2. session[s].user = owner[s]
        BY <1>1, <3>1 DEF UserUntilEnd
      <3> QED
        BY <1>2, <1>3, <2>1, <3>1, <3>2
    <2>2. CASE x # t
      <3>1. payload[x].sid \in Sids /\ payload[x].sid # s
        BY <1>2, <1>5, <2>2 DEF IssuedToOwner, TypeOK, Payload, Opt
      <3> QED
        BY <1>2, <1>3, <2>2, <3>1 DEF LiveTokenUsable, Ended
    <2> QED
      BY <2>1, <2>2
  <1>14. IndexComplete'
    <2> SUFFICES ASSUME NEW x \in Sids, session[x].user # None
                 PROVE  x \in index'[session[x].user].ids \cup wiped
      BY <1>1, <1>3, <1>a DEF IndexComplete
    <2>1. session[x].user \in Users
      BY DEF TypeOK, Hash, Opt
    <2> QED
      BY <1>a, <2>1 DEF IndexComplete
  <1>15. RotationKnows'
    <2> SUFFICES ASSUME NEW x \in Requests,
                        req'[x].pc \in {"redeemed", "rotate"}
                 PROVE  /\ req'[x].pair # None /\ req'[x].sid # None
                        /\ payload'[req'[x].pair].sid = req'[x].sid
                        /\ refresh'[req'[x].pair] = 0
                        /\ req'[x].pc = "rotate" =>
                             /\ req'[x].seen.user # None
                             /\ req'[x].seen.user = owner'[req'[x].sid]
                             /\ req'[x].seen.current # None
                             /\ payload'[req'[x].seen.current].sid = req'[x].sid
                             /\ \A y \in Pairs :
                                  access'[y] > 0 /\ payload'[y].sid = req'[x].sid
                                     => y = req'[x].seen.current
      BY DEF RotationKnows, LiveAccess
    <2>1. x # r /\ req'[x] = req[x]
      BY <1>4 DEF Idle
    <2>2. req[x].sid # s /\ req[x].sid # None
      BY <1>1, <2>1 DEF RefreshNeverForks, Rotating, RotationKnows
    <2>3. req[x].pair \in Pairs /\ req[x].pair # t
      BY <1>1, <2>1, <2>2 DEF RotationKnows, TypeOK, Request, Opt
    <2>4. req[x].pc = "rotate" =>
            req[x].seen.current \in Pairs /\ req[x].seen.current # t
      BY <1>1, <2>1, <2>2 DEF RotationKnows, TypeOK, Request, Seen, Opt
    <2>5. \A y \in Pairs : access'[y] > 0 /\ payload'[y].sid = req[x].sid
                              => LiveAccess(y, req[x].sid)
      BY <1>1, <1>2, <2>2 DEF LiveAccess
    <2> QED
      BY <1>2, <1>3, <2>1, <2>2, <2>3, <2>4, <2>5 DEF RotationKnows
  <1>16. RevocationKnows'
    BY <1>1, <1>2, <1>3, <1>4 DEF RevocationKnows, RevocationFacts, Idle, TypeOK, Request, Seen, Opt
  <1>17. RefreshNeverForks'
    BY <1>1, <1>2, <1>4, <1>5 DEF RefreshNeverForks, LiveRefresh, Rotating, Idle
  <1>18. OwnSessionsOnly'
    BY <1>3, <1>4 DEF OwnSessionsOnly, Idle
  <1> QED
    BY <1>7, <1>8, <1>9, <1>10, <1>11, <1>12, <1>13, <1>14, <1>15, <1>16,
       <1>17, <1>18

-----------------------------------------------------------------------------
(* Steps of a revocation. *)

(* A step that only moves one coroutine, and not into a rotation. *)
LEMMA RevocationMove ==
    ASSUME Inv, UNCHANGED <<store, history>>,
           NEW r \in Requests, NEW q \in Request, req' = [req EXCEPT ![r] = q],
           q.pc \notin {"redeemed", "rotate"}, RevocationFacts(q),
           \A s \in q.todo : owner[s] = q.caller
    PROVE  Inv'
  <1> USE DEF Inv, RequestInv
  <1>1. /\ UNCHANGED <<access, refresh, payload, owner>>
        /\ \A x \in Requests : x # r => req'[x] = req[x]
        /\ req'[r] = q
    BY RequestUpdate DEF store, history
  <1>2. StoreInv'
    BY StoreFrame
  <1>3. TypeOK'
    BY RequestUpdate DEF TypeOK, store, history
  <1>4. RotationKnows'
    BY <1>1 DEF RotationKnows, LiveAccess
  <1>5. RevocationKnows'
    BY <1>1 DEF RevocationKnows, RevocationFacts
  <1>6. RefreshNeverForks'
    BY <1>1 DEF RefreshNeverForks, LiveRefresh, Rotating
  <1>7. OwnSessionsOnly'
    BY <1>1 DEF OwnSessionsOnly
  <1> QED
    BY <1>2, <1>3, <1>4, <1>5, <1>6, <1>7

(* A request that has ended is neither rotating nor revoking. *)
LEMMA IdleFacts ==
    RevocationFacts(Idle) /\ Idle.pc = "idle" /\ Idle.todo = {}
  BY DEF RevocationFacts, Idle

(* A request that stops half-way keeps the invariant. *)
LEMMA FailStep ==
    ASSUME Inv, NEW r \in Requests, Fail(r)
    PROVE  Inv'
  BY IdleType, IdleFacts, RevocationMove DEF Fail

(* Accepting the bearer of a revokeSession keeps the invariant. *)
LEMMA AuthorizeRevokeStep ==
    ASSUME Inv, NEW r \in Requests, NEW t \in Pairs, NEW s \in Sids,
           AuthorizeRevoke(r, t, s)
    PROVE  Inv'
  <1> DEFINE q == [Idle EXCEPT !.pc = "owner", !.sid = s,
                               !.caller = payload[t].sub]
  <1>1. payload[t].sub \in Users /\ payload[t].sub # None /\ s # None
    BY NoneAssumption, TTLAssumption
       DEF AuthorizeRevoke, Accepted, Inv, StoreInv, IssuedToOwner, TypeOK,
           Payload, Opt
  <1>2. q \in Request
    BY <1>1 DEF Request, Seen, Opt, Idle, NotSeen
  <1>3. q.pc = "owner" /\ q.todo = {} /\ RevocationFacts(q)
    BY <1>1 DEF RevocationFacts, Idle
  <1> QED
    BY <1>2, <1>3, RevocationMove DEF AuthorizeRevoke

(* The ownership check of revokeSession keeps the invariant. *)
LEMMA CheckOwnerStep ==
    ASSUME Inv, NEW r \in Requests, CheckOwner(r)
    PROVE  Inv'
  <1> DEFINE q == req[r]
             n == [q EXCEPT !.pc = "each", !.sid = None, !.todo = {q.sid}]
  <1>1. q \in Request /\ q.sid \in Sids /\ q.caller # None
    BY DEF CheckOwner, Inv, RequestInv, RevocationKnows, RevocationFacts,
           TypeOK, Request, Opt
  <1>2. CASE OwnedBy(session[q.sid], q.caller)
    <2>1. n \in Request /\ n.pc = "each" /\ n.todo = {q.sid}
              /\ n.caller = q.caller
      BY <1>1 DEF Request, Opt
    <2>2. owner[q.sid] = q.caller
      BY <1>1, <1>2 DEF OwnedBy, HashExists, Inv, StoreInv, HashNamesPair,
         TypeOK, Hash
    <2>3. RevocationFacts(n)
      BY <1>1, <2>1 DEF RevocationFacts
    <2>4. req' = [req EXCEPT ![r] = n]
      BY <1>2 DEF CheckOwner, HandleRevoke
    <2> HIDE DEF n
    <2> QED
      BY <2>1, <2>2, <2>3, <2>4, RevocationMove DEF CheckOwner
  <1>3. CASE ~OwnedBy(session[q.sid], q.caller)
    <2>1. req' = [req EXCEPT ![r] = Idle]
      BY <1>3 DEF CheckOwner
    <2> QED
      BY <2>1, IdleType, IdleFacts, RevocationMove DEF CheckOwner
  <1> QED
    BY <1>2, <1>3

(* The SMEMBERS of revoke_all_user_sessions keeps the invariant. *)
LEMMA ListSessionsStep ==
    ASSUME Inv, NEW r \in Requests, NEW u \in Users, ListSessions(r, u)
    PROVE  Inv'
  <1> DEFINE q == [Idle EXCEPT !.pc = "listed", !.caller = u,
                               !.todo = index[u].ids]
  <1>1. index[u].ids \subseteq Sids /\ \A s \in index[u].ids : owner[s] = u
    BY DEF Inv, StoreInv, IndexOutlives, TypeOK, Index
  <1>2. q \in Request
    BY <1>1 DEF Request, Seen, Opt, Idle, NotSeen
  <1>3. q.pc = "listed" /\ q.todo = index[u].ids /\ q.caller = u
    BY DEF Idle
  <1>4. RevocationFacts(q)
    BY <1>3, NoneAssumption DEF RevocationFacts
  <1>5. req' = [req EXCEPT ![r] = q] /\ UNCHANGED <<store, history>>
    BY DEF ListSessions
  <1> HIDE DEF q
  <1> QED
    BY <1>1, <1>2, <1>3, <1>4, <1>5, RevocationMove

(* What the loop over the sessions leaves behind. *)
LEMMA LoopOnFacts ==
    ASSUME NEW q \in Request, NEW rest \in SUBSET q.todo, q.caller # None
    PROVE  LET n == LoopOn(q, rest)
           IN  /\ n \in Request /\ n.todo \subseteq q.todo
               /\ n.todo # {} => n.caller = q.caller
               /\ n.pc \in {"idle", "each"} /\ RevocationFacts(n)
  <1>1. CASE rest = {}
    BY <1>1, IdleType, IdleFacts DEF LoopOn
  <1>2. CASE rest # {}
    <2> DEFINE n == [q EXCEPT !.pc = "each", !.sid = None, !.seen = NotSeen,
                              !.todo = rest]
    <2>1. n \in Request
      BY DEF Request, Seen, NotSeen, Opt
    <2>2. n.pc = "each" /\ n.todo = rest /\ n.caller = q.caller
      BY DEF Request
    <2>3. RevocationFacts(n)
      BY <2>2 DEF RevocationFacts
    <2> QED
      BY <1>2, <2>1, <2>2, <2>3 DEF LoopOn
  <1> QED
    BY <1>1, <1>2

(* The read of revoke_session keeps the invariant. *)
LEMMA RevokeReadStep ==
    ASSUME Inv, NEW r \in Requests, NEW s \in Sids, RevokeRead(r, s)
    PROVE  Inv'
  <1> DEFINE q == req[r]
             h == session[s]
             n == [q EXCEPT !.pc = "revoke", !.sid = s,
                            !.seen = [user |-> h.user, current |-> h.current]]
  <1>1. /\ q \in Request /\ s \in q.todo /\ q.caller # None
        /\ \A x \in q.todo : owner[x] = q.caller
    BY DEF RevokeRead, Inv, RequestInv, RevocationKnows, RevocationFacts,
           OwnSessionsOnly, TypeOK
  <1>2. CASE HashExists(h)
    <2>1. /\ [user |-> h.user, current |-> h.current] \in Seen
          /\ h.current # None /\ payload[h.current].sid = s
          /\ h.user \in {None, owner[s]}
      BY <1>2 DEF HashExists, Inv, StoreInv, HashNamesPair, TypeOK, Hash, Seen
    <2>2. n \in Request
      BY <1>1, <2>1 DEF Request, Opt
    <2>3. /\ n.pc = "revoke" /\ n.sid = s /\ n.todo = q.todo
          /\ n.caller = q.caller /\ n.seen.user = h.user
          /\ n.seen.current = h.current
      BY <1>1 DEF Request
    <2>4. RevocationFacts(n)
      BY <1>1, <2>1, <2>3, NoneAssumption DEF RevocationFacts
    <2>5. req' = [req EXCEPT ![r] = n] /\ UNCHANGED <<store, history>>
      BY <1>2 DEF RevokeRead
    <2> HIDE DEF n
    <2> QED
      BY <1>1, <2>2, <2>3, <2>4, <2>5, RevocationMove
  <1>3. CASE ~HashExists(h)
    <2> DEFINE m == LoopOn(q, q.todo \ {s})
    <2>1. req' = [req EXCEPT ![r] = m] /\ UNCHANGED <<store, history>>
      BY <1>3 DEF RevokeRead
    <2>2. q.todo \ {s} \in SUBSET q.todo
      OBVIOUS
    <2>3. /\ m \in Request /\ m.todo \subseteq q.todo
          /\ m.todo # {} => m.caller = q.caller
          /\ m.pc \in {"idle", "each"} /\ RevocationFacts(m)
      BY <1>1, <2>2, LoopOnFacts
    <2> HIDE DEF m
    <2> QED
      BY <1>1, <2>1, <2>3, RevocationMove
  <1> QED
    BY <1>2, <1>3

(* The DEL of revoke_all_user_sessions keeps the invariant. *)
LEMMA WipeIndexStep ==
    ASSUME Inv, NEW r \in Requests, WipeIndex(r)
    PROVE  Inv'
  <1> USE DEF Inv, StoreInv, RequestInv
  <1> DEFINE q == req[r]
             u == req[r].caller
             n == LoopOn(q, q.todo)
  <1>1. /\ q \in Request /\ u \in Users /\ u # None
        /\ \A x \in q.todo : owner[x] = u
    BY DEF WipeIndex, RevocationKnows, RevocationFacts, OwnSessionsOnly,
           TypeOK, Request, Opt
  <1>2. /\ n \in Request /\ n.todo \subseteq q.todo
        /\ n.todo # {} => n.caller = u
        /\ n.pc \in {"idle", "each"} /\ RevocationFacts(n)
    BY <1>1, LoopOnFacts
  <1>3. /\ req' = [req EXCEPT ![r] = n]
        /\ UNCHANGED <<access, refresh, payload, session, owner, revoked, lapsed>>
        /\ index' = [index EXCEPT ![u] = NoIndex]
        /\ wiped' = wiped \cup index[u].ids
    BY DEF WipeIndex
  <1> HIDE DEF n
  <1>4. /\ req' \in [Requests -> Request] /\ req'[r] = n
        /\ \A x \in Requests : x # r => req'[x] = req[x]
    BY <1>2, <1>3, RequestUpdate
  <1>5. /\ index'[u].ids = {}
        /\ \A x \in Users : x # u => index'[x] = index[x]
    BY <1>1, <1>3 DEF TypeOK, NoIndex
  <1>6. TypeOK'
    <2>1. NoIndex \in Index /\ index[u].ids \subseteq Sids
      BY <1>1, TTLAssumption DEF NoIndex, Index, TypeOK
    <2> QED
      BY <1>1, <1>3, <1>4, <2>1 DEF TypeOK
  <1>7. IssuedToOwner' /\ HashNamesPair' /\ UserUntilEnd'
    BY <1>3 DEF IssuedToOwner, HashNamesPair, UserUntilEnd, Ended
  <1>8. HashNamesAccess' /\ OneAccessPerSession' /\ LiveTokenUsable'
    BY <1>3 DEF HashNamesAccess, OneAccessPerSession, LiveTokenUsable,
                LiveAccess, Ended
  <1>9. IndexOutlives'
    BY <1>3, <1>5 DEF IndexOutlives
  <1>10. IndexComplete'
    BY <1>1, <1>3, <1>5 DEF IndexComplete, TypeOK, Hash, Opt
  <1>11. RotationKnows'
    BY <1>2, <1>3, <1>4 DEF RotationKnows, LiveAccess
  <1>12. RevocationKnows'
    BY <1>2, <1>3, <1>4 DEF RevocationKnows, RevocationFacts
  <1>13. RefreshNeverForks'
    BY <1>2, <1>3, <1>4 DEF RefreshNeverForks, LiveRefresh, Rotating
  <1>14. OwnSessionsOnly'
    BY <1>1, <1>2, <1>3, <1>4 DEF OwnSessionsOnly
  <1> QED
    BY <1>6, <1>7, <1>8, <1>9, <1>10, <1>11, <1>12, <1>13, <1>14

(* The MULTI of revoke_session keeps the invariant. *)
LEMMA RevokeMultiStep ==
    ASSUME Inv, NEW r \in Requests, Revoke(r)
    PROVE  Inv'
  <1> USE NoneAssumption, TTLAssumption DEF Inv, StoreInv, RequestInv
  <1> DEFINE q == req[r]
             s == req[r].sid
             c == req[r].seen.current
             n == LoopOn(q, q.todo \ {s})
  <1>1. /\ q \in Request /\ q.caller # None
        /\ \A x \in q.todo : owner[x] = q.caller
        /\ s \in q.todo /\ s \in Sids /\ c \in Pairs
        /\ payload[c].sid = s /\ owner[s] # None
    BY DEF Revoke, RevocationKnows, RevocationFacts, OwnSessionsOnly,
           TypeOK, Request, Seen, Opt
  <1>2. /\ n \in Request /\ n.todo \subseteq q.todo
        /\ n.todo # {} => n.caller = q.caller
        /\ n.pc \in {"idle", "each"} /\ RevocationFacts(n)
    <2>1. q.todo \ {s} \in SUBSET q.todo
      OBVIOUS
    <2> QED
      BY <1>1, <2>1, LoopOnFacts
  <1>3. /\ req' = [req EXCEPT ![r] = n]
        /\ UNCHANGED <<payload, owner, lapsed, wiped>>
        /\ revoked' = revoked \cup {s}
    BY DEF Revoke
  <1> HIDE DEF n
  <1>4. /\ req' \in [Requests -> Request] /\ req'[r] = n
        /\ \A x \in Requests : x # r => req'[x] = req[x]
    BY <1>2, <1>3, RequestUpdate
  <1>5. /\ access' \in [Pairs -> 0..AccessTTL]
        /\ refresh' \in [Pairs -> 0..RefreshTTL]
        /\ access'[c] = 0 /\ refresh'[c] = 0
        /\ \A x \in Pairs : x # c => access'[x] = access[x]
                                     /\ refresh'[x] = refresh[x]
    BY <1>1 DEF Revoke, TypeOK
  <1>6. /\ session' \in [Sids -> Hash] /\ session'[s] = NoHash
        /\ \A x \in Sids : x # s => session'[x] = session[x]
    <2>1. NoHash \in Hash
      BY DEF NoHash, Hash, Opt
    <2> QED
      BY <1>1, <2>1 DEF Revoke, TypeOK
  <1>7. /\ index' \in [Users -> Index]
        /\ \A u \in Users : /\ index'[u].ids \subseteq index[u].ids
                            /\ index[u].ids \ {s} \subseteq index'[u].ids
                            /\ index'[u].ids # {} => index'[u].ttl = index[u].ttl
    <2>1. ASSUME NEW u \in Users
          PROVE  LET w == Without(index[u], s)
                 IN  /\ w \in Index
                     /\ w.ids \subseteq index[u].ids
                     /\ index[u].ids \ {s} \subseteq w.ids
                     /\ w.ids # {} => w.ttl = index[u].ttl
      <3>1. index[u] \in Index
        BY DEF TypeOK
      <3>2. CASE index[u].ids \subseteq {s}
        BY <3>1, <3>2 DEF Without, NoIndex, Index
      <3>3. CASE ~(index[u].ids \subseteq {s})
        BY <3>1, <3>3 DEF Without, Index
      <3> QED
        BY <3>2, <3>3
    <2>2. index' = [u \in Users |-> IF u = req[r].seen.user
                                    THEN Without(index[u], s) ELSE index[u]]
      BY DEF Revoke
    <2> QED
      BY <2>1, <2>2 DEF TypeOK
  <1>8. TypeOK'
    BY <1>1, <1>3, <1>4, <1>5, <1>6, <1>7 DEF TypeOK
  <1>9. IssuedToOwner'
    BY <1>3, <1>5 DEF IssuedToOwner
  <1>10. HashNamesPair'
    BY <1>3, <1>6 DEF HashNamesPair, NoHash
  <1>11. UserUntilEnd'
    BY <1>1, <1>3, <1>6 DEF UserUntilEnd, Ended, NoHash
  <1>12. HashNamesAccess' /\ OneAccessPerSession'
    BY <1>3, <1>5, <1>6 DEF HashNamesAccess, OneAccessPerSession, LiveAccess, NoHash
  <1>13. IndexOutlives'
    <2> SUFFICES ASSUME NEW u \in Users, NEW x \in index'[u].ids
                 PROVE  owner[x] = u /\ session'[x].ttl <= index'[u].ttl
      BY <1>3 DEF IndexOutlives
    <2>1. x \in index[u].ids /\ x \in Sids /\ index'[u].ttl = index[u].ttl
      BY <1>7 DEF TypeOK, Index
    <2>2. index[u].ttl \in Nat
      BY DEF TypeOK, Index
    <2> QED
      BY <1>6, <2>1, <2>2 DEF IndexOutlives, NoHash
  <1>14. LiveTokenUsable'
    <2> SUFFICES ASSUME NEW x \in Pairs, refresh'[x] > 0,
                        payload[x].sid \notin Ended'
                 PROVE  session'[payload[x].sid] =
                           [user |-> owner[payload[x].sid], current |-> x,
                            ttl |-> refresh'[x]]
      BY <1>3 DEF LiveTokenUsable
    <2>1. x # c /\ refresh'[x] = refresh[x]
      BY <1>5
    <2>2. payload[x].sid # s /\ payload[x].sid \notin Ended
      BY <1>3 DEF Ended
    <2>3. payload[x].sid \in Sids
      BY <2>1 DEF IssuedToOwner, TypeOK, Payload, Opt
    <2> QED
      BY <1>6, <2>1, <2>2, <2>3 DEF LiveTokenUsable
  <1>15. IndexComplete'
    BY <1>3, <1>6, <1>7 DEF IndexComplete, NoHash, TypeOK, Hash, Opt
  <1>16. RotationKnows'
    BY <1>2, <1>3, <1>4, <1>5
       DEF RotationKnows, LiveAccess, TypeOK, Request, Opt
  <1>17. RevocationKnows'
    BY <1>2, <1>3, <1>4 DEF RevocationKnows, RevocationFacts
  <1>18. RefreshNeverForks'
    BY <1>2, <1>3, <1>4, <1>5 DEF RefreshNeverForks, LiveRefresh, Rotating
  <1>19. OwnSessionsOnly'
    BY <1>1, <1>2, <1>3, <1>4 DEF OwnSessionsOnly
  <1> QED
    BY <1>8, <1>9, <1>10, <1>11, <1>12, <1>13, <1>14, <1>15, <1>16, <1>17,
       <1>18, <1>19

-----------------------------------------------------------------------------
(* Expiry. *)
LEMMA TickStep ==
    ASSUME Inv, Tick
    PROVE  Inv'
  <1> USE NoneAssumption, TTLAssumption DEF Inv, StoreInv, RequestInv
  <1>1. /\ access' \in [Pairs -> 0..AccessTTL]
        /\ refresh' \in [Pairs -> 0..RefreshTTL]
        /\ \A t \in Pairs : /\ access'[t] > 0 => access[t] > 0
                            /\ access[t] = 0 => access'[t] = 0
                            /\ refresh[t] = 0 => refresh'[t] = 0
                            /\ refresh'[t] > 0 => refresh[t] > 1
                                  /\ refresh'[t] = refresh[t] - 1
    BY DEF Tick, Older, TypeOK
  <1>2. \A s \in Sids :
            /\ session'[s] \in Hash /\ session[s].ttl \in Nat
            /\ session[s].ttl <= 1 =>
                  session'[s].user = None /\ session'[s].ttl = 0
            /\ session[s].ttl > 1 =>
                  /\ session'[s].user = session[s].user
                  /\ session'[s].current = session[s].current
                  /\ session'[s].ttl = session[s].ttl - 1
    <2> TAKE s \in Sids
    <2>1. session[s] \in Hash /\ session'[s] = OlderHash(session[s])
      BY DEF Tick, TypeOK
    <2>2. CASE session[s].ttl <= 1
      BY <2>1, <2>2 DEF OlderHash, Hash, NoHash, Opt
    <2>3. CASE session[s].ttl > 1
      BY <2>1, <2>3 DEF OlderHash, Hash
    <2> QED
      BY <2>1, <2>2, <2>3 DEF Hash
  <1>3. \A u \in Users :
            /\ index'[u] \in Index
            /\ index[u].ttl <= 1 => index'[u].ids = {}
            /\ index[u].ttl > 1 => index'[u].ids = index[u].ids
                                   /\ index'[u].ttl = index[u].ttl - 1
    <2> TAKE u \in Users
    <2>1. index[u] \in Index /\ index'[u] = OlderIndex(index[u])
      BY DEF Tick, TypeOK
    <2> QED
      BY <2>1 DEF OlderIndex, Index, NoIndex
  <1>4. /\ UNCHANGED <<payload, req, owner, revoked, wiped>>
        /\ lapsed' = lapsed \cup {s \in Sids : session[s].ttl = 1}
    BY DEF Tick
  <1>5. TypeOK'
    <2>1. session' \in [Sids -> Hash] /\ index' \in [Users -> Index]
      BY <1>2, <1>3 DEF Tick
    <2> QED
      BY <1>1, <1>4, <2>1 DEF TypeOK
  <1>6. IssuedToOwner'
    BY <1>1, <1>4 DEF IssuedToOwner
  <1>7. HashNamesPair'
    <2> SUFFICES ASSUME NEW x \in Sids
                 PROVE  LET h == session'[x]
                        IN  IF h.ttl = 0 THEN h = NoHash
                            ELSE /\ h.current # None
                                 /\ payload[h.current].sid = x
                                 /\ h.user # None => h.user = owner[x]
      BY <1>4 DEF HashNamesPair
    <2>1. CASE session[x].ttl <= 1
      <3>1. session'[x] = NoHash
        BY <2>1 DEF Tick, OlderHash, TypeOK, Hash
      <3> QED
        BY <3>1 DEF NoHash
    <2>2. CASE session[x].ttl > 1
      BY <1>2, <2>2 DEF HashNamesPair
    <2> QED
      BY <1>2, <2>1, <2>2
  <1>8. UserUntilEnd'
    <2> SUFFICES ASSUME NEW s \in Sids
                 PROVE  /\ s \in Ended' => owner[s] # None /\ session'[s].user = None
                        /\ s \notin Ended' => session'[s].user = owner[s]
      BY <1>4 DEF UserUntilEnd
    <2>1. session[s] \in Hash
      BY DEF TypeOK
    <2>2. session[s].ttl # 0 => payload[session[s].current].sid = s
                                /\ session[s].current \in Pairs
      BY <2>1 DEF HashNamesPair, Hash, Opt
    <2>3. session[s].ttl # 0 => owner[s] # None
      BY <2>2 DEF IssuedToOwner
    <2>4. session[s].ttl = 0 => session[s] = NoHash
      BY DEF HashNamesPair
    <2>5. s \in Ended' <=> s \in Ended \/ session[s].ttl = 1
      BY <1>4 DEF Ended
    <2>6. CASE session[s].ttl = 0
      BY <1>2, <2>4, <2>5, <2>6 DEF UserUntilEnd, NoHash
    <2>7. CASE session[s].ttl = 1
      BY <1>2, <2>3, <2>5, <2>7
    <2>8. CASE session[s].ttl > 1
      BY <1>2, <2>5, <2>8 DEF UserUntilEnd
    <2> QED
      BY <2>1, <2>6, <2>7, <2>8 DEF Hash
  <1>9. HashNamesAccess' /\ OneAccessPerSession'
    BY <1>1, <1>2, <1>4 DEF HashNamesAccess, OneAccessPerSession, LiveAccess,
       TypeOK, Hash
  <1>10. IndexOutlives'
    <2> SUFFICES ASSUME NEW u \in Users, NEW x \in index'[u].ids
                 PROVE  owner[x] = u /\ session'[x].ttl <= index'[u].ttl
      BY <1>4 DEF IndexOutlives
    <2>1. /\ index[u].ttl \in Nat /\ index[u].ttl > 1
          /\ x \in index[u].ids /\ x \in Sids
          /\ index'[u].ttl = index[u].ttl - 1
      BY <1>3 DEF TypeOK, Index
    <2>2. owner[x] = u /\ session[x].ttl <= index[u].ttl
             /\ session[x].ttl \in Nat
      BY <2>1 DEF IndexOutlives, TypeOK, Hash
    <2> QED
      BY <1>2, <2>1, <2>2
  <1>11. LiveTokenUsable'
    <2> SUFFICES ASSUME NEW t \in Pairs, refresh'[t] > 0,
                        payload[t].sid \notin Ended'
                 PROVE  session'[payload[t].sid] =
                           [user |-> owner[payload[t].sid], current |-> t,
                            ttl |-> refresh'[t]]
      BY <1>4 DEF LiveTokenUsable
    <2>1. refresh[t] > 1 /\ refresh'[t] = refresh[t] - 1
          /\ refresh[t] \in Nat
      BY <1>1 DEF TypeOK
    <2>2. payload[t].sid \notin Ended /\ payload[t].sid \in Sids
      BY <1>4, <2>1 DEF Ended, IssuedToOwner, TypeOK, Payload, Opt
    <2>3. session[payload[t].sid] = [user |-> owner[payload[t].sid],
                                     current |-> t, ttl |-> refresh[t]]
      BY <2>1, <2>2 DEF LiveTokenUsable
    <2>4. session'[payload[t].sid] = OlderHash(session[payload[t].sid])
      BY <2>2 DEF Tick
    <2> QED
      BY <2>1, <2>3, <2>4 DEF OlderHash
  <1>12. IndexComplete'
    <2> SUFFICES ASSUME NEW s \in Sids, session'[s].user # None
                 PROVE  s \in index'[session'[s].user].ids \cup wiped
      BY <1>4 DEF IndexComplete
    <2>1. /\ session[s].ttl > 1 /\ session'[s].user = session[s].user
          /\ session[s].user \in Users /\ session[s].ttl \in Nat
      BY <1>2 DEF TypeOK, Hash, Opt
    <2>2. s \in index[session[s].user].ids \cup wiped
      BY <2>1 DEF IndexComplete
    <2>3. s \in index[session[s].user].ids =>
            session[s].ttl <= index[session[s].user].ttl
            /\ index[session[s].user].ttl \in Nat
      BY <2>1 DEF IndexOutlives, TypeOK, Index
    <2> QED
      BY <1>3, <2>1, <2>2, <2>3
  <1>13. RotationKnows'
    BY <1>1, <1>4 DEF RotationKnows, LiveAccess, TypeOK, Request, Opt
  <1>14. RevocationKnows' /\ OwnSessionsOnly'
    BY <1>4 DEF RevocationKnows, RevocationFacts, OwnSessionsOnly
  <1>15. RefreshNeverForks'
    BY <1>1, <1>4 DEF RefreshNeverForks, LiveRefresh, Rotating, TypeOK
  <1> QED
    BY <1>5, <1>6, <1>7, <1>8, <1>9, <1>10, <1>11, <1>12, <1>13, <1>14, <1>15

-----------------------------------------------------------------------------
(* Every step keeps the invariant. *)
LEMMA StepInv == Inv /\ [Next]_vars => Inv'
  <1> SUFFICES ASSUME Inv, [Next]_vars PROVE Inv'
    OBVIOUS
  <1>1. CASE \E u \in Users, s \in Sids, t \in Pairs : CreateSession(u, s, t)
    BY <1>1, CreateSessionStep
  <1>2. ASSUME NEW r \in Requests, Serve(r) PROVE Inv'
    <2>1. CASE \E t \in Pairs : GetSessionByRefreshToken(r, t)
      BY <2>1, RedeemStep
    <2>2. CASE RotateRead(r)
      BY <2>2, RotateReadStep
    <2>3. CASE \E t \in Pairs : Rotate(r, t)
      BY <2>3, RotateStep
    <2>4. CASE \E t \in Pairs, s \in Sids : AuthorizeRevoke(r, t, s)
      BY <2>4, AuthorizeRevokeStep
    <2>5. CASE CheckOwner(r)
      BY <2>5, CheckOwnerStep
    <2>6. CASE \E u \in Users : ListSessions(r, u)
      BY <2>6, ListSessionsStep
    <2>7. CASE WipeIndex(r)
      BY <2>7, WipeIndexStep
    <2>8. CASE \E s \in Sids : RevokeRead(r, s)
      BY <2>8, RevokeReadStep
    <2>9. CASE Revoke(r)
      BY <2>9, RevokeMultiStep
    <2>10. CASE Fail(r)
      BY <2>10, FailStep
    <2> QED
      BY <1>2, <2>1, <2>2, <2>3, <2>4, <2>5, <2>6, <2>7, <2>8, <2>9, <2>10
         DEF Serve
  <1>3. CASE Tick
    BY <1>3, TickStep
  <1>4. CASE UNCHANGED vars
    <2>1. UNCHANGED <<store, history>> /\ req' = req
      BY <1>4 DEF vars
    <2>2. StoreInv'
      BY <2>1, StoreFrame DEF Inv
    <2>3. TypeOK'
      BY <2>1 DEF Inv, TypeOK, store, history
    <2>4. RequestInv'
      BY <2>1 DEF Inv, RequestInv, RotationKnows, RevocationKnows,
         RevocationFacts, RefreshNeverForks, OwnSessionsOnly, LiveAccess,
         LiveRefresh, Rotating, store, history
    <2> QED
      BY <2>2, <2>3, <2>4 DEF Inv
  <1> QED
    BY <1>1, <1>2, <1>3, <1>4 DEF Next

(* The inductive invariant holds in every reachable state. *)
THEOREM Invariance == Spec => []Inv
  BY InitInv, StepInv, PTL DEF Spec

(* Every TTL, hash, index and coroutine state the code produces has its
   type. *)
THEOREM TypeCorrect == Spec => []TypeOK
  BY Invariance, PTL DEF Inv

(* The GETDEL makes a session's chain of refresh tokens linear, however many
   refreshes, logouts, resets and failures overlap. *)
THEOREM NeverForks == Spec => []RefreshNeverForks
  BY Invariance, PTL DEF Inv, RequestInv

(* rotate_session leaves a session with one usable access token. *)
THEOREM OneAccess == Spec => []OneAccessPerSession
  BY Invariance, PTL DEF Inv, StoreInv

(* A live refresh token of a session that has not ended finds the hash that
   rotate_session needs. *)
THEOREM TokenUsable == Spec => []LiveTokenUsable
  BY Invariance, PTL DEF Inv, StoreInv

(* sessions:{user} lists the renewable sessions and outlives them. *)
THEOREM IndexListsAll == Spec => []IndexComplete
  BY Invariance, PTL DEF Inv, StoreInv

(* An accepted token, and a refresh token that works, name the user who opened
   the session. *)
THEOREM BearerNamed == Spec => []BearerIsOwner
  <1>1. Inv => BearerIsOwner
    BY DEF Inv, StoreInv, IssuedToOwner, BearerIsOwner, Accepted
  <1> QED
    BY <1>1, Invariance, PTL

(* A request revokes only sessions of its caller. *)
THEOREM OnlyOwn == Spec => []OwnSessionsOnly
  BY Invariance, PTL DEF Inv, RequestInv

-----------------------------------------------------------------------------
(* No rotation starts after the end of its session. *)

EntersRotation ==
    \A r \in Requests :
        req'[r].pc = "rotate" /\ req[r].pc # "rotate" => req'[r].sid \notin Ended

(* A rotation that passes its read does so for a session that has not
   ended. *)
LEMMA RotationEntry ==
    ASSUME Inv, [Next]_vars PROVE EntersRotation
  <1> SUFFICES ASSUME NEW x \in Requests, req'[x].pc = "rotate",
                      req[x].pc # "rotate"
               PROVE  req'[x].sid \notin Ended
    BY DEF EntersRotation
  <1>1. req \in [Requests -> Request]
    BY DEF Inv, TypeOK
  <1>2. PICK r \in Requests : Serve(r)
    BY DEF Next, vars, CreateSession, Tick
  <1>3. ASSUME NEW q, req' = [req EXCEPT ![r] = q], q.pc # "rotate"
        PROVE  FALSE
    BY <1>1, <1>3
  <1>4. RotateRead(r)
    <2>1. Idle.pc = "idle"
      BY DEF Idle
    <2>2. ~ \E t \in Pairs : GetSessionByRefreshToken(r, t)
      <3>1. \A t \in Pairs : [Idle EXCEPT !.pc = "redeemed", !.pair = t,
                                 !.sid = payload[t].sid].pc = "redeemed"
        BY DEF Idle
      <3> QED
        BY <1>3, <3>1 DEF GetSessionByRefreshToken
    <2>3. ~ \E t \in Pairs : Rotate(r, t)
      BY <1>3, <2>1 DEF Rotate, NewClaims
    <2>4. ~ \E t \in Pairs, s \in Sids : AuthorizeRevoke(r, t, s)
      <3>1. \A t \in Pairs, s \in Sids :
               [Idle EXCEPT !.pc = "owner", !.sid = s,
                            !.caller = payload[t].sub].pc = "owner"
        BY DEF Idle
      <3> QED
        BY <1>3, <3>1 DEF AuthorizeRevoke
    <2>5. ~CheckOwner(r)
      <3>1. \A s \in {req[r].sid} : [req[r] EXCEPT !.pc = "each", !.sid = None,
                                        !.todo = {s}].pc = "each"
        BY <1>1 DEF Request
      <3> QED
        BY <1>3, <2>1, <3>1 DEF CheckOwner, HandleRevoke
    <2>6. ~ \E u \in Users : ListSessions(r, u)
      BY <1>3 DEF ListSessions, Idle
    <2>7. \A rest \in SUBSET req[r].todo : LoopOn(req[r], rest).pc # "rotate"
      BY <1>1, <2>1 DEF LoopOn, Request
    <2>8. ~WipeIndex(r)
      BY <1>3, <2>7 DEF WipeIndex
    <2>9. ~ \E s \in Sids : RevokeRead(r, s)
      <3> SUFFICES ASSUME NEW s \in Sids, RevokeRead(r, s) PROVE FALSE
        OBVIOUS
      <3>1. [req[r] EXCEPT !.pc = "revoke", !.sid = s,
                !.seen = [user |-> session[s].user,
                          current |-> session[s].current]].pc = "revoke"
        BY <1>1 DEF Request
      <3>2. LoopOn(req[r], req[r].todo \ {s}).pc # "rotate"
        BY <2>7
      <3> QED
        BY <1>3, <3>1, <3>2 DEF RevokeRead
    <2>10. ~Revoke(r)
      <3>1. LoopOn(req[r], req[r].todo \ {req[r].sid}).pc # "rotate"
        BY <2>7
      <3> QED
        BY <1>3, <3>1 DEF Revoke
    <2>11. ~Fail(r)
      BY <1>3, <2>1 DEF Fail
    <2> QED
      BY <1>2, <2>2, <2>3, <2>4, <2>5, <2>6, <2>8, <2>9, <2>10, <2>11
         DEF Serve
  <1>5. x = r /\ req'[r].sid = req[r].sid /\ Rotatable(session[req[r].sid])
    BY <1>1, <1>4 DEF RotateRead, Request, Idle
  <1>6. req[r].sid \in Sids
    BY <1>4, <1>1 DEF RotateRead, Inv, RequestInv, RotationKnows, Request, Opt
  <1> QED
    BY <1>5, <1>6 DEF Rotatable, Inv, StoreInv, UserUntilEnd

(* rotate_session does not pass its HGETALL once the session has been revoked
   or has expired. *)
THEOREM StopAtEnd == Spec => RenewalsStopAtEnd
  <1>1. Inv /\ [Next]_vars => [EntersRotation]_vars
    BY RotationEntry
  <1>2. RenewalsStopAtEnd <=> [][EntersRotation]_vars
    BY DEF RenewalsStopAtEnd, EntersRotation
  <1> QED
    BY <1>1, <1>2, Invariance, PTL DEF Spec

-----------------------------------------------------------------------------
(* TokenStore implements RefreshLineage. *)

(* The empty store maps to the initial abstract state. *)
LEMMA LineageInit == Init => Lineage!Init
  BY DEF Init, Lineage!Init, NoPayload

(* A step that issues no pair and sets no refresh key only drops tokens. *)
LEMMA OnlyDrops ==
    ASSUME payload' = payload,
           \A t \in Pairs : refresh'[t] > 0 => refresh[t] > 0
    PROVE  Lineage!Next
  <1>1. PICK T \in SUBSET Pairs : \A t \in Pairs : t \in T <=> ~(refresh'[t] > 0)
    <2>1. {t \in Pairs : ~(refresh'[t] > 0)} \in SUBSET Pairs
      OBVIOUS
    <2> QED
      BY <2>1
  <1>2. Lineage!Drop(T)
    BY <1>1 DEF Lineage!Drop
  <1> QED
    BY <1>2 DEF Lineage!Next

(* A step that issues one pair to a session without a live token. *)
LEMMA HandsOut ==
    ASSUME NEW s \in Sids, NEW t \in Pairs,
           payload[t].sid = None, payload'[t].sid = s, refresh'[t] > 0,
           \A x \in Pairs : x # t => payload'[x].sid = payload[x].sid
                                     /\ refresh'[x] = refresh[x],
           \A x \in Pairs : refresh[x] > 0 => payload[x].sid # s
    PROVE  Lineage!Next
  <1>0. s # None
    BY NoneAssumption
  <1>1. Lineage!Hand(s, t)
    BY <1>0 DEF Lineage!Hand
  <1> QED
    BY <1>1 DEF Lineage!Next

(* Every step of the store maps to an abstract step or a stutter. *)
LEMMA LineageStep ==
    ASSUME Inv, [Next]_vars
    PROVE  [Lineage!Next]_(Lineage!vars)
  <1>1. CASE UNCHANGED <<payload, refresh>>
    BY <1>1, OnlyDrops
  <1>2. ASSUME NEW u \in Users, NEW s \in Sids, NEW t \in Pairs,
               CreateSession(u, s, t)
        PROVE  Lineage!Next
    <2>1. /\ payload[t].sid = None /\ owner[s] = None
          /\ payload'[t].sid = s /\ refresh'[t] > 0
          /\ \A x \in Pairs : x # t => payload'[x] = payload[x]
                                       /\ refresh'[x] = refresh[x]
      BY <1>2, TTLAssumption
         DEF CreateSession, FreshPair, FreshSid, Inv, TypeOK
    <2>2. \A x \in Pairs : payload[x].sid # s
      BY <2>1, NoneAssumption DEF Inv, StoreInv, IssuedToOwner
    <2> QED
      BY <2>1, <2>2, HandsOut
  <1>3. ASSUME NEW r \in Requests, NEW t \in Pairs, Rotate(r, t)
        PROVE  Lineage!Next
    <2>1. /\ payload[t].sid = None /\ req[r].pair \in Pairs
          /\ req[r].sid \in Sids /\ req[r].pc = "rotate"
          /\ refresh[req[r].pair] = 0 /\ req[r].pair # t
      BY <1>3 DEF Rotate, NewClaims, FreshPair, Inv, RequestInv, RotationKnows, TypeOK,
         Request, Opt
    <2>2. /\ payload'[t].sid = req[r].sid /\ refresh'[t] > 0
          /\ \A x \in Pairs : x # t => payload'[x] = payload[x]
                                       /\ refresh'[x] = refresh[x]
      BY <1>3, <2>1, TTLAssumption DEF Rotate, NewClaims, Inv, TypeOK
    <2>3. \A x \in Pairs : refresh[x] > 0 => payload[x].sid # req[r].sid
      BY <2>1 DEF Inv, RequestInv, RefreshNeverForks, LiveRefresh, Rotating
    <2> QED
      BY <2>1, <2>2, <2>3, HandsOut
  <1>4. ASSUME NEW r \in Requests, NEW t \in Pairs,
               GetSessionByRefreshToken(r, t)
        PROVE  Lineage!Next
    <2>1. /\ payload' = payload
          /\ \A x \in Pairs : refresh'[x] > 0 => refresh[x] > 0
      BY <1>4 DEF GetSessionByRefreshToken, GetDel, Inv, TypeOK
    <2> QED
      BY <2>1, OnlyDrops
  <1>5. ASSUME NEW r \in Requests, Revoke(r)
        PROVE  Lineage!Next
    <2>1. /\ payload' = payload
          /\ \A x \in Pairs : refresh'[x] > 0 => refresh[x] > 0
      BY <1>5 DEF Revoke, Inv, TypeOK
    <2> QED
      BY <2>1, OnlyDrops
  <1>6. CASE Tick
    <2>1. /\ payload' = payload
          /\ \A x \in Pairs : refresh'[x] > 0 => refresh[x] > 0
      BY <1>6 DEF Tick, Older, Inv, TypeOK
    <2> QED
      BY <2>1, OnlyDrops
  <1>7. ASSUME NEW r \in Requests, Serve(r)
        PROVE  \/ \E t \in Pairs : GetSessionByRefreshToken(r, t)
               \/ \E t \in Pairs : Rotate(r, t)
               \/ Revoke(r)
               \/ UNCHANGED <<payload, refresh>>
    BY <1>7 DEF Serve, RotateRead, AuthorizeRevoke, CheckOwner, ListSessions,
       WipeIndex, RevokeRead, Fail, store
  <1>8. CASE UNCHANGED vars
    BY <1>1, <1>8 DEF vars, store
  <1> QED
    BY <1>1, <1>2, <1>3, <1>4, <1>5, <1>6, <1>7, <1>8 DEF Next

(* The detailed store implements the abstract promise about refresh tokens:
   one at a time per session, handed out once, never back from the dead. *)
THEOREM Refinement == Spec => RefinesLineage
  BY LineageInit, LineageStep, Invariance, PTL
     DEF Spec, RefinesLineage, Lineage!Spec
=============================================================================
