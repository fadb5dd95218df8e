-------------------------- MODULE AuthServiceProofs --------------------------
(***************************************************************************)
(* Proofs about AuthService, for any number of users, sessions, token      *)
(* pairs, overlapping requests and passwords.  The requests on both stores *)
(* are steps of TokenStore with a transaction beside them, so everything   *)
(* TokenStoreProofs shows of Redis holds here too.                         *)
(***************************************************************************)
EXTENDS AuthService, TokenStoreProofs

-----------------------------------------------------------------------------
(* The inductive invariant. *)

Transaction ==
    [pc : {"none", "insert", "session", "update", "revoke",
           "revoking", "audit", "commit"},
     user : Opt(Users), saw : 0..MaxPassword, new : 0..MaxPassword]

(* What a handler knows at each await.  A password it has written is the next
   one; it is in the token store only while it revokes sessions. *)
TxFacts(x, q) ==
    /\ x.pc = "none" => x = NoTx
    /\ x.pc # "none" => x.user \in Users
    /\ x.pc \in {"insert", "session", "update"} => x.new = 0
    /\ x.pc \in {"session", "update"} => pw[x.user] > 0
    /\ x.pc \in {"revoke", "revoking", "audit"} => x.new > 1
    /\ x.new > 0 => x.new = pw[x.user] + 1
    /\ x.pc \notin {"none", "revoking"} => q = Idle
    /\ x.pc = "revoking" => /\ q.pc \in {"listed", "each", "revoke"}
                            /\ q.caller = x.user

HandlersKnow == \A r \in Requests : TxFacts(tx[r], req[r])

(* The users row, or the unique index on email, admits one writer. *)
OneWriter ==
    \A p, q \in Requests :
        p # q /\ tx[p].new > 0 /\ tx[q].new > 0 => tx[p].user # tx[q].user

(* An account is one successful registration. *)
Accounts == \A u \in Users : welcomed[u] = IF pw[u] > 0 THEN 1 ELSE 0

(* Redis has sessions of registered users only. *)
OwnersRegistered == \A s \in Sids : owner[s] # None => pw[owner[s]] > 0

(* Only sessions that were opened were ever in a user's set. *)
WipedOpened == \A s \in wiped : owner[s] # None

(* A user whose resets and logins did not overlap: a login that is about to
   open its session has seen the current password; *)
LoginsCurrent(u) ==
    \A q \in LoggingIn(u) : tx[q].saw = pw[u] /\ Resetting(u) = {}

(* a reset still has in its list every session that has not ended; *)
ResetCoversAll(u) ==
    \A r \in Resetting(u) : \A s \in Sids :
        owner[s] = u => s \in Ended \cup req[r].todo

(* a session that was taken off the user's set has ended, or the reset that
   took it off is still at work; *)
WipedAreListed(u) ==
    \A s \in wiped : owner[s] = u /\ s \notin Ended =>
        \E r \in Requests : tx[r].user = u /\ tx[r].pc = "revoking"

(* and a session that goes on was opened with the current password. *)
SessionsCurrent(u) ==
    \A s \in Sids : owner[s] = u => cred[s] = pw[u] \/ s \in Ended

Settled(u) ==
    LoginsCurrent(u) /\ ResetCoversAll(u) /\ WipedAreListed(u)
        /\ SessionsCurrent(u)

Relogin == \A u \in Users \ unsettled : Settled(u)

DatabaseInv ==
    /\ HandlersKnow
    /\ OneWriter
    /\ Accounts
    /\ OwnersRegistered
    /\ WipedOpened
    /\ Relogin

AuthInv == Inv /\ AuthTypeOK /\ DatabaseInv

-----------------------------------------------------------------------------
(* The fields of a request without a transaction. *)
LEMMA NoTxType ==
    /\ NoTx \in Transaction /\ NoTx.pc = "none" /\ NoTx.user = None
    /\ NoTx.new = 0 /\ NoTx.saw = 0
  BY MaxPasswordAssumption DEF NoTx, Transaction, Opt

(* A request without a transaction knows nothing of the users table. *)
LEMMA NoTxFacts == \A q : TxFacts(NoTx, q)
  <1>1. ~(NoTx.new > 0)
    BY NoTxType
  <1> QED
    BY <1>1, NoTxType DEF TxFacts

(* Nobody is registered, logged in or resetting at the start. *)
LEMMA AuthInitInv == AuthInit => AuthInv
  <1> SUFFICES ASSUME AuthInit PROVE AuthInv
    OBVIOUS
  <1>1. Inv /\ TypeOK
    BY InitInv DEF AuthInit, Inv
  <1>2. /\ \A u \in Users : pw[u] = 0 /\ welcomed[u] = 0
        /\ \A r \in Requests : tx[r] = NoTx
        /\ \A s \in Sids : owner[s] = None
        /\ wiped = {}
    BY DEF AuthInit, Init
  <1>3. tx \in [Requests -> Transaction]
    BY NoTxType DEF AuthInit
  <1>4. AuthTypeOK
    BY <1>1, <1>3, MaxPasswordAssumption DEF AuthInit, AuthTypeOK, Transaction
  <1>5. HandlersKnow
    BY <1>2, NoTxFacts DEF HandlersKnow
  <1>6. ~(0 > 0)
    OBVIOUS
  <1>7. OneWriter /\ Accounts /\ OwnersRegistered /\ WipedOpened
    BY <1>2, <1>6, NoTxType
       DEF OneWriter, Accounts, OwnersRegistered, WipedOpened
  <1>8. Relogin
    BY <1>2, NoTxType, NoneAssumption
       DEF Relogin, Settled, LoginsCurrent, ResetCoversAll, WipedAreListed,
           SessionsCurrent, LoggingIn, Resetting
  <1> QED
    BY <1>1, <1>4, <1>5, <1>7, <1>8 DEF AuthInv, DatabaseInv

(* A step of one handler leaves the others where they are. *)
LEMMA TxUpdate ==
    ASSUME AuthTypeOK, NEW r \in Requests, NEW y \in Transaction,
           tx' = [tx EXCEPT ![r] = y]
    PROVE  /\ tx' \in [Requests -> Transaction]
           /\ tx'[r] = y
           /\ \A q \in Requests : q # r => tx'[q] = tx[q]
  BY DEF AuthTypeOK, Transaction

(* A handler's state has its type, and its facts. *)
LEMMA HandlerFacts ==
    ASSUME AuthInv, NEW r \in Requests
    PROVE  /\ tx[r] \in Transaction /\ req[r] \in Request
           /\ TxFacts(tx[r], req[r])
           /\ tx[r].new \in Nat /\ tx[r].user \in Opt(Users)
           /\ \A u \in Users : pw[u] \in Nat /\ pw[u] <= MaxPassword
  BY MaxPasswordAssumption DEF AuthInv, Inv, TypeOK, AuthTypeOK, Transaction,
     DatabaseInv, HandlersKnow

-----------------------------------------------------------------------------
(* Steps that leave the database alone. *)

(* A step of Redis, or of a request without a transaction. *)
LEMMA QuietStep ==
    ASSUME AuthInv, Inv', UNCHANGED <<database, owner, wiped>>,
           \A s \in Ended : s \in Ended',
           \A r \in Requests : tx[r] # NoTx => req'[r] = req[r]
    PROVE  AuthInv'
  <1>1. UNCHANGED <<pw, tx, cred, welcomed, unsettled>>
    BY DEF database
  <1>2. AuthTypeOK'
    BY <1>1 DEF AuthInv, AuthTypeOK, Inv
  <1>3. HandlersKnow'
    <2> SUFFICES ASSUME NEW r \in Requests PROVE TxFacts(tx[r], req[r])'
      BY DEF HandlersKnow
    <2>1. TxFacts(tx[r], req[r])
      BY HandlerFacts
    <2>2. CASE tx[r] = NoTx
      BY <1>1, <2>2, NoTxType DEF TxFacts
    <2>3. CASE tx[r] # NoTx
      BY <1>1, <2>1, <2>3 DEF TxFacts
    <2> QED
      BY <2>2, <2>3
  <1>4. OneWriter' /\ Accounts' /\ OwnersRegistered' /\ WipedOpened'
    BY <1>1 DEF AuthInv, DatabaseInv, OneWriter, Accounts, OwnersRegistered,
       WipedOpened
  <1>5. Relogin'
    <2> SUFFICES ASSUME NEW u \in Users \ unsettled PROVE Settled(u)'
      BY <1>1 DEF Relogin
    <2>1. Settled(u)
      BY DEF AuthInv, DatabaseInv, Relogin
    <2>2. LoginsCurrent(u)'
      BY <1>1, <2>1 DEF Settled, LoginsCurrent, LoggingIn, Resetting
    <2>3. ResetCoversAll(u)'
      <3>1. \A r \in Requests : tx[r].pc \in {"revoking", "audit", "commit"} =>
               req'[r] = req[r]
        BY NoTxType
      <3> QED
        BY <1>1, <2>1, <3>1 DEF Settled, ResetCoversAll, Resetting
    <2>4. WipedAreListed(u)' /\ SessionsCurrent(u)'
      BY <1>1, <2>1 DEF Settled, WipedAreListed, SessionsCurrent
    <2> QED
      BY <2>2, <2>3, <2>4 DEF Settled
  <1> QED
    BY <1>2, <1>3, <1>4, <1>5 DEF AuthInv, DatabaseInv

(* refreshToken, revokeSession, and requests that stop. *)
LEMMA StoreOnlyStep ==
    ASSUME AuthInv, NEW r \in Requests, StoreOnly(r)
    PROVE  AuthInv' /\ Next
  <1>1. Serve(r)
    BY DEF StoreOnly, RefreshMutation, RevokeMutation, Serve
  <1>2. Inv'
    BY <1>1, StepInv DEF Next, AuthInv
  <1>3. /\ UNCHANGED <<owner, wiped, lapsed>>
        /\ \A s \in revoked : s \in revoked'
    BY DEF StoreOnly, RefreshMutation, RevokeMutation, RotateRead, Rotate,
       GetSessionByRefreshToken, AuthorizeRevoke, CheckOwner, RevokeRead,
       Revoke, Fail, history
  <1>4. \A q \in Requests : q # r => req'[q] = req[q]
    <2>1. req \in [Requests -> Request]
      BY DEF AuthInv, Inv, TypeOK
    <2> QED
      BY <2>1 DEF StoreOnly, RefreshMutation, RevokeMutation, RotateRead,
         Rotate, GetSessionByRefreshToken, AuthorizeRevoke, CheckOwner,
         RevokeRead, Revoke, Fail
  <1>5. UNCHANGED database /\ tx[r] = NoTx
    BY DEF StoreOnly
  <1>6. \A s \in Ended : s \in Ended'
    BY <1>3 DEF Ended
  <1>7. \A q \in Requests : tx[q] # NoTx => req'[q] = req[q]
    BY <1>4, <1>5
  <1> QED
    BY <1>1, <1>2, <1>3, <1>5, <1>6, <1>7, QuietStep DEF Next

(* Keys that expire. *)
LEMMA ExpiryStep ==
    ASSUME AuthInv, Tick, UNCHANGED database
    PROVE  AuthInv'
  <1>1. Inv'
    BY StepInv DEF Next, AuthInv
  <1>2. UNCHANGED <<owner, wiped, req>> /\ \A s \in Ended : s \in Ended'
    BY DEF Tick, Ended
  <1> QED
    BY <1>1, <1>2, QuietStep

-----------------------------------------------------------------------------
(* Steps of a handler that commit nothing. *)

(* The transaction x resets the password of u and has listed the sessions. *)
Resets(x, u) ==
    x.user = u /\ x.new > 1 /\ x.pc \in {"revoking", "audit", "commit"}

(* A handler moves: the conditions under which that keeps the invariant. *)
LEMMA TxMove ==
    ASSUME AuthInv, Inv', NEW r \in Requests, NEW y \in Transaction,
           tx' = [tx EXCEPT ![r] = y],
           UNCHANGED <<owner, pw, cred, welcomed>>,
           \A s \in Ended : s \in Ended',
           \A q \in Requests : q # r => req'[q] = req[q],
           unsettled' \in SUBSET Users, \A u \in unsettled : u \in unsettled',
           \A s \in wiped' : owner[s] # None,
           TxFacts(y, req'[r]),
           y.new > 0 => y.user = tx[r].user /\ (RowFree(r) \/ tx[r].new > 0),
           \A u \in Users \ unsettled' :
              /\ y.user = u /\ y.pc = "session" =>
                   y.saw = pw[u] /\ Resetting(u) = {}
              /\ Resets(y, u) =>
                   /\ \A s \in Sids : owner[s] = u => s \in Ended' \cup req'[r].todo
                   /\ r \in Resetting(u) \/ LoggingIn(u) = {}
              /\ \/ /\ wiped' = wiped
                    /\ tx[r].user = u /\ tx[r].pc = "revoking" =>
                         y.user = u /\ y.pc = "revoking"
                 \/ WipedAreListed(u)'
    PROVE  AuthInv'
  <1>1. /\ tx' \in [Requests -> Transaction] /\ tx'[r] = y
        /\ \A q \in Requests : q # r => tx'[q] = tx[q]
    BY TxUpdate DEF AuthInv
  <1>2. AuthTypeOK'
    BY <1>1 DEF AuthInv, AuthTypeOK, Inv, Transaction
  <1>3. HandlersKnow'
    <2> SUFFICES ASSUME NEW q \in Requests PROVE TxFacts(tx[q], req[q])'
      BY DEF HandlersKnow
    <2>1. CASE q = r
      BY <1>1, <2>1 DEF TxFacts
    <2>2. CASE q # r
      <3>1. TxFacts(tx[q], req[q]) /\ tx'[q] = tx[q] /\ req'[q] = req[q]
        BY <1>1, <2>2, HandlerFacts
      <3> QED
        BY <3>1 DEF TxFacts
    <2> QED
      BY <2>1, <2>2
  <1>4. OneWriter'
    <2>1. \A q \in Requests : q # r /\ y.new > 0 /\ tx[q].new > 0 =>
             tx[q].user # y.user
      BY DEF AuthInv, DatabaseInv, OneWriter, RowFree
    <2> QED
      BY <1>1, <2>1 DEF AuthInv, DatabaseInv, OneWriter
  <1>5. Accounts' /\ OwnersRegistered' /\ WipedOpened'
    BY DEF AuthInv, DatabaseInv, Accounts, OwnersRegistered, WipedOpened
  <1>6. Relogin'
    <2> SUFFICES ASSUME NEW u \in Users \ unsettled' PROVE Settled(u)'
      BY DEF Relogin
    <2>1. Settled(u)
      BY DEF AuthInv, DatabaseInv, Relogin
    <2>2. /\ \A q \in Requests : q # r =>
                /\ q \in Resetting(u)' <=> q \in Resetting(u)
                /\ q \in LoggingIn(u)' <=> q \in LoggingIn(u)
          /\ r \in Resetting(u)' <=> Resets(y, u)
          /\ r \in LoggingIn(u)' <=> y.user = u /\ y.pc = "session"
          /\ Resetting(u)' \subseteq Requests /\ LoggingIn(u)' \subseteq Requests
      BY <1>1 DEF Resetting, LoggingIn, Resets
    <2>3. LoginsCurrent(u)'
      <3> SUFFICES ASSUME NEW q \in LoggingIn(u)'
                   PROVE  tx'[q].saw = pw[u] /\ Resetting(u)' = {}
        BY DEF LoginsCurrent
      <3>1. q \in Requests
        BY <2>2
      <3>2. CASE q = r
        <4>1. y.user = u /\ y.pc = "session"
          BY <2>2, <3>2
        <4>2. Resetting(u) = {} /\ ~Resets(y, u) /\ y.saw = pw[u]
          BY <4>1 DEF Resets
        <4> QED
          BY <1>1, <2>2, <3>2, <4>2
      <3>3. CASE q # r
        <4>1. q \in LoggingIn(u) /\ tx'[q] = tx[q]
          BY <1>1, <2>2, <3>1, <3>3
        <4>2. tx[q].saw = pw[u] /\ Resetting(u) = {}
          BY <2>1, <4>1 DEF Settled, LoginsCurrent
        <4>3. ~Resets(y, u)
          BY <4>1, <4>2
        <4> QED
          BY <2>2, <4>1, <4>2, <4>3
      <3> QED
        BY <3>2, <3>3
    <2>4. ResetCoversAll(u)'
      <3> SUFFICES ASSUME NEW q \in Resetting(u)', NEW s \in Sids, owner[s] = u
                   PROVE  s \in Ended' \cup req'[q].todo
        BY DEF ResetCoversAll
      <3>1. CASE q = r
        BY <2>2, <3>1
      <3>2. CASE q # r
        <4>1. q \in Resetting(u) /\ req'[q] = req[q]
          BY <2>2, <3>2
        <4> QED
          BY <2>1, <4>1 DEF Settled, ResetCoversAll
      <3> QED
        BY <3>1, <3>2
    <2>5. WipedAreListed(u)'
      <3> SUFFICES ASSUME wiped' = wiped,
                          tx[r].user = u /\ tx[r].pc = "revoking" =>
                             y.user = u /\ y.pc = "revoking"
                   PROVE  WipedAreListed(u)'
        OBVIOUS
      <3> SUFFICES ASSUME NEW s \in wiped, owner[s] = u, s \notin Ended'
                   PROVE  \E q \in Requests :
                             tx'[q].user = u /\ tx'[q].pc = "revoking"
        BY DEF WipedAreListed
      <3>1. PICK q \in Requests : tx[q].user = u /\ tx[q].pc = "revoking"
        BY <2>1 DEF Settled, WipedAreListed
      <3> QED
        BY <1>1, <3>1
    <2>6. SessionsCurrent(u)'
      BY <2>1 DEF Settled, SessionsCurrent
    <2> QED
      BY <2>3, <2>4, <2>5, <2>6 DEF Settled
  <1> QED
    BY <1>2, <1>3, <1>4, <1>5, <1>6 DEF AuthInv, DatabaseInv

(* The case of a handler that uses PostgreSQL only and whose reset, if it is
   one, has not begun to revoke or goes on as it was. *)
LEMMA TxMoveInDatabase ==
    ASSUME AuthInv, NEW r \in Requests, NEW y \in Transaction,
           tx' = [tx EXCEPT ![r] = y],
           UNCHANGED <<vars, pw, cred, welcomed>>,
           unsettled' \in SUBSET Users, \A u \in unsettled : u \in unsettled',
           TxFacts(y, req[r]), tx[r].pc # "revoking",
           y.new > 0 => y.user = tx[r].user /\ (RowFree(r) \/ tx[r].new > 0),
           \A u \in Users \ unsettled' :
              /\ y.user = u /\ y.pc = "session" =>
                   y.saw = pw[u] /\ Resetting(u) = {}
              /\ Resets(y, u) => Resets(tx[r], u)
    PROVE  AuthInv'
  <1>1. /\ UNCHANGED <<owner, wiped, req, revoked, lapsed>>
    BY DEF vars, history
  <1>2. Inv'
    BY StepInv DEF AuthInv
  <1>3. \A s \in Ended : s \in Ended'
    BY <1>1 DEF Ended
  <1>4. \A s \in wiped' : owner[s] # None
    BY <1>1 DEF AuthInv, DatabaseInv, WipedOpened
  <1>5. ASSUME NEW u \in Users \ unsettled', Resets(y, u)
        PROVE  /\ \A s \in Sids : owner[s] = u => s \in Ended' \cup req'[r].todo
               /\ r \in Resetting(u)
    <2>1. r \in Resetting(u)
      BY <1>5 DEF Resets, Resetting
    <2>2. ResetCoversAll(u)
      BY DEF AuthInv, DatabaseInv, Relogin, Settled
    <2> QED
      BY <1>1, <1>3, <2>1, <2>2 DEF ResetCoversAll
  <1> QED
    BY <1>1, <1>2, <1>3, <1>4, <1>5, TxMove

(* The first statement of a registration or of a reset. *)
LEMMA StartStep ==
    ASSUME AuthInv, NEW r \in Requests, NEW u \in Users,
           NEW step \in {"insert", "update"}, Starts(r, u, step),
           step = "update" => HasRow(u),
           UNCHANGED <<vars, pw, cred, welcomed, unsettled>>
    PROVE  AuthInv'
  <1> DEFINE y == [NoTx EXCEPT !.pc = step, !.user = u]
  <1>1. /\ y \in Transaction /\ y.pc = step /\ y.user = u
        /\ y.new = 0 /\ y.saw = 0
    BY NoTxType DEF Transaction, Opt
  <1>2. tx' = [tx EXCEPT ![r] = y] /\ tx[r] = NoTx /\ req[r] = Idle
    BY DEF Starts, Free
  <1> HIDE DEF y
  <1>3. ~(y.new > 0) /\ ~(y.new > 1)
    BY <1>1
  <1>4. TxFacts(y, req[r])
    BY <1>1, <1>2, <1>3 DEF TxFacts, HasRow
  <1>5. unsettled' \in SUBSET Users
    BY DEF AuthInv, AuthTypeOK
  <1>6. \A v \in Users : y.pc # "session" /\ ~Resets(y, v)
    BY <1>1, <1>3 DEF Resets
  <1> QED
    BY <1>1, <1>2, <1>3, <1>4, <1>5, <1>6, NoTxType, TxMoveInDatabase

(* The INSERT of a user takes the email, or finds it taken. *)
LEMMA InsertUserStep ==
    ASSUME AuthInv, NEW r \in Requests, InsertUser(r)
    PROVE  AuthInv'
  <1> DEFINE x == tx[r]
             z == Inserted(x)
             y == [z EXCEPT !.pc = "commit"]
  <1>1. /\ x \in Transaction /\ x.pc = "insert" /\ x.new = 0
        /\ x.user \in Users /\ req[r] = Idle /\ pw[x.user] \in Nat
    BY HandlerFacts DEF InsertUser, TxFacts
  <1>2. /\ z \in Transaction /\ z.user = x.user
        /\ z.new = 0 \/ (z.new = 1 /\ pw[x.user] = 0)
    BY <1>1, MaxPasswordAssumption DEF Inserted, Transaction
  <1>3. tx' = [tx EXCEPT ![r] = y] /\ RowFree(r)
    BY DEF InsertUser
  <1> HIDE DEF z
  <1>4. /\ y \in Transaction /\ y.user = x.user /\ y.pc = "commit"
        /\ y.new = 0 \/ (y.new = 1 /\ pw[x.user] = 0)
    BY <1>2 DEF Transaction
  <1> HIDE DEF y
  <1>5. ~(y.new > 1) /\ (y.new > 0 => y.new = pw[y.user] + 1)
    BY <1>4
  <1>6. TxFacts(y, req[r])
    BY <1>1, <1>4, <1>5 DEF TxFacts
  <1>7. unsettled' \in SUBSET Users
        /\ UNCHANGED <<vars, pw, cred, welcomed, unsettled>>
    BY DEF InsertUser, AuthInv, AuthTypeOK
  <1>8. \A v \in Users : y.pc # "session" /\ ~Resets(y, v)
    BY <1>4, <1>5 DEF Resets
  <1> QED
    BY <1>1, <1>3, <1>4, <1>6, <1>7, <1>8, TxMoveInDatabase

(* The password of a login is checked; an overlap with a reset is marked. *)
LEMMA LoginStep ==
    ASSUME AuthInv, NEW r \in Requests, NEW u \in Users, Login(r, u)
    PROVE  AuthInv'
  <1> DEFINE y == [NoTx EXCEPT !.pc = "session", !.user = u, !.saw = pw[u]]
  <1>1. pw[u] \in 0..MaxPassword /\ pw[u] > 0
    BY DEF Login, Verified, AuthInv, AuthTypeOK
  <1>2. /\ y \in Transaction /\ y.pc = "session" /\ y.user = u
        /\ y.new = 0 /\ y.saw = pw[u]
    BY <1>1, NoTxType DEF Transaction, Opt
  <1>3. tx' = [tx EXCEPT ![r] = y] /\ tx[r] = NoTx /\ req[r] = Idle
    BY DEF Login, Free
  <1> HIDE DEF y
  <1>4. ~(y.new > 0) /\ ~(y.new > 1)
    BY <1>2
  <1>5. TxFacts(y, req[r])
    BY <1>1, <1>2, <1>3, <1>4 DEF TxFacts
  <1>6. /\ unsettled' = unsettled \cup {x \in {u} : Resetting(x) # {}}
        /\ UNCHANGED <<vars, pw, cred, welcomed>>
    BY DEF Login
  <1>7. unsettled' \in SUBSET Users
    BY <1>6 DEF AuthInv, AuthTypeOK
  <1>8. \A v \in Users \ unsettled' :
           /\ y.user = v => y.saw = pw[v] /\ Resetting(v) = {}
           /\ ~Resets(y, v)
    BY <1>2, <1>4, <1>6 DEF Resets
  <1> QED
    BY <1>2, <1>3, <1>4, <1>5, <1>6, <1>7, <1>8, NoTxType, TxMoveInDatabase

(* The UPDATE of the users row. *)
LEMMA UpdateUserStep ==
    ASSUME AuthInv, NEW r \in Requests, UpdateUser(r)
    PROVE  AuthInv'
  <1> DEFINE x == tx[r]
             n == pw[x.user] + 1
             y == [x EXCEPT !.pc = "revoke", !.new = n]
  <1>1. /\ x \in Transaction /\ x.pc = "update" /\ req[r] = Idle
        /\ x.user \in Users /\ pw[x.user] \in Nat /\ pw[x.user] > 0
        /\ pw[x.user] < MaxPassword
    BY HandlerFacts DEF UpdateUser, TxFacts
  <1>2. n \in 0..MaxPassword /\ n > 1 /\ n = pw[x.user] + 1
    BY <1>1, MaxPasswordAssumption
  <1>3. tx' = [tx EXCEPT ![r] = y] /\ RowFree(r)
    BY DEF UpdateUser
  <1> HIDE DEF n
  <1>4. y \in Transaction /\ y.pc = "revoke" /\ y.user = x.user /\ y.new = n
    BY <1>1, <1>2 DEF Transaction
  <1> HIDE DEF y
  <1>5. TxFacts(y, req[r])
    BY <1>1, <1>2, <1>4 DEF TxFacts
  <1>6. /\ unsettled' \in SUBSET Users
        /\ UNCHANGED <<vars, pw, cred, welcomed, unsettled>>
    BY DEF UpdateUser, AuthInv, AuthTypeOK
  <1>7. \A v \in Users : y.pc # "session" /\ ~Resets(y, v)
    BY <1>4 DEF Resets
  <1> QED
    BY <1>1, <1>3, <1>4, <1>5, <1>6, <1>7, TxMoveInDatabase

(* The audit record of a reset is written, or rolls the reset back. *)
LEMMA RecordAuditStep ==
    ASSUME AuthInv, NEW r \in Requests, RecordAudit(r)
    PROVE  AuthInv'
  <1> DEFINE x == tx[r]
  <1>1. /\ x \in Transaction /\ x.pc = "audit" /\ req[r] = Idle
        /\ TxFacts(x, req[r]) /\ x.new > 1 /\ x.new \in Nat
    BY HandlerFacts DEF RecordAudit, TxFacts
  <1>2. PICK n \in {x.new, 0} :
           tx' = [tx EXCEPT ![r] = [x EXCEPT !.pc = "commit", !.new = n]]
    BY DEF RecordAudit
  <1> DEFINE y == [x EXCEPT !.pc = "commit", !.new = n]
  <1>3. /\ y \in Transaction /\ y.pc = "commit" /\ y.user = x.user
        /\ y.new = x.new \/ y.new = 0
    <2>1. n \in 0..MaxPassword
      BY <1>1, <1>2, MaxPasswordAssumption DEF Transaction
    <2>2. y \in Transaction /\ y.pc = "commit" /\ y.user = x.user /\ y.new = n
      BY <1>1, <2>1 DEF Transaction
    <2> QED
      BY <1>2, <2>2
  <1>4. tx' = [tx EXCEPT ![r] = y]
    BY <1>2
  <1> HIDE DEF y
  <1>5. y.new > 0 => y.new = x.new
    BY <1>3
  <1>6. x.new > 0
    BY <1>1
  <1>7. TxFacts(y, req[r])
    BY <1>1, <1>3, <1>5 DEF TxFacts
  <1>8. /\ unsettled' \in SUBSET Users
        /\ UNCHANGED <<vars, pw, cred, welcomed, unsettled>>
    BY DEF RecordAudit, AuthInv, AuthTypeOK
  <1>9. \A v \in Users : y.pc # "session" /\ (Resets(y, v) => Resets(x, v))
    BY <1>1, <1>3 DEF Resets
  <1> QED
    BY <1>1, <1>3, <1>4, <1>6, <1>7, <1>8, <1>9, TxMoveInDatabase

-----------------------------------------------------------------------------
(* Steps of a reset that revokes sessions. *)

(* The user's set lists every session that has not ended: one that an earlier
   reset took off it has ended by now, because that reset is over. *)
LEMMA ListedAll ==
    ASSUME AuthInv, NEW r \in Requests, tx[r].pc = "revoke",
           NEW u \in Users \ unsettled, tx[r].user = u,
           NEW s \in Sids, owner[s] = u, s \notin Ended
    PROVE  s \in index[u].ids
  <1>1. session[s].user = u
    BY DEF AuthInv, Inv, StoreInv, UserUntilEnd
  <1>2. s \in index[u].ids \cup wiped
    BY <1>1, NoneAssumption DEF AuthInv, Inv, StoreInv, IndexComplete
  <1>3. ASSUME s \in wiped PROVE FALSE
    <2>1. PICK q \in Requests : tx[q].user = u /\ tx[q].pc = "revoking"
      BY <1>3 DEF AuthInv, DatabaseInv, Relogin, Settled, WipedAreListed
    <2>2. tx[q].new > 1 /\ tx[q].new \in Nat /\ tx[r].new > 1 /\ tx[r].new \in Nat
      BY <2>1, HandlerFacts DEF TxFacts
    <2>3. tx[q].new > 0 /\ tx[r].new > 0
      BY <2>2
    <2> QED
      BY <2>1, <2>3 DEF AuthInv, DatabaseInv, OneWriter
  <1> QED
    BY <1>2, <1>3

(* The SMEMBERS of revoke_all_user_sessions; an overlap with a login is
   marked. *)
LEMMA RevokeAllStep ==
    ASSUME AuthInv, NEW r \in Requests, RevokeAll(r)
    PROVE  AuthInv' /\ Next
  <1> DEFINE x == tx[r]
             u == x.user
             y == [x EXCEPT !.pc = "revoking"]
             q == [Idle EXCEPT !.pc = "listed", !.caller = u,
                               !.todo = index[u].ids]
  <1>1. /\ x \in Transaction /\ x.pc = "revoke" /\ req[r] = Idle
        /\ u \in Users /\ x.new > 1 /\ x.new \in Nat /\ x.new = pw[u] + 1
    BY HandlerFacts DEF RevokeAll, TxFacts
  <1>2. Next
    BY <1>1 DEF RevokeAll, Next, Serve
  <1>3. Inv'
    BY <1>2, StepInv DEF AuthInv
  <1>4. /\ tx' = [tx EXCEPT ![r] = y] /\ req' = [req EXCEPT ![r] = q]
        /\ UNCHANGED <<store, history, pw, cred, welcomed>>
        /\ unsettled' = unsettled \cup {v \in {u} : LoggingIn(v) # {}}
    BY DEF RevokeAll, ListSessions, Goes
  <1>5. /\ q.pc = "listed" /\ q.caller = u /\ q.todo = index[u].ids
    BY DEF Idle
  <1>6. /\ y \in Transaction /\ y.pc = "revoking" /\ y.user = u /\ y.new = x.new
    BY <1>1 DEF Transaction
  <1> HIDE DEF y, q
  <1>7. req'[r] = q /\ \A p \in Requests : p # r => req'[p] = req[p]
    BY <1>4 DEF AuthInv, Inv, TypeOK
  <1>8. x.new > 0
    BY <1>1
  <1>9. TxFacts(y, req'[r])
    BY <1>1, <1>5, <1>6, <1>7 DEF TxFacts
  <1>10. UNCHANGED <<owner, wiped, revoked, lapsed>>
    BY <1>4 DEF history
  <1>11. /\ \A s \in Ended : s \in Ended'
         /\ \A s \in wiped' : owner[s] # None
         /\ unsettled' \in SUBSET Users
    BY <1>1, <1>4, <1>10 DEF Ended, AuthInv, DatabaseInv, WipedOpened, AuthTypeOK
  <1>12. ASSUME NEW v \in Users \ unsettled', Resets(y, v)
         PROVE  /\ \A s \in Sids : owner[s] = v => s \in Ended' \cup req'[r].todo
                /\ LoggingIn(v) = {}
    <2>1. v = u
      BY <1>6, <1>12 DEF Resets
    <2>2. LoggingIn(v) = {} /\ v \notin unsettled
      BY <1>4, <2>1
    <2> QED
      BY <1>1, <1>5, <1>7, <1>11, <2>1, <2>2, ListedAll
  <1>13. tx[r].pc # "revoking" /\ y.pc # "session"
    BY <1>1, <1>6
  <1>14. /\ UNCHANGED <<owner, pw, cred, welcomed>>
         /\ \A v \in unsettled : v \in unsettled'
         /\ y.user = tx[r].user /\ tx[r].new > 0
    BY <1>4, <1>6, <1>8, <1>10
  <1>15. AuthInv'
    BY <1>3, <1>4, <1>6, <1>7, <1>9, <1>10, <1>11, <1>12, <1>13, <1>14, TxMove
  <1> QED
    BY <1>2, <1>15

(* A step of the loop that drops only sessions that have ended. *)
LEMMA RevokeProgress ==
    ASSUME AuthInv, Inv', NEW r \in Requests, tx[r].pc = "revoking",
           Goes(r, IF req'[r] = Idle THEN "audit" ELSE "revoking"),
           UNCHANGED <<owner, pw, cred, welcomed, unsettled>>,
           \A s \in Ended : s \in Ended',
           \A q \in Requests : q # r => req'[q] = req[q],
           \A s \in wiped' : s \in wiped \/ owner[s] = tx[r].user,
           req'[r] # Idle => /\ req'[r].pc \in {"listed", "each", "revoke"}
                             /\ req'[r].caller = tx[r].user,
           \A s \in req[r].todo : s \in Ended' \cup req'[r].todo
    PROVE  AuthInv'
  <1> DEFINE x == tx[r]
             step == IF req'[r] = Idle THEN "audit" ELSE "revoking"
             y == [x EXCEPT !.pc = step]
  <1>1. /\ x \in Transaction /\ TxFacts(x, req[r]) /\ x.user \in Users
        /\ x.new > 1 /\ x.new \in Nat
    BY HandlerFacts DEF TxFacts
  <1>2. tx' = [tx EXCEPT ![r] = y]
    BY DEF Goes
  <1>3. \/ step = "audit" /\ req'[r] = Idle
        \/ step = "revoking" /\ req'[r] # Idle
    OBVIOUS
  <1> HIDE DEF step
  <1>4. y \in Transaction /\ y.pc = step /\ y.user = x.user /\ y.new = x.new
    BY <1>1, <1>3 DEF Transaction
  <1> HIDE DEF y
  <1>5. TxFacts(y, req'[r])
    BY <1>1, <1>3, <1>4 DEF TxFacts
  <1>6. \A s \in wiped' : owner[s] # None
    BY <1>1, NoneAssumption DEF AuthInv, DatabaseInv, WipedOpened
  <1>7. \A u \in Users : x.user = u => r \in Resetting(u)
    BY <1>1 DEF Resetting
  <1>8. ASSUME NEW u \in Users \ unsettled', x.user = u
        PROVE  \A s \in Sids : owner[s] = u => s \in Ended' \cup req'[r].todo
    BY <1>7, <1>8
       DEF AuthInv, DatabaseInv, Relogin, Settled, ResetCoversAll
  <1>9. ASSUME NEW u \in Users \ unsettled' PROVE WipedAreListed(u)'
    <2> SUFFICES ASSUME NEW s \in wiped', owner[s] = u, s \notin Ended'
                 PROVE  \E q \in Requests :
                           tx'[q].user = u /\ tx'[q].pc = "revoking"
      BY DEF WipedAreListed
    <2>1. /\ tx'[r] = y /\ \A q \in Requests : q # r => tx'[q] = tx[q]
      BY <1>2, <1>4, TxUpdate DEF AuthInv
    <2>2. CASE x.user = u
      <3>1. s \in Sids
        BY DEF Inv, TypeOK
      <3>2. s \in req'[r].todo
        BY <1>8, <2>2, <3>1
      <3>3. step = "revoking"
        BY <1>3, <3>2, IdleFacts
      <3> QED
        BY <1>4, <2>1, <2>2, <3>3
    <2>3. CASE x.user # u
      <3>1. s \in wiped /\ s \notin Ended
        BY <2>3
      <3>2. PICK q \in Requests : tx[q].user = u /\ tx[q].pc = "revoking"
        BY <1>9, <3>1 DEF AuthInv, DatabaseInv, Relogin, Settled, WipedAreListed
      <3> QED
        BY <2>1, <2>3, <3>2
    <2> QED
      BY <2>2, <2>3
  <1>10. y.pc # "session" /\ \A u \in Users : Resets(y, u) => x.user = u
    BY <1>3, <1>4 DEF Resets
  <1>11. x.new > 0
    BY <1>1
  <1>12. unsettled' \in SUBSET Users
    BY DEF AuthInv, AuthTypeOK
  <1> QED
    BY <1>2, <1>4, <1>5, <1>6, <1>7, <1>8, <1>9, <1>10, <1>11, <1>12, TxMove

(* What the loop goes on with. *)
LEMMA LoopLeaves ==
    ASSUME NEW q \in Request, NEW rest
    PROVE  LET n == LoopOn(q, rest)
           IN  \/ n = Idle /\ rest = {}
               \/ n.pc = "each" /\ n.todo = rest /\ n.caller = q.caller
  BY DEF LoopOn, Request

(* The DEL and the loop over the sessions. *)
LEMMA RevokeLoopStep ==
    ASSUME AuthInv, NEW r \in Requests, RevokeStep(r)
    PROVE  AuthInv' /\ Next
  <1> DEFINE q == req[r]
             x == tx[r]
  <1>1. /\ x.pc = "revoking" /\ x.user \in Users /\ q \in Request
        /\ q.caller = x.user
        /\ Goes(r, IF req'[r] = Idle THEN "audit" ELSE "revoking")
        /\ UNCHANGED <<pw, cred, welcomed, unsettled>>
    BY HandlerFacts DEF RevokeStep, TxFacts
  <1>2. Next
    BY DEF RevokeStep, Next, Serve
  <1>3. Inv'
    BY <1>2, StepInv DEF AuthInv
  <1>4. req \in [Requests -> Request]
    BY DEF AuthInv, Inv, TypeOK
  <1>5. CASE WipeIndex(r)
    <2> DEFINE n == LoopOn(q, q.todo)
    <2>1. req' = [req EXCEPT ![r] = n] /\ UNCHANGED <<owner, revoked, lapsed>>
          /\ wiped' = wiped \cup index[x.user].ids
      BY <1>1, <1>5 DEF WipeIndex
    <2>2. \/ n = Idle /\ q.todo = {}
          \/ n.pc = "each" /\ n.todo = q.todo /\ n.caller = q.caller
      BY <1>1, LoopLeaves
    <2> HIDE DEF n
    <2>3. req'[r] = n /\ \A p \in Requests : p # r => req'[p] = req[p]
      BY <1>4, <2>1
    <2>4. \A s \in wiped' : s \in wiped \/ owner[s] = x.user
      BY <1>1, <2>1 DEF AuthInv, Inv, StoreInv, IndexOutlives
    <2>5. \A s \in Ended : s \in Ended'
      BY <2>1 DEF Ended
    <2>6. /\ req'[r] # Idle => /\ req'[r].pc \in {"listed", "each", "revoke"}
                               /\ req'[r].caller = x.user
          /\ \A s \in q.todo : s \in Ended' \cup req'[r].todo
      BY <1>1, <2>2, <2>3
    <2> QED
      BY <1>1, <1>2, <1>3, <2>1, <2>3, <2>4, <2>5, <2>6, RevokeProgress
  <1>6. ASSUME NEW s \in Sids, RevokeRead(r, s) PROVE AuthInv'
    <2> DEFINE h == session[s]
               m == [q EXCEPT !.pc = "revoke", !.sid = s,
                        !.seen = [user |-> h.user, current |-> h.current]]
               n == LoopOn(q, q.todo \ {s})
    <2>1. /\ UNCHANGED <<owner, revoked, lapsed, wiped>> /\ s \in q.todo
          /\ \/ HashExists(h) /\ req' = [req EXCEPT ![r] = m]
             \/ ~HashExists(h) /\ req' = [req EXCEPT ![r] = n]
      BY <1>6 DEF RevokeRead, history
    <2>2. m.pc = "revoke" /\ m.todo = q.todo /\ m.caller = q.caller
      BY <1>1 DEF Request
    <2>3. \/ n = Idle /\ q.todo \ {s} = {}
          \/ n.pc = "each" /\ n.todo = q.todo \ {s} /\ n.caller = q.caller
      BY <1>1, LoopLeaves
    <2>4. ~HashExists(h) => s \in Ended
      <3>1. owner[s] = x.user
        BY <1>1, <2>1 DEF AuthInv, Inv, RequestInv, OwnSessionsOnly
      <3>2. CASE s \notin Ended
        <4>1. h.user = x.user /\ h \in Hash
          BY <3>1, <3>2 DEF AuthInv, Inv, StoreInv, UserUntilEnd, TypeOK
        <4>2. h.ttl = 0 => h = NoHash
          BY DEF AuthInv, Inv, StoreInv, HashNamesPair
        <4>3. h.ttl # 0 /\ h.ttl \in Nat
          BY <1>1, <4>1, <4>2, NoneAssumption DEF NoHash, Hash
        <4> QED
          BY <4>3 DEF HashExists
      <3> QED
        BY <3>2
    <2> HIDE DEF m, n
    <2>5. /\ \A p \in Requests : p # r => req'[p] = req[p]
          /\ \/ HashExists(h) /\ req'[r] = m
             \/ ~HashExists(h) /\ req'[r] = n
      BY <1>4, <2>1
    <2>6. \A k \in Ended : k \in Ended'
      BY <2>1 DEF Ended
    <2>7. /\ req'[r] # Idle => /\ req'[r].pc \in {"listed", "each", "revoke"}
                               /\ req'[r].caller = x.user
          /\ \A k \in q.todo : k \in Ended' \cup req'[r].todo
      BY <1>1, <2>2, <2>3, <2>4, <2>5, <2>6
    <2> QED
      BY <1>1, <1>3, <2>1, <2>5, <2>6, <2>7, RevokeProgress
  <1>7. CASE Revoke(r)
    <2> DEFINE n == LoopOn(q, q.todo \ {q.sid})
    <2>1. /\ UNCHANGED <<owner, lapsed, wiped>> /\ req' = [req EXCEPT ![r] = n]
          /\ revoked' = revoked \cup {q.sid}
      BY <1>7 DEF Revoke
    <2>2. \/ n = Idle /\ q.todo \ {q.sid} = {}
          \/ n.pc = "each" /\ n.todo = q.todo \ {q.sid} /\ n.caller = q.caller
      BY <1>1, LoopLeaves
    <2> HIDE DEF n
    <2>3. req'[r] = n /\ \A p \in Requests : p # r => req'[p] = req[p]
      BY <1>4, <2>1
    <2>4. q.sid \in Ended' /\ \A k \in Ended : k \in Ended'
      BY <2>1 DEF Ended
    <2>5. /\ req'[r] # Idle => /\ req'[r].pc \in {"listed", "each", "revoke"}
                               /\ req'[r].caller = x.user
          /\ \A k \in q.todo : k \in Ended' \cup req'[r].todo
      BY <1>1, <2>2, <2>3, <2>4
    <2>6. UNCHANGED owner /\ \A k \in wiped' : k \in wiped \/ owner[k] = x.user
      BY <2>1
    <2> QED
      BY <1>1, <1>2, <1>3, <2>3, <2>4, <2>5, <2>6, RevokeProgress
  <1> QED
    BY <1>2, <1>5, <1>6, <1>7 DEF RevokeStep

(* Redis fails half way: the user's resets are no longer settled. *)
LEMMA RevokeFailsStep ==
    ASSUME AuthInv, NEW r \in Requests, RevokeFails(r)
    PROVE  AuthInv' /\ [Next]_vars
  <1> DEFINE x == tx[r]
             y == [x EXCEPT !.pc = "commit"]
  <1>1. /\ x \in Transaction /\ x.user \in Users /\ x.new > 1 /\ x.new \in Nat
        /\ TxFacts(x, req[r]) /\ x.pc \in {"revoke", "revoking"}
    BY HandlerFacts DEF RevokeFails, TxFacts
  <1>2. [Next]_vars
    BY DEF RevokeFails, Next, Serve
  <1>3. Inv'
    BY <1>2, StepInv DEF AuthInv
  <1>4. /\ tx' = [tx EXCEPT ![r] = y] /\ UNCHANGED <<pw, cred, welcomed>>
        /\ unsettled' = unsettled \cup {x.user}
    BY DEF RevokeFails, Goes
  <1>5. y \in Transaction /\ y.pc = "commit" /\ y.user = x.user /\ y.new = x.new
    BY <1>1 DEF Transaction
  <1> HIDE DEF y
  <1>6. /\ req'[r] = Idle /\ \A p \in Requests : p # r => req'[p] = req[p]
        /\ UNCHANGED <<owner, wiped, revoked, lapsed>>
    <2>1. CASE x.pc = "revoke" /\ UNCHANGED vars
      BY <1>1, <2>1 DEF vars, history, TxFacts
    <2>2. CASE Fail(r)
      BY <2>2 DEF Fail, history, AuthInv, Inv, TypeOK
    <2> QED
      BY <2>1, <2>2 DEF RevokeFails
  <1>7. TxFacts(y, req'[r])
    BY <1>1, <1>5, <1>6 DEF TxFacts
  <1>8. /\ \A s \in Ended : s \in Ended'
        /\ \A s \in wiped' : owner[s] # None
        /\ unsettled' \in SUBSET Users
    BY <1>1, <1>4, <1>6 DEF Ended, AuthInv, DatabaseInv, WipedOpened, AuthTypeOK
  <1>9. \A v \in Users \ unsettled' :
           y.pc # "session" /\ x.user # v /\ ~Resets(y, v)
    BY <1>4, <1>5 DEF Resets
  <1>10. /\ UNCHANGED <<owner, wiped, pw, cred, welcomed>>
         /\ \A v \in unsettled : v \in unsettled'
         /\ y.user = tx[r].user /\ tx[r].new > 0
    BY <1>1, <1>4, <1>5, <1>6
  <1>11. AuthInv'
    BY <1>3, <1>4, <1>5, <1>6, <1>7, <1>8, <1>9, <1>10, TxMove
  <1> QED
    BY <1>2, <1>11

(* A rollback, wherever it happens. *)
LEMMA AuthAbortStep ==
    ASSUME AuthInv, NEW r \in Requests, Abort(r)
    PROVE  AuthInv' /\ [Next]_vars
  <1> DEFINE x == tx[r]
  <1>1. x \in Transaction /\ TxFacts(x, req[r])
    BY HandlerFacts
  <1>2. [Next]_vars
    BY DEF Abort, Next, Serve
  <1>3. Inv'
    BY <1>2, StepInv DEF AuthInv
  <1>4. x.user \in Users
    BY <1>1 DEF Abort, TxFacts
  <1>5. /\ tx' = [tx EXCEPT ![r] = NoTx] /\ UNCHANGED <<pw, cred, welcomed>>
        /\ \/ req[r] = Idle /\ UNCHANGED <<vars, unsettled>>
           \/ Fail(r) /\ unsettled' = unsettled \cup {x.user}
    BY DEF Abort
  <1>6. /\ \A p \in Requests : p # r => req'[p] = req[p]
        /\ UNCHANGED <<owner, wiped, revoked, lapsed>>
    BY <1>5 DEF Fail, vars, history, AuthInv, Inv, TypeOK
  <1>7. /\ \A s \in Ended : s \in Ended'
        /\ \A s \in wiped' : owner[s] # None
        /\ unsettled' \in SUBSET Users
        /\ \A v \in unsettled : v \in unsettled'
    BY <1>4, <1>5, <1>6 DEF Ended, AuthInv, DatabaseInv, WipedOpened, AuthTypeOK
  <1>8. \A v \in Users \ unsettled' : ~(x.user = v /\ x.pc = "revoking")
    <2>1. x.pc = "revoking" => req[r] # Idle
      BY <1>1, IdleFacts DEF TxFacts
    <2> QED
      BY <1>5, <2>1
  <1>9. ~(NoTx.new > 0) /\ \A v \in Users : ~Resets(NoTx, v)
    BY NoTxType DEF Resets
  <1>10. AuthInv'
    BY <1>3, <1>5, <1>6, <1>7, <1>8, <1>9, NoTxType, NoTxFacts, TxMove
  <1> QED
    BY <1>2, <1>10

-----------------------------------------------------------------------------
(* The steps that open a session or commit a password. *)

(* A login opens its session with the password it has seen, which is still
   the user's one unless a reset overlapped. *)
LEMMA LoginSessionStep ==
    ASSUME AuthInv, NEW r \in Requests, NEW s \in Sids, NEW t \in Pairs,
           LoginSession(r, s, t)
    PROVE  AuthInv' /\ Next
  <1> DEFINE x == tx[r]
             u == x.user
  <1>1. /\ x \in Transaction /\ x.pc = "session" /\ u \in Users /\ u # None
        /\ pw[u] > 0
    BY HandlerFacts, NoneAssumption DEF LoginSession, TxFacts
  <1>2. Next
    BY <1>1 DEF LoginSession, Next
  <1>3. Inv'
    BY <1>2, StepInv DEF AuthInv
  <1>4. /\ owner[s] = None /\ owner' = [owner EXCEPT ![s] = u]
        /\ UNCHANGED <<req, revoked, lapsed, wiped, pw, welcomed, unsettled>>
        /\ cred' = [cred EXCEPT ![s] = x.saw] /\ tx' = [tx EXCEPT ![r] = NoTx]
    BY DEF LoginSession, CreateSession, FreshSid
  <1>5. /\ tx' \in [Requests -> Transaction] /\ tx'[r] = NoTx
        /\ \A q \in Requests : q # r => tx'[q] = tx[q]
    BY <1>4, NoTxType, TxUpdate DEF AuthInv
  <1>6. /\ owner'[s] = u /\ \A k \in Sids : k # s => owner'[k] = owner[k]
        /\ cred' \in [Sids -> 0..MaxPassword] /\ cred'[s] = x.saw
        /\ \A k \in Sids : k # s => cred'[k] = cred[k]
        /\ Ended' = Ended
    BY <1>1, <1>4 DEF AuthInv, Inv, TypeOK, AuthTypeOK, Transaction, Ended
  <1>7. AuthTypeOK'
    BY <1>3, <1>4, <1>5, <1>6 DEF AuthInv, AuthTypeOK, Inv, Transaction
  <1>8. HandlersKnow'
    <2> SUFFICES ASSUME NEW q \in Requests PROVE TxFacts(tx[q], req[q])'
      BY DEF HandlersKnow
    <2>1. CASE q = r
      BY <1>5, <2>1, NoTxType DEF TxFacts
    <2>2. CASE q # r
      <3>1. TxFacts(tx[q], req[q]) /\ tx'[q] = tx[q]
        BY <1>5, <2>2, HandlerFacts
      <3> QED
        BY <1>4, <3>1 DEF TxFacts
    <2> QED
      BY <2>1, <2>2
  <1>9. ~(NoTx.new > 0) /\ ~(NoTx.new > 1)
    BY NoTxType
  <1>10. OneWriter' /\ Accounts'
    BY <1>4, <1>5, <1>9 DEF AuthInv, DatabaseInv, OneWriter, Accounts
  <1>11. OwnersRegistered'
    BY <1>1, <1>4, <1>6 DEF AuthInv, DatabaseInv, OwnersRegistered
  <1>12. s \notin wiped /\ s \notin Ended
    BY <1>4 DEF AuthInv, Inv, StoreInv, UserUntilEnd, DatabaseInv, WipedOpened
  <1>13. \A k \in wiped : owner'[k] = owner[k]
    BY <1>6, <1>12 DEF AuthInv, Inv, TypeOK
  <1>14. WipedOpened'
    BY <1>4, <1>13 DEF AuthInv, DatabaseInv, WipedOpened
  <1>15. Relogin'
    <2> SUFFICES ASSUME NEW v \in Users \ unsettled PROVE Settled(v)'
      BY <1>4 DEF Relogin
    <2>1. Settled(v)
      BY DEF AuthInv, DatabaseInv, Relogin
    <2>2. /\ \A q \in Resetting(v)' : q \in Resetting(v)
          /\ \A q \in LoggingIn(v)' : q \in LoggingIn(v) /\ tx'[q] = tx[q]
      BY <1>5, <1>9, NoTxType DEF Resetting, LoggingIn
    <2>3. v = u => x.saw = pw[v] /\ Resetting(v) = {}
      BY <1>1, <2>1 DEF Settled, LoginsCurrent, LoggingIn
    <2>4. LoginsCurrent(v)'
      BY <1>4, <2>1, <2>2 DEF Settled, LoginsCurrent
    <2>5. ResetCoversAll(v)'
      <3> SUFFICES ASSUME NEW q \in Resetting(v)', NEW k \in Sids, owner'[k] = v
                   PROVE  k \in Ended' \cup req'[q].todo
        BY DEF ResetCoversAll
      <3>1. q \in Resetting(v)
        BY <2>2
      <3>2. k # s
        BY <1>6, <2>3, <3>1
      <3>3. owner[k] = v
        BY <1>6, <3>2
      <3> QED
        BY <1>4, <1>6, <2>1, <3>1, <3>3 DEF Settled, ResetCoversAll
    <2>6. WipedAreListed(v)'
      <3> SUFFICES ASSUME NEW k \in wiped, owner'[k] = v, k \notin Ended
                   PROVE  \E q \in Requests :
                             tx'[q].user = v /\ tx'[q].pc = "revoking"
        BY <1>4, <1>6 DEF WipedAreListed
      <3>1. PICK q \in Requests : tx[q].user = v /\ tx[q].pc = "revoking"
        BY <1>13, <2>1 DEF Settled, WipedAreListed
      <3> QED
        BY <1>1, <1>5, <3>1
    <2>7. SessionsCurrent(v)'
      <3> SUFFICES ASSUME NEW k \in Sids, owner'[k] = v
                   PROVE  cred'[k] = pw[v] \/ k \in Ended
        BY <1>4, <1>6 DEF SessionsCurrent
      <3>1. CASE k = s
        BY <1>6, <2>3, <3>1
      <3>2. CASE k # s
        BY <1>6, <2>1, <3>2 DEF Settled, SessionsCurrent
      <3> QED
        BY <3>1, <3>2
    <2> QED
      BY <2>4, <2>5, <2>6, <2>7 DEF Settled
  <1>16. AuthInv'
    BY <1>3, <1>7, <1>8, <1>10, <1>11, <1>14, <1>15 DEF AuthInv, DatabaseInv
  <1> QED
    BY <1>2, <1>16

(* The commit of a handler that has changed no password. *)
LEMMA EmptyCommit ==
    ASSUME AuthInv, NEW r \in Requests, Commit(r), ~(tx[r].new > 0)
    PROVE  AuthInv'
  <1>1. /\ tx[r].new = 0 /\ tx[r].pc = "commit" /\ tx[r].user \in Users
    BY HandlerFacts DEF Commit, TxFacts
  <1>2. pw' = [u \in Users |-> pw[u]]
    BY <1>1 DEF Commit, Saved
  <1>3. welcomed' = [u \in Users |-> welcomed[u] + 0]
    BY <1>1 DEF Commit, Successes
  <1>4. UNCHANGED <<pw, welcomed>>
    BY <1>2, <1>3 DEF AuthInv, AuthTypeOK
  <1>5. /\ tx' = [tx EXCEPT ![r] = NoTx] /\ UNCHANGED <<vars, cred, unsettled>>
        /\ unsettled' \in SUBSET Users
    BY DEF Commit, AuthInv, AuthTypeOK
  <1>6. ~(NoTx.new > 0) /\ \A v \in Users : ~Resets(NoTx, v)
    BY NoTxType DEF Resets
  <1> QED
    BY <1>1, <1>4, <1>5, <1>6, NoTxType, NoTxFacts, TxMoveInDatabase

(* The commit of a new account or of a new password: nobody else writes the
   row, and no session opened with the old password goes on. *)
LEMMA PasswordCommit ==
    ASSUME AuthInv, NEW r \in Requests, Commit(r), tx[r].new > 0
    PROVE  AuthInv'
  <1> DEFINE x == tx[r]
             u == x.user
  <1>1. /\ x \in Transaction /\ x.pc = "commit" /\ u \in Users
        /\ x.new = pw[u] + 1 /\ req[r] = Idle /\ x.new \in 0..MaxPassword
    BY HandlerFacts DEF Commit, TxFacts, Transaction
  <1>2. /\ pw \in [Users -> 0..MaxPassword] /\ welcomed \in [Users -> Nat]
    BY DEF AuthInv, AuthTypeOK
  <1>3. /\ pw' \in [Users -> 0..MaxPassword] /\ pw'[u] = x.new
        /\ \A v \in Users : v # u => pw'[v] = pw[v]
    <2>1. pw' = [v \in Users |-> IF v = u THEN x.new ELSE pw[v]]
      BY DEF Commit, Saved
    <2> QED
      BY <1>1, <1>2, <2>1
  <1>4. /\ welcomed' \in [Users -> Nat]
        /\ \A v \in Users : v # u => welcomed'[v] = welcomed[v]
        /\ welcomed'[u] = welcomed[u] + (IF x.new = 1 THEN 1 ELSE 0)
    <2>1. welcomed' = [v \in Users |-> welcomed[v] + Successes(v, x)]
      BY DEF Commit
    <2>2. /\ \A v \in Users : Successes(v, x) \in Nat
          /\ \A v \in Users : v # u => Successes(v, x) = 0
          /\ Successes(u, x) = IF x.new = 1 THEN 1 ELSE 0
      BY DEF Successes
    <2>3. \A v \in Users : /\ welcomed'[v] = welcomed[v] + Successes(v, x)
                           /\ welcomed[v] \in Nat
      BY <1>2, <2>1
    <2>4. welcomed' \in [Users -> Nat]
      BY <2>1, <2>2, <2>3
    <2>5. \A v \in Users : v # u => welcomed'[v] = welcomed[v]
      BY <2>2, <2>3
    <2> QED
      BY <1>1, <2>2, <2>3, <2>4, <2>5
  <1>5. /\ UNCHANGED <<vars, cred, unsettled>> /\ tx' = [tx EXCEPT ![r] = NoTx]
    BY DEF Commit
  <1>6. UNCHANGED <<owner, wiped, req, revoked, lapsed>> /\ Ended' = Ended
    BY <1>5 DEF vars, history, Ended
  <1>7. Inv'
    BY <1>5, StepInv DEF AuthInv
  <1>8. /\ tx' \in [Requests -> Transaction] /\ tx'[r] = NoTx
        /\ \A q \in Requests : q # r => tx'[q] = tx[q]
    BY <1>5, NoTxType, TxUpdate DEF AuthInv
  <1>9. AuthTypeOK'
    BY <1>3, <1>4, <1>5, <1>7, <1>8 DEF AuthInv, AuthTypeOK, Inv, Transaction
  <1>10. \A q \in Requests : q # r /\ tx[q].new > 0 => tx[q].user # u
    BY DEF AuthInv, DatabaseInv, OneWriter
  <1>11. \A v \in Users : pw[v] > 0 => pw'[v] > 0
    BY <1>3
  <1>12. HandlersKnow'
    <2> SUFFICES ASSUME NEW q \in Requests PROVE TxFacts(tx[q], req[q])'
      BY DEF HandlersKnow
    <2>1. CASE q = r
      BY <1>8, <2>1, NoTxType DEF TxFacts
    <2>2. CASE q # r
      <3>1. /\ TxFacts(tx[q], req[q]) /\ tx'[q] = tx[q]
            /\ tx[q].user \in Users \cup {None}
        BY <1>8, <2>2, HandlerFacts DEF Opt
      <3>2. tx[q].new > 0 => tx[q].pc # "none"
        BY <3>1, NoTxType DEF TxFacts
      <3>3. tx[q].new > 0 => tx[q].new = pw'[tx[q].user] + 1
        BY <1>3, <1>10, <2>2, <3>1, <3>2 DEF TxFacts
      <3> QED
        BY <1>6, <1>11, <3>1, <3>3 DEF TxFacts
    <2> QED
      BY <2>1, <2>2
  <1>13. ~(NoTx.new > 0) /\ ~(NoTx.new > 1)
    BY NoTxType
  <1>14. OneWriter'
    BY <1>8, <1>13 DEF AuthInv, DatabaseInv, OneWriter
  <1>15. Accounts'
    <2>1. \A v \in Users : welcomed[v] = IF pw[v] > 0 THEN 1 ELSE 0
      BY DEF AuthInv, DatabaseInv, Accounts
    <2>2. welcomed'[u] = 1 /\ pw'[u] > 0
      <3>1. CASE x.new = 1
        <4>1. pw[u] = 0
          BY <1>1, <1>2, <3>1
        <4> QED
          BY <1>1, <1>3, <1>4, <2>1, <3>1, <4>1
      <3>2. CASE x.new # 1
        <4>1. pw[u] > 0
          BY <1>1, <1>2, <3>2
        <4> QED
          BY <1>1, <1>3, <1>4, <2>1, <3>2, <4>1
      <3> QED
        BY <3>1, <3>2
    <2> QED
      BY <1>3, <1>4, <2>1, <2>2 DEF Accounts
  <1>16. OwnersRegistered' /\ WipedOpened'
    BY <1>6, <1>11 DEF AuthInv, DatabaseInv, OwnersRegistered, WipedOpened,
       Inv, TypeOK, Opt
  <1>17. \/ pw[u] = 0
         \/ u \in unsettled
         \/ r \in Resetting(u)
    <2>1. pw[u] = 0 \/ x.new > 1
      BY <1>1, <1>2
    <2> QED
      BY <1>1, <2>1 DEF Resetting
  <1>18. Relogin'
    <2> SUFFICES ASSUME NEW v \in Users \ unsettled PROVE Settled(v)'
      BY <1>5 DEF Relogin
    <2>1. Settled(v)
      BY DEF AuthInv, DatabaseInv, Relogin
    <2>2. /\ \A q \in Resetting(v)' : q \in Resetting(v)
          /\ \A q \in LoggingIn(v)' : q \in LoggingIn(v) /\ tx'[q] = tx[q]
      BY <1>8, <1>13, NoTxType DEF Resetting, LoggingIn
    <2>3. v = u => LoggingIn(v) = {}
      <3>1. \A q \in LoggingIn(v) : pw[v] > 0 /\ Resetting(v) = {}
        BY <2>1, HandlerFacts DEF LoggingIn, TxFacts, Settled, LoginsCurrent
      <3>2. v = u /\ pw[v] > 0 => r \in Resetting(v)
        BY <1>17
      <3> QED
        BY <3>1, <3>2
    <2>4. LoginsCurrent(v)'
      <3> SUFFICES ASSUME NEW q \in LoggingIn(v)'
                   PROVE  tx'[q].saw = pw'[v] /\ Resetting(v)' = {}
        BY DEF LoginsCurrent
      <3>1. q \in LoggingIn(v) /\ tx'[q] = tx[q] /\ v # u
        BY <2>2, <2>3
      <3>2. tx[q].saw = pw[v] /\ Resetting(v) = {}
        BY <2>1, <3>1 DEF Settled, LoginsCurrent
      <3> QED
        BY <1>3, <2>2, <3>1, <3>2
    <2>5. ResetCoversAll(v)'
      BY <1>6, <2>1, <2>2 DEF Settled, ResetCoversAll
    <2>6. WipedAreListed(v)'
      <3> SUFFICES ASSUME NEW k \in wiped, owner[k] = v, k \notin Ended
                   PROVE  \E q \in Requests :
                             tx'[q].user = v /\ tx'[q].pc = "revoking"
        BY <1>6 DEF WipedAreListed
      <3>1. PICK q \in Requests : tx[q].user = v /\ tx[q].pc = "revoking"
        BY <2>1 DEF Settled, WipedAreListed
      <3> QED
        BY <1>1, <1>8, <3>1
    <2>7. SessionsCurrent(v)'
      <3> SUFFICES ASSUME NEW k \in Sids, owner[k] = v
                   PROVE  cred[k] = pw'[v] \/ k \in Ended
        BY <1>5, <1>6 DEF SessionsCurrent
      <3>1. CASE v # u
        BY <1>3, <2>1, <3>1 DEF Settled, SessionsCurrent
      <3>2. CASE v = u
        <4>1. v # None
          BY NoneAssumption
        <4>2. pw[v] > 0
          BY <4>1 DEF AuthInv, DatabaseInv, OwnersRegistered
        <4>3. r \in Resetting(v)
          BY <1>17, <3>2, <4>2
        <4> QED
          BY <1>1, <2>1, <4>3, IdleFacts DEF Settled, ResetCoversAll
      <3> QED
        BY <3>1, <3>2
    <2> QED
      BY <2>4, <2>5, <2>6, <2>7 DEF Settled
  <1> QED
    BY <1>7, <1>9, <1>12, <1>14, <1>15, <1>16, <1>18 DEF AuthInv, DatabaseInv

-----------------------------------------------------------------------------
(* Every step keeps the invariant, and is a step of the token store or leaves
   it alone. *)
LEMMA AuthStep ==
    ASSUME AuthInv, [AuthNext]_authVars
    PROVE  AuthInv' /\ [Next]_vars
  <1>1. ASSUME NEW r \in Requests, RegisterMutation(r)
        PROVE  AuthInv' /\ [Next]_vars
    <2>1. ASSUME NEW u \in Users, Register(r, u) PROVE AuthInv' /\ UNCHANGED vars
      BY <2>1, StartStep DEF Register
    <2>2. CASE InsertUser(r)
      BY <2>2, InsertUserStep DEF InsertUser
    <2> QED
      BY <1>1, <2>1, <2>2 DEF RegisterMutation
  <1>2. ASSUME NEW r \in Requests, LoginMutation(r)
        PROVE  AuthInv' /\ [Next]_vars
    <2>1. ASSUME NEW u \in Users, Login(r, u) PROVE AuthInv' /\ UNCHANGED vars
      BY <2>1, LoginStep DEF Login
    <2> QED
      BY <1>2, <2>1, LoginSessionStep DEF LoginMutation
  <1>3. ASSUME NEW r \in Requests, ResetMutation(r)
        PROVE  AuthInv' /\ [Next]_vars
    <2>1. ASSUME NEW u \in Users, ResetPassword(r, u)
          PROVE  AuthInv' /\ UNCHANGED vars
      BY <2>1, StartStep DEF ResetPassword
    <2>2. CASE UpdateUser(r)
      BY <2>2, UpdateUserStep DEF UpdateUser
    <2>3. CASE RecordAudit(r)
      BY <2>3, RecordAuditStep DEF RecordAudit
    <2> QED
      BY <1>3, <2>1, <2>2, <2>3, RevokeAllStep, RevokeLoopStep, RevokeFailsStep
         DEF ResetMutation
  <1>4. ASSUME NEW r \in Requests, Commit(r) PROVE AuthInv' /\ [Next]_vars
    BY <1>4, EmptyCommit, PasswordCommit DEF Commit
  <1>5. ASSUME NEW r \in Requests, Abort(r) PROVE AuthInv' /\ [Next]_vars
    BY <1>5, AuthAbortStep
  <1>6. ASSUME NEW r \in Requests, StoreOnly(r) PROVE AuthInv' /\ [Next]_vars
    BY <1>6, StoreOnlyStep
  <1>7. CASE Tick /\ UNCHANGED database
    BY <1>7, ExpiryStep DEF Next
  <1>8. CASE UNCHANGED authVars
    <2>1. UNCHANGED <<vars, database>>
      BY <1>8 DEF authVars
    <2>2. UNCHANGED <<owner, wiped, req>> /\ \A s \in Ended : s \in Ended'
      BY <2>1 DEF vars, history, Ended
    <2>3. Inv'
      BY <2>1, StepInv DEF AuthInv
    <2> QED
      BY <2>1, <2>2, <2>3, QuietStep
  <1> QED
    BY <1>1, <1>2, <1>3, <1>4, <1>5, <1>6, <1>7, <1>8 DEF AuthNext

-----------------------------------------------------------------------------
(* The theorems. *)

(* The inductive invariant holds in every reachable state. *)
THEOREM AuthInvariance == AuthSpec => []AuthInv
  BY AuthInitInv, AuthStep, PTL DEF AuthSpec

(* Types, for any number of users and requests. *)
THEOREM AuthTypeCorrect == AuthSpec => []AuthTypeOK
  <1>1. AuthInv => AuthTypeOK
    BY DEF AuthInv
  <1> QED
    BY <1>1, AuthInvariance, PTL

(* The composition implements the token store by itself: register, login and
   resetPassword do to Redis only what TokenStore's steps do, so what is
   proved of TokenStore's Spec holds of the whole service. *)
THEOREM ImplementsTokenStore == AuthSpec => Spec
  <1>1. AuthInit => Init
    BY DEF AuthInit
  <1>2. AuthInv /\ [AuthNext]_authVars => [Next]_vars
    BY AuthStep
  <1> QED
    BY <1>1, <1>2, AuthInvariance, PTL DEF AuthSpec, Spec

(* An email is registered once, and then has an account. *)
THEOREM OneAccount == AuthSpec => []RegisteredOnce
  <1>1. AuthInv => RegisteredOnce
    <2> SUFFICES ASSUME AuthInv, NEW u \in Users
                 PROVE  welcomed[u] <= 1 /\ (welcomed[u] = 1 => pw[u] > 0)
      BY DEF RegisteredOnce
    <2>1. welcomed[u] = IF pw[u] > 0 THEN 1 ELSE 0
      BY DEF AuthInv, DatabaseInv, Accounts
    <2> QED
      BY <2>1
  <1> QED
    BY <1>1, AuthInvariance, PTL

(* The sessions opened with an older password have ended once a new one is
   committed, unless a login overlapped or the revocation stopped. *)
THEOREM ReloginForced == AuthSpec => []ForcedRelogin
  <1>1. AuthInv => ForcedRelogin
    <2> SUFFICES ASSUME AuthInv, NEW s \in Sids, owner[s] # None,
                        owner[s] \notin unsettled
                 PROVE  cred[s] = pw[owner[s]] \/ s \in Ended
      BY DEF ForcedRelogin
    <2>1. owner[s] \in Users
      BY DEF AuthInv, Inv, TypeOK, Opt
    <2>2. SessionsCurrent(owner[s])
      BY <2>1 DEF AuthInv, DatabaseInv, Relogin, Settled
    <2> QED
      BY <2>2 DEF SessionsCurrent
  <1> QED
    BY <1>1, AuthInvariance, PTL

(* The me query answers the user who logged in, for every accepted token. *)
THEOREM MeAnswersOwner == AuthSpec => []MeIsOwner
  <1>1. AuthInv => MeIsOwner
    <2> SUFFICES ASSUME AuthInv, NEW t \in Pairs, Accepted(t)
                 PROVE  Me(t) = owner[payload[t].sid]
      BY DEF MeIsOwner
    <2>1. access[t] # 0
      BY DEF Accepted
    <2>2. /\ payload[t].sid # None
          /\ owner[payload[t].sid] # None
          /\ payload[t].sub = owner[payload[t].sid]
      BY <2>1 DEF AuthInv, Inv, StoreInv, IssuedToOwner
    <2>3. payload[t].sid \in Sids
      BY <2>2 DEF AuthInv, Inv, TypeOK, Payload, Opt
    <2>4. pw[owner[payload[t].sid]] > 0
      BY <2>2, <2>3 DEF AuthInv, DatabaseInv, OwnersRegistered
    <2> QED
      BY <2>2, <2>4 DEF Me, HasRow
  <1> QED
    BY <1>1, AuthInvariance, PTL
=============================================================================
