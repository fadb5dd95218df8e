-------------------------- MODULE ResetRetryProofs --------------------------
(***************************************************************************)
(* Proofs about ResetRetry.  The composition implements both components,   *)
(* so that the invariants proved of each hold of it; a third invariant     *)
(* relates an attempt of the extension to the transaction of its handler.  *)
(***************************************************************************)
EXTENDS ResetRetry, TLAPS

(* The components with their proofs, on the composition's state. *)
RP == INSTANCE PasswordResetProofs
IP == INSTANCE IdempotencyProofs WITH
        Variables <- Users \cup {NoVariables},
        Hash <- [b \in Bodies |-> VariablesOf(b)],
        Effects <- Tokens, Attempts <- Requesters

-----------------------------------------------------------------------------
(* The inductive invariant. *)

(* Where the extension is tells where its handler's transaction is: open from
   the handler's first statement until the scope is left, which is after the
   record was stored.  The response in hand is the token of the transaction,
   or an error. *)
Nested(a) ==
    /\ att[a].pc = "idle" => tx[a].pc \in {"idle", "commit"}
    /\ att[a].pc = "execute" =>
         tx[a].pc \in {"idle", "delete", "insert", "mail"}
    /\ att[a].pc = "store" => tx[a].pc \in {"audit", "commit"}
    /\ att[a].pc = "answered" => tx[a].pc \in {"idle", "commit"}
    /\ att[a].pc = "conflict" => tx[a].pc = "idle"
    /\ att[a].pc \in {"store", "answered"} /\ tx[a].pc # "idle" =>
         att[a].resp \in {tx[a].tok, None}

(* A response that names a token was mailed, and a mailed token was issued. *)
ResponsesMailed ==
    /\ \A a \in Requesters : att[a].resp \in Tokens => att[a].resp \in mailed
    /\ \A k \in Keys : cache[k].resp \in Tokens => cache[k].resp \in mailed
    /\ \A t \in mailed : user[t] # None

(* A record that names a token not yet committed was stored by the attempt
   that is about to commit it. *)
StoredByOwn ==
    \A a \in Requesters, k \in Keys :
        tx[a].tok \in Tokens /\ cache[k].resp = tx[a].tok =>
            att[a].pc = "answered"

(* A transaction that a failed flush has rolled back loses its token. *)
DeadIsLost ==
    \A a \in Requesters :
        tx[a].dead = TRUE /\ tx[a].tok \in Tokens => tx[a].tok \in lost

(* A request never deletes the token its own key's record names. *)
OwnKeySpared ==
    \A a \in Requesters, k \in Keys \ shaken :
        att[a].key = k /\ cache[k].ttl > 0 => cache[k].resp \notin tx[a].locks

(* The token a record names. *)
Kept(t) == row[t] # "absent" \/ InFlight(t) \/ t \in lost \cup replaced

RecordsKept ==
    \A k \in Keys \ shaken :
        cache[k].ttl > 0 /\ cache[k].resp \in Tokens => Kept(cache[k].resp)

Link ==
    /\ \A a \in Requesters : Nested(a)
    /\ ResponsesMailed
    /\ StoredByOwn
    /\ DeadIsLost
    /\ OwnKeySpared
    /\ RecordsKept

-----------------------------------------------------------------------------
(* The composition takes its steps from R and I, the proofs of the components
   are about RP and IP: the same definitions under two names. *)

(* The components' assumptions hold of the composition's constants. *)
LEMMA ResetConstants ==
    RP!TTLAssumption /\ RP!NoneAssumption /\ RP!RoleAssumption
  BY TTLAssumption, NoneAssumption, RoleAssumption
     DEF RP!TTLAssumption, RP!NoneAssumption, RP!RoleAssumption

LEMMA RecordConstants ==
    IP!TTLAssumption /\ IP!HashAssumption /\ IP!NoneAssumption
  BY TTLAssumption, NoneAssumption, BodyAssumption
     DEF VariablesOf, IP!TTLAssumption, IP!HashAssumption, IP!NoneAssumption

(* The start of a request. *)
LEMMA SameRequest ==
    ASSUME NEW p, NEW u, R!RequestReset(p, u)
    PROVE  RP!RequestReset(p, u)
  BY DEF R!RequestReset, RP!RequestReset, R!Idle, RP!Idle, R!RowsOf, RP!RowsOf,
     R!Found, RP!Found, R!table, RP!table

(* The start of a reset. *)
LEMMA SameFind ==
    ASSUME NEW p, NEW t, R!FindByToken(p, t)
    PROVE  RP!FindByToken(p, t)
  BY DEF R!FindByToken, RP!FindByToken, R!Idle, RP!Idle, R!Found, RP!Found,
     R!Consumable, RP!Consumable, R!table, RP!table

(* The statements of both handlers. *)
LEMMA SameAdvance ==
    ASSUME NEW p, R!Advance(p)
    PROVE  RP!Advance(p)
  <1>1. R!DeleteAllByUserId(p) => RP!DeleteAllByUserId(p)
    BY DEF R!DeleteAllByUserId, RP!DeleteAllByUserId, R!table, RP!table,
       R!history, RP!history
  <1>2. ASSUME NEW t \in Tokens
        PROVE  /\ R!InsertToken(p, t) => RP!InsertToken(p, t)
               /\ R!DeleteRow(p, t) => RP!DeleteRow(p, t)
    <2>1. R!InsertToken(p, t) => RP!InsertToken(p, t)
      BY DEF R!InsertToken, RP!InsertToken, R!Expiry, RP!Expiry, R!history,
         RP!history
    <2>2. R!DeleteRow(p, t) => RP!DeleteRow(p, t)
      BY DEF R!DeleteRow, RP!DeleteRow, R!LockedByOther, RP!LockedByOther,
         R!Processes, RP!Processes, R!table, RP!table, R!history, RP!history
    <2> QED
      BY <2>1, <2>2
  <1>3. R!SendResetEmail(p) => RP!SendResetEmail(p)
    BY DEF R!SendResetEmail, RP!SendResetEmail, R!history, RP!history
  <1>4. R!SaveUser(p) => RP!SaveUser(p)
    BY DEF R!SaveUser, RP!SaveUser, R!UserRowFree, RP!UserRowFree,
       R!Processes, RP!Processes, R!table, RP!table, R!history, RP!history
  <1>5. R!SaveTokenRead(p) => RP!SaveTokenRead(p)
    BY DEF R!SaveTokenRead, RP!SaveTokenRead, R!SaveStep, RP!SaveStep,
       R!table, RP!table, R!history, RP!history
  <1>6. R!ReinsertToken(p) => RP!ReinsertToken(p)
    BY DEF R!ReinsertToken, RP!ReinsertToken, R!table, RP!table, R!history,
       RP!history
  <1>7. R!UpdateToken(p) => RP!UpdateToken(p)
    BY DEF R!UpdateToken, RP!UpdateToken, R!LockedByOther, RP!LockedByOther,
       R!Processes, RP!Processes, R!Killed, RP!Killed, R!table, RP!table,
       R!history, RP!history
  <1>8. R!RevokeAllUserSessions(p) => RP!RevokeAllUserSessions(p)
    BY DEF R!RevokeAllUserSessions, RP!RevokeAllUserSessions, R!table,
       RP!table, R!history, RP!history
  <1>9. R!RecordAudit(p) => RP!RecordAudit(p)
    BY DEF R!RecordAudit, RP!RecordAudit, R!Recorded, RP!Recorded, R!Killed,
       RP!Killed, R!table, RP!table, R!history, RP!history
  <1>10. R!Commit(p) => RP!Commit(p)
    BY DEF R!Commit, RP!Commit, R!Idle, RP!Idle, R!Committed, RP!Committed,
       R!SavedToken, RP!SavedToken, R!Released, RP!Released,
       R!AnswersSuccess, RP!AnswersSuccess, R!Deleted, RP!Deleted,
       R!Processes, RP!Processes
  <1>11. R!DeadlockDetected(p) => RP!DeadlockDetected(p)
    BY DEF R!DeadlockDetected, RP!DeadlockDetected, R!Circle, RP!Circle,
       R!Waits, RP!Waits, R!Processes, RP!Processes, R!Killed, RP!Killed,
       R!table, RP!table, R!history, RP!history
  <1>12. R!InsertFails(p) => RP!InsertFails(p)
    BY DEF R!InsertFails, RP!InsertFails, R!Killed, RP!Killed, R!table,
       RP!table, R!history, RP!history
  <1> QED
    BY <1>1, <1>2, <1>3, <1>4, <1>5, <1>6, <1>7, <1>8, <1>9, <1>10, <1>11,
       <1>12 DEF R!Advance, RP!Advance

(* A step of PasswordReset is a step of the one its theorems are about. *)
LEMMA SameReset == [R!Next]_(R!vars) => [RP!Next]_(RP!vars)
  <1>1. ASSUME NEW p, R!Abort(p) PROVE RP!Abort(p)
    BY <1>1 DEF R!Abort, RP!Abort, R!Idle, RP!Idle, R!table, RP!table,
       R!history, RP!history
  <1>2. R!Tick => RP!Tick
    BY DEF R!Tick, RP!Tick, R!history, RP!history
  <1>3. R!Next => RP!Next
    BY <1>1, <1>2, SameRequest, SameFind, SameAdvance
       DEF R!Next, RP!Next, R!Processes, RP!Processes
  <1>4. UNCHANGED R!vars => UNCHANGED RP!vars
    BY DEF R!vars, RP!vars, R!table, RP!table, R!history, RP!history
  <1> QED
    BY <1>3, <1>4

(* The mutation's outcomes and the rest of an attempt. *)
LEMMA SameServe ==
    ASSUME NEW a, I!Serve(a)
    PROVE  IP!Serve(a)
  <1>1. ASSUME NEW k \in Keys, NEW b \in Bodies, I!Begin(a, k, b)
        PROVE  IP!Begin(a, k, b)
    BY <1>1 DEF I!Begin, IP!Begin, I!Decision, IP!Decision, I!Matches,
       IP!Matches, I!Running, IP!Running
  <1>2. ASSUME NEW b \in Bodies, I!BeginPlain(a, b) PROVE IP!BeginPlain(a, b)
    BY <1>2 DEF I!BeginPlain, IP!BeginPlain, I!Idle, IP!Idle
  <1>3. ASSUME NEW e \in Tokens, I!Execute(a, e) PROVE IP!Execute(a, e)
    BY <1>3 DEF I!Execute, IP!Execute, I!Nobody, IP!Nobody
  <1>4. /\ I!ExecuteRefused(a) => IP!ExecuteRefused(a)
        /\ I!ExecuteErrors(a) => IP!ExecuteErrors(a)
    BY DEF I!ExecuteRefused, IP!ExecuteRefused, I!ExecuteErrors,
       IP!ExecuteErrors
  <1>5. I!Store(a) => IP!Store(a)
    BY DEF I!Store, IP!Store, I!Storable, IP!Storable, I!Record, IP!Record
  <1>6. I!Answer(a) => IP!Answer(a)
    BY DEF I!Answer, IP!Answer, I!Idle, IP!Idle
  <1> QED
    BY <1>1, <1>2, <1>3, <1>4, <1>5, <1>6 DEF I!Serve, IP!Serve

(* A step of Idempotency is a step of the one its theorems are about. *)
LEMMA SameRecord == [I!Next]_(I!vars) => [IP!Next]_(IP!vars)
  <1>1. ASSUME NEW a, I!Crash(a) PROVE IP!Crash(a)
    BY <1>1 DEF I!Crash, IP!Crash, I!Idle, IP!Idle
  <1>2. I!Tick => IP!Tick
    BY DEF I!Tick, IP!Tick, I!NoRecord, IP!NoRecord, I!Running, IP!Running
  <1>3. I!Next => IP!Next
    BY <1>1, <1>2, SameServe DEF I!Next, IP!Next
  <1>4. UNCHANGED I!vars => UNCHANGED IP!vars
    BY DEF I!vars, IP!vars
  <1> QED
    BY <1>3, <1>4

(* The initial states. *)
LEMMA SameInit == (R!Init => RP!Init) /\ (I!Init => IP!Init)
  BY DEF R!Init, RP!Init, R!Processes, RP!Processes, R!Idle, RP!Idle,
     I!Init, IP!Init, I!NoRecord, IP!NoRecord, I!Idle, IP!Idle, I!Nobody,
     IP!Nobody

-----------------------------------------------------------------------------
(* The composition implements its components.  A step of one is a step of the
   other's only with what the other's invariant says: the body an attempt
   executes with is an email, the effect it records is an issued token. *)

Components == RP!Inv /\ IP!Inv

(* What a step of the composition is to PasswordReset. *)
LEMMA ResetSteps == Components /\ [Next]_vars => [R!Next]_(R!vars)
  <1> SUFFICES ASSUME Components, [Next]_vars PROVE R!Next \/ UNCHANGED R!vars
    OBVIOUS
  <1>1. UNCHANGED request => UNCHANGED R!vars
    BY DEF request, R!vars, R!table, R!history
  <1>2. ASSUME NEW a \in Requesters,
               \/ Handle(a) \/ Statement(a) \/ Raise(a) \/ Mail(a)
               \/ Audit(a) \/ Commit(a)
        PROVE  R!Next
    <2>1. ASSUME Handle(a) PROVE \E u \in Users : R!RequestReset(a, u)
      <3>1. att[a].body \in Bodies
        BY <2>1 DEF Handle, Components, IP!Inv, IP!Known, IP!AttemptKnows
      <3>2. att[a].body.email \in Users
        BY <3>1, BodyAssumption
      <3> QED
        BY <2>1, <3>2 DEF Handle
    <2> QED
      BY <1>2, <2>1
         DEF Statement, Raise, Mail, Audit, Commit, R!Next, R!Advance,
         R!Processes
  <1> QED
    BY <1>1, <1>2 DEF Next, vars, Lookup, Record, Answer, Die, Reset, TokenTick,
       RecordTick, R!Next, R!Processes

(* What a step of the composition is to Idempotency. *)
LEMMA RecordSteps == Components /\ [Next]_vars => [I!Next]_(I!vars)
  <1> SUFFICES ASSUME Components, [Next]_vars PROVE I!Next \/ UNCHANGED I!vars
    OBVIOUS
  <1>1. UNCHANGED record => UNCHANGED I!vars
    BY DEF record, I!vars
  <1>2. ASSUME NEW a \in Requesters, Mail(a) PROVE I!Next
    <2>1. tx[a].tok \in Tokens
      BY <1>2 DEF Mail, R!SendResetEmail, Components, RP!Inv, RP!Located,
         RP!RequesterOK
    <2> QED
      BY <1>2, <2>1 DEF Mail, I!Next, I!Serve
  <1>3. ASSUME NEW a \in Requesters,
               \/ Record(a) \/ Commit(a) \/ Answer(a) \/ Die(a)
               \/ Raise(a)
        PROVE  I!Next \/ UNCHANGED record
    BY <1>3 DEF Raise, Record, Commit, Answer, Die, Closed, I!Next, I!Serve
  <1>4. ASSUME NEW a \in Requesters, NEW k \in Keys, NEW b \in Bodies,
               Lookup(a, k, b)
        PROVE  I!Next
    BY <1>4 DEF Lookup, I!Next, I!Serve
  <1> QED
    BY <1>1, <1>2, <1>3, <1>4
       DEF Next, vars, Handle, Statement, Audit, Reset, TokenTick, RecordTick,
       I!Next

(* Both components' invariants hold together. *)
LEMMA ComponentsInv == Spec => []Components
  <1> USE ResetConstants, RecordConstants
          DEF RP!TTLAssumption, RP!NoneAssumption, RP!RoleAssumption,
              IP!TTLAssumption, IP!HashAssumption, IP!NoneAssumption
  <1>1. Init => Components
    BY RP!InitInv, IP!InitInv, SameInit DEF Init, Components
  <1>2. Components /\ [Next]_vars => Components'
    BY ResetSteps, RecordSteps, SameReset, SameRecord, RP!StepInv, IP!StepInv
       DEF Components
  <1> QED
    BY <1>1, <1>2, PTL DEF Spec

(* requestPasswordReset behind the extension is still PasswordReset: what is
   proved of the two reset mutations holds when requests are retried. *)
THEOREM ImplementsPasswordReset == Spec => R!Spec
  BY ComponentsInv, ResetSteps, PTL DEF Spec, Init, R!Spec

(* The extension around requestPasswordReset is still Idempotency: what is
   proved of records and replays holds with this mutation inside. *)
THEOREM ImplementsIdempotency == Spec => I!Spec
  BY ComponentsInv, RecordSteps, PTL DEF Spec, Init, I!Spec

-----------------------------------------------------------------------------
(* What the components' invariants say about a request. *)

(* The transaction of a request: its token is new, and no request deletes a
   token that is not committed. *)
LEMMA Transactions ==
    ASSUME Components, NEW a \in Requesters
    PROVE  /\ tx[a].pc \in
                {"idle", "delete", "insert", "mail", "audit", "commit"}
           /\ tx[a].pc = "idle" <=> tx[a] = R!Idle
           /\ tx[a].tok \in Tokens \cup {None} /\ None \notin Tokens
           /\ tx[a].pc \in {"idle", "delete", "insert"} => tx[a].tok = None
           /\ tx[a].pc \in {"mail", "audit"} => tx[a].tok \in Tokens
           /\ tx[a].pc = "idle" => tx[a].locks = {}
           /\ tx[a].locks \subseteq Tokens
           /\ tx[a].pc # "idle" => tx[a].user \in Users
           /\ tx[a].dead \in BOOLEAN
           /\ tx[a].dead = TRUE => tx[a].pc = "commit"
           /\ tx[a].tok \in Tokens =>
                /\ row[tx[a].tok] = "absent"
                /\ \A b \in Requesters :
                     /\ b # a => tx[b].tok # tx[a].tok
                     /\ tx[a].tok \notin tx[b].locks
  <1>1. a \in RP!Processes
    BY DEF RP!Processes
  <1>2. RP!RequesterOK(tx[a])
    BY DEF Components, RP!Inv, RP!Located
  <1>3. /\ tx[a].tok \in Tokens \cup {None} /\ tx[a].locks \subseteq Tokens
        /\ tx[a].dead \in BOOLEAN
    BY <1>1 DEF Components, RP!Inv, RP!TypeOK
  <1>4. R!Idle.pc = "idle" /\ R!Idle = RP!Idle /\ R!Idle.tok = None
        /\ R!Idle.locks = {}
    BY DEF R!Idle, RP!Idle
  <1>5. ASSUME tx[a].tok \in Tokens, NEW b \in Requesters
        PROVE  /\ row[tx[a].tok] = "absent"
               /\ b # a => tx[b].tok # tx[a].tok
               /\ tx[a].tok \notin tx[b].locks
    <2>1. b \in RP!Processes /\ RP!RequesterOK(tx[b])
      BY DEF Components, RP!Inv, RP!Located, RP!Processes
    <2>2. /\ row[tx[a].tok] = "absent"
          /\ b # a => tx[b].tok # tx[a].tok
      BY <1>5, <2>1 DEF Components, RP!Inv, RP!Unborn
    <2> QED
      BY <1>5, <2>1, <2>2 DEF RP!RequesterOK
  <1>6. None \notin Tokens
    BY NoneAssumption
  <1> QED
    BY <1>2, <1>3, <1>4, <1>5, <1>6 DEF RP!RequesterOK

(* The attempt of a request. *)
LEMMA Attempts ==
    ASSUME Components, NEW a \in Requesters
    PROVE  /\ att[a].pc \in {"idle", "execute", "store", "answered", "conflict"}
           /\ att[a].pc \in {"idle", "execute", "conflict"} =>
                att[a].resp = None
           /\ att[a].key \in Keys \cup {None} /\ None \notin Keys
           /\ \A k \in Keys \ shaken :
                att[a].key = k /\ att[a].pc \in {"execute", "store"} =>
                    ~(cache[k].ttl > 0)
  <1>1. /\ att[a].pc \in {"idle", "execute", "store", "answered", "conflict"}
        /\ att[a].key \in Keys \cup {None}
    BY DEF Components, IP!Inv, IP!TypeOK
  <1>2. att[a].pc \in {"idle", "execute", "conflict"} => att[a].resp = None
    BY DEF Components, IP!Inv, IP!Known, IP!AttemptKnows
  <1>3. ASSUME NEW k \in Keys \ shaken, att[a].key = k,
               att[a].pc \in {"execute", "store"}
        PROVE  ~(cache[k].ttl > 0)
    <2>1. cache[k].ttl = 0
      BY <1>3 DEF Components, IP!Inv, IP!QuietKeys, IP!Quiet, IP!Running
    <2> QED
      BY <2>1
  <1> QED
    BY <1>1, <1>2, <1>3, NoneAssumption

(* A step of one request leaves the transactions of the others alone. *)
LEMMA OneTx ==
    ASSUME Components, NEW a \in Requesters, NEW y, tx' = [tx EXCEPT ![a] = y]
    PROVE  /\ tx'[a] = y
           /\ \A b \in Requesters : b # a => tx'[b] = tx[b]
  BY DEF Components, RP!Inv, RP!TypeOK, RP!Processes

(* ... and the attempts. *)
LEMMA OneAttempt ==
    ASSUME Components, NEW a \in Requesters, NEW q, att' = [att EXCEPT ![a] = q]
    PROVE  /\ att'[a] = q
           /\ \A b \in Requesters : b # a => att'[b] = att[b]
  BY DEF Components, IP!Inv, IP!TypeOK

-----------------------------------------------------------------------------
(* The steps keep Link. *)

(* The lookup: there is no transaction, and a replay answers with a record. *)
LEMMA LookupStep ==
    ASSUME Components, Link, NEW a \in Requesters, NEW k \in Keys,
           NEW w \in Bodies, Lookup(a, k, w)
    PROVE  Link'
  <1> DEFINE next == I!Decision(cache[k], w)
             q == [pc |-> next, key |-> k, body |-> w,
                   resp |-> IF next = "answered" THEN cache[k].resp ELSE None]
  <1>1. /\ tx[a] = R!Idle /\ att' = [att EXCEPT ![a] = q]
        /\ shaken \subseteq shaken'
        /\ UNCHANGED <<cache, row, user, mailed, tx, lost, replaced>>
    BY DEF Lookup, I!Begin, request
  <1>2. next \in {"execute", "answered", "conflict"}
    BY DEF I!Decision
  <1> HIDE DEF next
  <1>3. /\ q.pc = next /\ q.key = k
        /\ q.resp = IF next = "answered" THEN cache[k].resp ELSE None
    OBVIOUS
  <1> HIDE DEF q
  <1>4. /\ att'[a] = q /\ \A b \in Requesters : b # a => att'[b] = att[b]
    BY <1>1, OneAttempt
  <1>5. /\ tx[a].pc = "idle" /\ tx[a].tok = None /\ tx[a].locks = {}
        /\ None \notin Tokens
    BY <1>1, Transactions DEF R!Idle
  <1>6. \A b \in Requesters : Nested(b)'
    BY <1>1, <1>2, <1>3, <1>4, <1>5 DEF Link, Nested
  <1>7. ResponsesMailed'
    BY <1>1, <1>3, <1>4, <1>5 DEF Link, ResponsesMailed
  <1>8. StoredByOwn' /\ DeadIsLost'
    BY <1>1, <1>4, <1>5 DEF Link, StoredByOwn, DeadIsLost
  <1>9. OwnKeySpared' /\ RecordsKept'
    BY <1>1, <1>4, <1>5 DEF Link, OwnKeySpared, RecordsKept, Kept, InFlight
  <1> QED
    BY <1>6, <1>7, <1>8, <1>9 DEF Link

(* A statement of the handler: nothing is committed, the extension waits. *)
LEMMA StatementStep ==
    ASSUME Components, Link, NEW a \in Requesters, NEW y,
           tx' = [tx EXCEPT ![a] = y],
           UNCHANGED <<cache, att, shaken, row, mailed, replaced>>,
           lost \subseteq lost',
           y.pc # "idle",
           att[a].pc = "execute" => y.pc \in {"delete", "insert", "mail"},
           att[a].pc = "store" => y.pc \in {"audit", "commit"},
           att[a].pc \in {"execute", "store"},
           \/ y.tok = tx[a].tok
           \/ tx[a].tok = None /\ y.tok \notin mailed /\ att[a].pc = "execute",
           y.dead = TRUE /\ y.tok \in Tokens => y.tok \in lost',
           y.locks \subseteq tx[a].locks \/ att[a].pc = "execute",
           \A t \in mailed : user[t] # None => user'[t] # None
    PROVE  Link'
  <1>1. tx'[a] = y /\ \A b \in Requesters : b # a => tx'[b] = tx[b]
    BY OneTx
  <1>2. /\ \A b \in Requesters : att[b].pc = "execute" => att[b].resp = None
        /\ None \notin Tokens
    BY Attempts, Transactions
  <1>3. \A b \in Requesters : Nested(b)'
    <2>1. att[a].pc = "store" => y.tok = tx[a].tok
      OBVIOUS
    <2> QED
      BY <1>1, <2>1, Transactions DEF Link, Nested
  <1>4. ResponsesMailed'
    BY DEF Link, ResponsesMailed
  <1>5. StoredByOwn'
    BY <1>1 DEF Link, StoredByOwn, ResponsesMailed
  <1>6. DeadIsLost'
    BY <1>1 DEF Link, DeadIsLost
  <1>7. OwnKeySpared'
    BY <1>1, Attempts DEF Link, OwnKeySpared
  <1>8. RecordsKept'
    <2>1. \A t \in Tokens : InFlight(t) => InFlight(t)'
      BY <1>1, <1>2 DEF InFlight
    <2> QED
      BY <2>1 DEF Link, RecordsKept, Kept
  <1> QED
    BY <1>3, <1>4, <1>5, <1>6, <1>7, <1>8 DEF Link

(* The handler starts. *)
LEMMA HandleStep ==
    ASSUME Components, Link, NEW a \in Requesters, Handle(a)
    PROVE  Link'
  <1> DEFINE u == att[a].body.email
             y == [R!Idle EXCEPT !.pc = "delete", !.user = u,
                                 !.want = R!RowsOf(u)]
  <1>1. /\ att[a].pc = "execute" /\ tx[a] = R!Idle
        /\ tx' = [tx EXCEPT ![a] = y]
        /\ UNCHANGED <<cache, att, shaken, row, user, mailed, replaced, lost>>
    BY DEF Handle, R!RequestReset, R!table, record
  <1>2. y.pc = "delete" /\ y.tok = tx[a].tok /\ y.dead = FALSE /\ y.locks = {}
    BY <1>1 DEF R!Idle
  <1> HIDE DEF y
  <1> QED
    BY <1>1, <1>2, StatementStep

(* The DELETE goes through its rows.  The key has no record, or was shaken. *)
LEMMA DeleteStep ==
    ASSUME Components, Link, NEW a \in Requesters,
           \/ R!DeleteAllByUserId(a)
           \/ \E t \in Tokens : R!DeleteRow(a, t),
           UNCHANGED <<record, lost, replaced>>
    PROVE  Link'
  <1>1. tx[a] \in RP!Transaction
    BY DEF Components, RP!Inv, RP!TypeOK, RP!Transaction, RP!Processes
  <1>2. PICK y : /\ tx' = [tx EXCEPT ![a] = y]
                 /\ y.pc \in {"delete", "insert"}
                 /\ y.tok = tx[a].tok /\ y.dead = tx[a].dead
    <2>1. CASE R!DeleteAllByUserId(a)
      <3> DEFINE y == [tx[a] EXCEPT !.pc = "insert"]
      <3>1. tx' = [tx EXCEPT ![a] = y]
        BY <2>1 DEF R!DeleteAllByUserId
      <3>2. y.pc = "insert" /\ y.tok = tx[a].tok /\ y.dead = tx[a].dead
        BY <1>1 DEF RP!Transaction
      <3> QED
        BY <3>1, <3>2
    <2>2. ASSUME NEW t \in Tokens, R!DeleteRow(a, t)
          PROVE  \E y : /\ tx' = [tx EXCEPT ![a] = y]
                        /\ y.pc \in {"delete", "insert"}
                        /\ y.tok = tx[a].tok /\ y.dead = tx[a].dead
      <3> DEFINE y == [tx[a] EXCEPT !.want = @ \ {t}, !.locks = @ \cup {t}]
      <3>1. tx' = [tx EXCEPT ![a] = y] /\ tx[a].pc = "delete"
        BY <2>2 DEF R!DeleteRow
      <3>2. y.pc = tx[a].pc /\ y.tok = tx[a].tok /\ y.dead = tx[a].dead
        BY <1>1 DEF RP!Transaction
      <3> QED
        BY <3>1, <3>2
    <2> QED
      BY <2>1, <2>2
  <1>3. /\ tx[a].pc = "delete"
        /\ UNCHANGED <<cache, att, shaken, row, user, mailed, replaced, lost>>
    BY DEF R!DeleteAllByUserId, R!DeleteRow, R!table, record
  <1>4. att[a].pc = "execute"
    BY <1>3, Attempts DEF Link, Nested
  <1>5. tx[a].dead # TRUE
    BY <1>3, Transactions
  <1> QED
    BY <1>2, <1>3, <1>4, <1>5, StatementStep

(* The INSERT uses a token nobody has been mailed. *)
LEMMA InsertStep ==
    ASSUME Components, Link, NEW a \in Requesters, NEW t \in Tokens,
           R!InsertToken(a, t), UNCHANGED <<record, lost, replaced>>
    PROVE  Link'
  <1> DEFINE y == [tx[a] EXCEPT !.pc = "mail", !.tok = t]
  <1>1. /\ tx[a].pc = "insert" /\ tx' = [tx EXCEPT ![a] = y]
        /\ user[t] = None /\ user' = [user EXCEPT ![t] = tx[a].user]
        /\ UNCHANGED <<cache, att, shaken, row, mailed, replaced, lost>>
    BY DEF R!InsertToken, record
  <1>2. tx[a] \in RP!Transaction
    BY DEF Components, RP!Inv, RP!TypeOK, RP!Transaction, RP!Processes
  <1>3. /\ y.pc = "mail" /\ y.tok = t
        /\ y.dead = tx[a].dead /\ y.locks = tx[a].locks
    BY <1>2 DEF RP!Transaction
  <1>4. att[a].pc = "execute"
    BY <1>1, Attempts DEF Link, Nested
  <1>5. tx[a].dead # TRUE /\ tx[a].tok = None
    BY <1>1, Transactions
  <1>6. t \notin mailed
    BY <1>1 DEF Link, ResponsesMailed
  <1>7. \A x \in mailed : user[x] # None => user'[x] # None
    BY <1>1, <1>6 DEF Components, RP!Inv, RP!TypeOK
  <1> HIDE DEF y
  <1> QED
    BY <1>1, <1>3, <1>4, <1>5, <1>6, <1>7, StatementStep

(* The audit flush; when it fails the token is lost. *)
LEMMA AuditStep ==
    ASSUME Components, Link, NEW a \in Requesters, Audit(a)
    PROVE  Link'
  <1>1. tx[a].pc = "audit" /\ att[a].pc = "store"
    BY Attempts DEF Audit, R!RecordAudit, Link, Nested
  <1>2. tx[a] \in RP!Transaction
    BY DEF Components, RP!Inv, RP!TypeOK, RP!Transaction, RP!Processes
  <1>3. PICK x \in {tx[a], R!Killed(tx[a])} :
           tx' = [tx EXCEPT ![a] = [x EXCEPT !.pc = "commit"]]
    BY DEF Audit, R!RecordAudit, R!Recorded
  <1> DEFINE y == [x EXCEPT !.pc = "commit"]
  <1>4. /\ x \in RP!Transaction /\ x.tok = tx[a].tok
        /\ x.locks \subseteq tx[a].locks
    BY <1>2, <1>3 DEF R!Killed, RP!Transaction
  <1>5. y.pc = "commit" /\ y.tok = tx[a].tok /\ y.locks \subseteq tx[a].locks
    BY <1>4 DEF RP!Transaction
  <1> HIDE DEF y
  <1>6. tx' = [tx EXCEPT ![a] = y]
    BY <1>3 DEF y
  <1>7. tx'[a] = y
    BY <1>6, OneTx
  <1>8. /\ lost' = IF y.dead THEN lost \cup {tx[a].tok} ELSE lost
        /\ UNCHANGED <<cache, att, shaken, row, user, mailed, replaced>>
    BY <1>7 DEF Audit, R!RecordAudit, R!table, record
  <1>9. lost \subseteq lost' /\ (y.dead = TRUE => y.tok \in lost')
    BY <1>5, <1>8
  <1> QED
    BY <1>1, <1>5, <1>6, <1>8, <1>9, StatementStep

(* The mail is sent, and the response in hand is its token; or it fails, and
   the response is an error. *)
LEMMA MailStep ==
    ASSUME Components, Link, NEW a \in Requesters, Mail(a)
    PROVE  Link'
  <1> DEFINE t == tx[a].tok
  <1>1. /\ tx[a].pc = "mail" /\ t \in Tokens /\ tx[a].dead # TRUE
        /\ None \notin Tokens
    BY Transactions DEF Mail, R!SendResetEmail
  <1>2. tx[a] \in RP!Transaction /\ user[t] # None
    <2>1. tx[a] \in RP!Transaction
      BY DEF Components, RP!Inv, RP!TypeOK, RP!Transaction, RP!Processes
    <2>2. user[t] = tx[a].user /\ tx[a].user \in Users
      BY <1>1 DEF Components, RP!Inv, RP!Located, RP!RequesterOK
    <2> QED
      BY <2>1, <2>2, NoneAssumption
  <1>3. PICK y \in {[tx[a] EXCEPT !.pc = "audit"],
                    [tx[a] EXCEPT !.pc = "commit", !.ok = FALSE]} :
           /\ tx' = [tx EXCEPT ![a] = y]
           /\ y.pc = "audit" => mailed' = mailed \cup {t}
           /\ y.pc = "commit" => mailed' = mailed /\ y.ok = FALSE
    <2>1. CASE /\ mailed' = mailed \cup {t}
               /\ tx' = [tx EXCEPT ![a].pc = "audit"]
      BY <1>2, <2>1 DEF RP!Transaction
    <2>2. CASE /\ tx' = [tx EXCEPT ![a].pc = "commit", ![a].ok = FALSE]
               /\ UNCHANGED mailed
      BY <1>2, <2>2 DEF RP!Transaction
    <2> QED
      BY <2>1, <2>2 DEF Mail, R!SendResetEmail
  <1>4. /\ y.pc \in {"audit", "commit"} /\ y.tok = t /\ y.dead = tx[a].dead
        /\ y.locks = tx[a].locks
    BY <1>2, <1>3 DEF RP!Transaction
  <1>5. tx'[a] = y /\ \A b \in Requesters : b # a => tx'[b] = tx[b]
    BY <1>3, OneTx
  <1>6. att[a] \in IP!Attempt
    BY DEF Components, IP!Inv, IP!TypeOK, IP!Attempt, IP!Responses
  <1>7. PICK r \in {t, None} :
           /\ att' = [att EXCEPT ![a] = [att[a] EXCEPT !.pc = "store",
                                                       !.resp = r]]
           /\ r = t => y.pc = "audit"
    <2>1. y.pc = "commit" => ~y.ok
      BY <1>3
    <2>2. CASE I!Execute(a, t) /\ tx'[a].ok
      BY <1>4, <1>5, <2>1, <2>2 DEF I!Execute
    <2>3. CASE I!ExecuteErrors(a)
      BY <1>1, <2>3 DEF I!ExecuteErrors
    <2> QED
      BY <2>2, <2>3 DEF Mail
  <1> DEFINE q == [att[a] EXCEPT !.pc = "store", !.resp = r]
  <1>8. q.pc = "store" /\ q.resp = r /\ q.key = att[a].key
    BY <1>6 DEF IP!Attempt
  <1> HIDE DEF q
  <1>9. att'[a] = q /\ \A b \in Requesters : b # a => att'[b] = att[b]
    BY <1>7, OneAttempt DEF q
  <1>10. UNCHANGED <<cache, shaken, row, user, lost, replaced>>
    BY DEF Mail, R!SendResetEmail, I!Execute, I!ExecuteErrors
  <1>11. \A b \in Requesters : Nested(b)'
    BY <1>4, <1>5, <1>7, <1>8, <1>9 DEF Link, Nested
  <1>12. ResponsesMailed'
    <2>1. mailed \subseteq mailed' /\ (\A x \in mailed' : user[x] # None)
      BY <1>2, <1>3, <1>4 DEF Link, ResponsesMailed
    <2>2. r \in Tokens => r \in mailed'
      BY <1>1, <1>3, <1>7
    <2> QED
      BY <1>8, <1>9, <1>10, <2>1, <2>2 DEF Link, ResponsesMailed
  <1>13. StoredByOwn'
    <2>1. \A k \in Keys : cache[k].resp # t
      <3>1. att[a].pc # "answered"
        BY <1>1 DEF Link, Nested
      <3> QED
        BY <1>1, <3>1 DEF Link, StoredByOwn
    <2> QED
      BY <1>4, <1>5, <1>9, <1>10, <2>1 DEF Link, StoredByOwn
  <1>14. DeadIsLost' /\ OwnKeySpared'
    BY <1>1, <1>4, <1>5, <1>8, <1>9, <1>10 DEF Link, DeadIsLost, OwnKeySpared
  <1>15. RecordsKept'
    BY <1>4, <1>5, <1>10 DEF Link, RecordsKept, Kept, InFlight
  <1> QED
    BY <1>11, <1>12, <1>13, <1>14, <1>15 DEF Link

(* The DELETE or the INSERT raises: no token has been made, and the
   response is an error. *)
LEMMA RaiseStep ==
    ASSUME Components, Link, NEW a \in Requesters, Raise(a)
    PROVE  Link'
  <1> DEFINE y == [R!Killed(tx[a]) EXCEPT !.pc = "commit", !.ok = FALSE]
             q == [att[a] EXCEPT !.pc = "store", !.resp = None]
  <1>1. /\ tx' = [tx EXCEPT ![a] = y] /\ att' = [att EXCEPT ![a] = q]
        /\ att[a].pc = "execute"
        /\ UNCHANGED <<cache, shaken, row, user, mailed, lost, replaced>>
    BY DEF Raise, R!DeadlockDetected, R!InsertFails, I!ExecuteErrors, R!table
  <1>2. tx[a].pc \in {"delete", "insert"}
    <2>1. tx[a].pc \in {"delete", "insert", "update", "user"}
      BY DEF Raise, R!DeadlockDetected, R!InsertFails, R!Waits
    <2> QED
      BY <2>1, Transactions
  <1>3. tx[a].tok = None /\ None \notin Tokens
    BY <1>2, Transactions
  <1>4. y.pc = "commit" /\ y.tok = None /\ y.locks = {}
    <2>1. tx[a] \in RP!Transaction
      BY DEF Components, RP!Inv, RP!TypeOK, RP!Transaction, RP!Processes
    <2> QED
      BY <1>3, <2>1 DEF R!Killed, RP!Transaction
  <1>5. q.pc = "store" /\ q.resp = None /\ q.key = att[a].key
    BY DEF Components, IP!Inv, IP!TypeOK
  <1> HIDE DEF y, q
  <1>6. /\ tx'[a] = y /\ \A b \in Requesters : b # a => tx'[b] = tx[b]
        /\ att'[a] = q /\ \A b \in Requesters : b # a => att'[b] = att[b]
    BY <1>1, OneTx, OneAttempt
  <1>7. \A b \in Requesters : Nested(b)'
    BY <1>4, <1>5, <1>6 DEF Link, Nested
  <1>8. ResponsesMailed' /\ StoredByOwn' /\ DeadIsLost'
    BY <1>1, <1>3, <1>4, <1>5, <1>6
       DEF Link, ResponsesMailed, StoredByOwn, DeadIsLost
  <1>9. OwnKeySpared'
    BY <1>1, <1>4, <1>6 DEF Link, OwnKeySpared
  <1>10. RecordsKept'
    BY <1>1, <1>3, <1>6 DEF Link, RecordsKept, Kept, InFlight
  <1> QED
    BY <1>7, <1>8, <1>9, <1>10 DEF Link

(* The SETEX: the record names the token about to be committed. *)
LEMMA StoreStep ==
    ASSUME Components, Link, NEW a \in Requesters, tx[a].pc = "commit",
           I!Store(a), UNCHANGED <<request, lost, replaced>>
    PROVE  Link'
  <1> DEFINE q == [att[a] EXCEPT !.pc = "answered"]
  <1>1. /\ att[a].pc = "store" /\ att' = [att EXCEPT ![a] = q]
        /\ cache' = [k \in Keys |->
                       IF I!Storable(att[a]) /\ k = att[a].key
                       THEN I!Record(att[a]) ELSE cache[k]]
        /\ UNCHANGED <<shaken, row, user, mailed, tx, lost, replaced>>
    BY DEF I!Store, request
  <1>2. q.pc = "answered" /\ q.key = att[a].key /\ q.resp = att[a].resp
    BY DEF Components, IP!Inv, IP!TypeOK
  <1> HIDE DEF q
  <1>3. att'[a] = q /\ \A b \in Requesters : b # a => att'[b] = att[b]
    BY <1>1, OneAttempt
  <1>4. /\ None \notin Tokens /\ tx[a].tok \in Tokens \cup {None}
        /\ tx[a].tok \in Tokens =>
             \A b \in Requesters : /\ b # a => tx[b].tok # tx[a].tok
                                   /\ tx[a].tok \notin tx[b].locks
    BY Transactions
  <1>5. att[a].resp \in {tx[a].tok, None}
    BY <1>1 DEF Link, Nested
  <1>6. \A k \in Keys :
          \/ cache'[k] = cache[k]
          \/ /\ cache'[k].resp = tx[a].tok /\ att[a].resp = tx[a].tok
             /\ tx[a].tok \in Tokens
    BY <1>1, <1>4, <1>5 DEF I!Storable, I!Record
  <1>7. \A b \in Requesters : Nested(b)'
    BY <1>1, <1>2, <1>3, <1>5 DEF Link, Nested
  <1>8. ResponsesMailed'
    BY <1>1, <1>2, <1>3, <1>4, <1>6 DEF Link, ResponsesMailed
  <1>9. StoredByOwn'
    BY <1>1, <1>2, <1>3, <1>4, <1>6 DEF Link, StoredByOwn
  <1>10. DeadIsLost' /\ OwnKeySpared'
    BY <1>1, <1>2, <1>3, <1>4, <1>6 DEF Link, DeadIsLost, OwnKeySpared
  <1>11. RecordsKept'
    BY <1>1, <1>6 DEF Link, RecordsKept, Kept, InFlight
  <1> QED
    BY <1>7, <1>8, <1>9, <1>10, <1>11 DEF Link

(* Redis fails at the SETEX: the answer is an error, the scope commits. *)
LEMMA SetexFailsStep ==
    ASSUME Components, Link, NEW a \in Requesters, tx[a].pc = "commit",
           I!Crash(a), UNCHANGED <<request, lost, replaced>>
    PROVE  Link'
  <1>1. /\ att[a].pc \in {"execute", "store"}
        /\ att' = [att EXCEPT ![a] = I!Idle]
        /\ shaken \subseteq shaken'
        /\ UNCHANGED <<cache, row, user, mailed, tx, lost, replaced>>
    BY DEF I!Crash, request
  <1>2. I!Idle.pc = "idle" /\ I!Idle.key = None /\ I!Idle.resp = None
    BY DEF I!Idle
  <1>3. att'[a] = I!Idle /\ \A b \in Requesters : b # a => att'[b] = att[b]
    BY <1>1, OneAttempt
  <1>4. None \notin Tokens /\ None \notin Keys
    BY NoneAssumption
  <1>5. \A b \in Requesters : Nested(b)'
    BY <1>1, <1>2, <1>3 DEF Link, Nested
  <1>6. ResponsesMailed'
    BY <1>1, <1>2, <1>3, <1>4 DEF Link, ResponsesMailed
  <1>7. StoredByOwn' /\ DeadIsLost'
    BY <1>1, <1>3 DEF Link, StoredByOwn, DeadIsLost
  <1>8. OwnKeySpared' /\ RecordsKept'
    BY <1>1, <1>2, <1>3, <1>4
       DEF Link, OwnKeySpared, RecordsKept, Kept, InFlight
  <1> QED
    BY <1>5, <1>6, <1>7, <1>8 DEF Link

(* A commit takes the rows it deletes off the list of a DELETE that waits for
   them, and changes nothing else of another transaction. *)
SameScope(b) ==
    /\ tx'[b].pc = tx[b].pc /\ tx'[b].tok = tx[b].tok
    /\ tx'[b].locks = tx[b].locks /\ tx'[b].dead = tx[b].dead

(* The scope is left, one way or another, and the request is over.  It is
   enough to look at the tokens that records name. *)
LEMMA ScopeLeft ==
    ASSUME Components, Link, NEW a \in Requesters,
           tx'[a] = R!Idle, \A b \in Requesters : b # a => SameScope(b),
           att'[a].pc = "idle" /\ att'[a].resp = None,
           \A b \in Requesters : b # a => att'[b] = att[b],
           UNCHANGED <<cache, user, mailed>>,
           shaken \subseteq shaken', lost \subseteq lost',
           \A k \in Keys \ shaken :
              cache[k].ttl > 0 /\ cache[k].resp \in Tokens
                /\ Kept(cache[k].resp) => Kept(cache[k].resp)'
    PROVE  Link'
  <1>1. /\ R!Idle.pc = "idle" /\ R!Idle.tok = None /\ R!Idle.locks = {}
        /\ R!Idle.dead = FALSE
    BY DEF R!Idle
  <1>2. None \notin Tokens
    BY NoneAssumption
  <1>3. \A b \in Requesters : Nested(b)'
    BY <1>1 DEF Link, Nested, SameScope
  <1>4. ResponsesMailed'
    BY <1>2 DEF Link, ResponsesMailed
  <1>5. StoredByOwn' /\ DeadIsLost' /\ OwnKeySpared'
    BY <1>1, <1>2 DEF Link, StoredByOwn, DeadIsLost, OwnKeySpared, SameScope
  <1>6. RecordsKept'
    BY DEF Link, RecordsKept
  <1> QED
    BY <1>3, <1>4, <1>5, <1>6 DEF Link

(* What is left of an attempt that is over. *)
LEMMA AttemptOver ==
    ASSUME Components, NEW a \in Requesters, Closed(a) \/ I!Crash(a)
    PROVE  /\ att'[a].pc = "idle" /\ att'[a].resp = None
           /\ \A b \in Requesters : b # a => att'[b] = att[b]
           /\ UNCHANGED cache /\ shaken \subseteq shaken'
           /\ Closed(a) => UNCHANGED shaken
  <1>1. CASE att[a].pc = "idle" /\ UNCHANGED record
    BY <1>1, Attempts DEF record
  <1>2. CASE I!Answer(a) \/ I!Crash(a)
    <2>1. /\ att' = [att EXCEPT ![a] = I!Idle] /\ UNCHANGED cache
          /\ shaken \subseteq shaken'
      BY <1>2 DEF I!Answer, I!Crash
    <2>2. att'[a] = I!Idle /\ \A b \in Requesters : b # a => att'[b] = att[b]
      BY <2>1, OneAttempt
    <2>3. Closed(a) => UNCHANGED shaken
      BY DEF Closed, record, I!Answer
    <2> QED
      BY <2>1, <2>2, <2>3 DEF I!Idle
  <1> QED
    BY <1>1, <1>2 DEF Closed

(* What a commit does to the transactions. *)
LEMMA CommitTx ==
    ASSUME Components, NEW a \in RP!Processes, R!Commit(a)
    PROVE  /\ tx'[a] = R!Idle
           /\ \A b \in RP!Processes : b # a => SameScope(b)
           /\ \A b \in RP!Processes : b # a => tx'[b].user = tx[b].user
  <1>1. tx' = [b \in RP!Processes |->
                 IF b = a THEN R!Idle
                 ELSE [tx[b] EXCEPT !.want = @ \ R!Deleted(a)]]
    BY DEF R!Commit, R!Released, R!Processes, RP!Processes
  <1>2. \A b \in RP!Processes : tx[b] \in RP!Transaction
    BY DEF Components, RP!Inv, RP!TypeOK, RP!Transaction
  <1> QED
    BY <1>1, <1>2 DEF SameScope, RP!Transaction

(* The commit: the request's token is there, and the tokens it deletes were
   made for other keys. *)
LEMMA CommitStep ==
    ASSUME Components, Link, NEW a \in Requesters, Commit(a)
    PROVE  Link'
  <1>1. /\ tx[a].pc = "commit" /\ R!Commit(a)
        /\ row' = IF tx[a].dead THEN row ELSE R!Committed(a)
        /\ replaced' = replaced \cup Replaces(a)
        /\ UNCHANGED <<user, mailed, lost>>
    BY DEF Commit, R!Commit
  <1>2. tx'[a] = R!Idle /\ \A b \in Requesters : b # a => SameScope(b)
    BY <1>1, CommitTx DEF RP!Processes
  <1>3. /\ att'[a].pc = "idle" /\ att'[a].resp = None
        /\ \A b \in Requesters : b # a => att'[b] = att[b]
        /\ UNCHANGED cache /\ UNCHANGED shaken
    BY AttemptOver DEF Commit
  <1>4. ASSUME NEW k \in Keys \ shaken, cache[k].ttl > 0,
               cache[k].resp \in Tokens, Kept(cache[k].resp)
        PROVE  Kept(cache[k].resp)'
    <2> DEFINE t == cache[k].resp
    <2>1. t' = t
      BY <1>3
    <2>2. by[t].key = k
      <3>1. t # Refused
        BY <1>4, NoneAssumption
      <3> QED
        BY <1>4, <3>1 DEF Components, IP!Inv, IP!Backed, IP!RecordBacked,
           IP!ExecutedFor
    <2>3. tx[a].dead = TRUE \/ tx[a].dead = FALSE
      BY Transactions
    <2>4. CASE t \in lost \cup replaced
      BY <1>1, <2>1, <2>4 DEF Kept
    <2>5. CASE t = tx[a].tok
      <3>1. CASE tx[a].dead = TRUE
        BY <1>1, <1>4, <2>1, <2>5, <3>1 DEF Link, DeadIsLost, Kept
      <3>2. CASE tx[a].dead = FALSE
        <4>1. row'[t] = "fresh"
          BY <1>1, <1>4, <2>5, <3>2 DEF R!Committed
        <4> QED
          BY <2>1, <4>1 DEF Kept
      <3> QED
        BY <2>3, <3>1, <3>2
    <2>6. CASE InFlight(t) /\ t # tx[a].tok
      BY <1>2, <2>1, <2>6 DEF InFlight, Kept, SameScope
    <2>7. CASE row[t] # "absent" /\ t # tx[a].tok
      <3>1. CASE t \in tx[a].locks
        <4>1. att[a].key # k
          BY <1>4, <3>1 DEF Link, OwnKeySpared
        <4>2. t \in replaced'
          BY <1>1, <2>2, <3>1, <4>1 DEF Replaces
        <4> QED
          BY <2>1, <4>2 DEF Kept
      <3>2. CASE t \notin tx[a].locks
        <4>1. row'[t] = row[t]
          BY <1>1, <1>4, <2>7, <3>2 DEF R!Committed
        <4> QED
          BY <2>1, <2>7, <4>1 DEF Kept
      <3> QED
        BY <3>1, <3>2
    <2> QED
      BY <1>4, <2>4, <2>5, <2>6, <2>7 DEF Kept
  <1> QED
    BY <1>1, <1>2, <1>3, <1>4, ScopeLeft

(* A replay or a conflict is answered. *)
LEMMA AnswerStep ==
    ASSUME Components, Link, NEW a \in Requesters, Answer(a)
    PROVE  Link'
  <1>1. /\ tx[a] = R!Idle /\ Closed(a)
        /\ UNCHANGED <<tx, row, user, mailed, lost, replaced>>
    BY DEF Answer, Closed, request
  <1>2. /\ att'[a].pc = "idle" /\ att'[a].resp = None
        /\ \A b \in Requesters : b # a => att'[b] = att[b]
        /\ UNCHANGED cache /\ UNCHANGED shaken
    BY <1>1, AttemptOver
  <1>3. \A t \in Tokens : Kept(t) => Kept(t)'
    BY <1>1 DEF Kept, InFlight
  <1>4. \A b \in Requesters : SameScope(b)
    BY <1>1 DEF SameScope
  <1> QED
    BY <1>1, <1>2, <1>3, <1>4, ScopeLeft

(* The worker dies: a token that some record names is lost. *)
LEMMA DieStep ==
    ASSUME Components, Link, NEW a \in Requesters, Die(a)
    PROVE  Link'
  <1>1. /\ lost' = IF tx[a] # R!Idle /\ att[a].pc = "answered"
                   THEN lost \cup (Tokens \cap {tx[a].tok}) ELSE lost
        /\ UNCHANGED <<row, user, mailed, replaced>>
        /\ Closed(a) \/ I!Crash(a)
        /\ (tx[a] = R!Idle /\ UNCHANGED tx) \/ tx' = [tx EXCEPT ![a] = R!Idle]
    BY DEF Die, R!Abort, R!table, request
  <1>2. tx'[a] = R!Idle /\ \A b \in Requesters : b # a => tx'[b] = tx[b]
    BY <1>1, OneTx
  <1>3. /\ att'[a].pc = "idle" /\ att'[a].resp = None
        /\ \A b \in Requesters : b # a => att'[b] = att[b]
        /\ UNCHANGED cache /\ shaken \subseteq shaken'
    BY <1>1, AttemptOver
  <1>4. ASSUME NEW k \in Keys \ shaken, cache[k].ttl > 0,
               cache[k].resp \in Tokens, Kept(cache[k].resp)
        PROVE  Kept(cache[k].resp)'
    <2> DEFINE t == cache[k].resp
    <2>1. t' = t
      BY <1>3
    <2>2. CASE t = tx[a].tok
      <3>1. att[a].pc = "answered" /\ tx[a] # R!Idle
        BY <1>4, <2>2, Transactions DEF Link, StoredByOwn
      <3> QED
        BY <1>1, <1>4, <2>1, <2>2, <3>1 DEF Kept
    <2>3. CASE t # tx[a].tok
      BY <1>1, <1>2, <1>4, <2>1, <2>3 DEF Kept, InFlight
    <2> QED
      BY <2>2, <2>3
  <1>5. lost \subseteq lost' /\ \A b \in Requesters : b # a => SameScope(b)
    BY <1>1, <1>2 DEF SameScope
  <1> QED
    BY <1>1, <1>2, <1>3, <1>4, <1>5, ScopeLeft

(* A reset writes the row of its token; it never removes one. *)
LEMMA ResetStep ==
    ASSUME Components, Link, NEW p \in Resetters, Reset(p)
    PROVE  Link'
  <1>1. p \in RP!Processes /\ p \notin Requesters
    BY RoleAssumption DEF RP!Processes
  <1>2. tx[p].pc \notin {"delete", "insert", "mail"}
    BY DEF Components, RP!Inv, RP!Located, RP!ResetterOK
  <1>3. \A b \in Requesters : SameScope(b)
    <2>1. ASSUME NEW y, tx' = [tx EXCEPT ![p] = y]
          PROVE  \A b \in Requesters : SameScope(b)
      BY <1>1, <2>1 DEF Components, RP!Inv, RP!TypeOK, RP!Processes, SameScope
    <2>2. ASSUME R!Commit(p) PROVE \A b \in Requesters : SameScope(b)
      BY <1>1, <2>2, CommitTx DEF RP!Processes
    <2>3. R!Commit(p) \/ \E y : tx' = [tx EXCEPT ![p] = y]
      BY <1>2 DEF Reset, R!FindByToken, R!Advance, R!DeleteAllByUserId,
         R!DeleteRow, R!InsertToken, R!SendResetEmail, R!SaveUser,
         R!SaveTokenRead, R!ReinsertToken, R!UpdateToken,
         R!RevokeAllUserSessions, R!RecordAudit, R!DeadlockDetected,
         R!InsertFails, R!Abort
    <2> QED
      BY <2>1, <2>2, <2>3
  <1>4. UNCHANGED <<user, mailed, cache, att, shaken, lost, replaced>>
    BY <1>2 DEF Reset, R!FindByToken, R!Advance, R!DeleteAllByUserId,
       R!DeleteRow, R!InsertToken, R!SendResetEmail, R!SaveUser,
       R!SaveTokenRead, R!ReinsertToken, R!UpdateToken,
       R!RevokeAllUserSessions, R!RecordAudit, R!Commit, R!DeadlockDetected,
       R!InsertFails, R!Abort, R!table, record
  <1>5. \A t \in Tokens : row[t] # "absent" => row'[t] # "absent"
    <2>1. UNCHANGED row \/ row' = R!Committed(p)
      BY <1>2 DEF Reset, R!FindByToken, R!Advance, R!DeleteAllByUserId,
         R!DeleteRow, R!InsertToken, R!SendResetEmail, R!SaveUser,
         R!SaveTokenRead, R!ReinsertToken, R!UpdateToken,
         R!RevokeAllUserSessions, R!RecordAudit, R!Commit, R!DeadlockDetected,
         R!InsertFails, R!Abort, R!table
    <2>2. CASE row' = R!Committed(p)
      BY <1>1, <2>2 DEF R!Committed, R!SavedToken
    <2> QED
      BY <2>1, <2>2
  <1>6. \A b \in Requesters : Nested(b)'
    BY <1>3, <1>4 DEF Link, Nested, SameScope
  <1>7. ResponsesMailed' /\ StoredByOwn' /\ DeadIsLost' /\ OwnKeySpared'
    BY <1>3, <1>4 DEF Link, ResponsesMailed, StoredByOwn, DeadIsLost,
       OwnKeySpared, SameScope
  <1>8. RecordsKept'
    BY <1>3, <1>4, <1>5 DEF Link, RecordsKept, Kept, InFlight, SameScope
  <1> QED
    BY <1>6, <1>7, <1>8 DEF Link

(* Records expire. *)
LEMMA RecordTickStep ==
    ASSUME Components, Link, RecordTick
    PROVE  Link'
  <1>1. /\ UNCHANGED <<row, user, mailed, tx, att, lost, replaced>>
        /\ cache' = [k \in Keys |-> IF cache[k].ttl > 1
                                    THEN [cache[k] EXCEPT !.ttl = @ - 1]
                                    ELSE I!NoRecord]
        /\ \A k \in shaken : cache[k].ttl # 1 => k \in shaken'
    BY DEF RecordTick, I!Tick, request
  <1>2. I!NoRecord.ttl = 0 /\ I!NoRecord.resp = None
    BY DEF I!NoRecord
  <1>3. None \notin Tokens
    BY NoneAssumption
  <1>4. ASSUME NEW k \in Keys
        PROVE  /\ cache'[k].resp \in {cache[k].resp, None}
               /\ cache'[k].ttl > 0 => /\ cache[k].ttl > 1
                                       /\ cache'[k].resp = cache[k].resp
    <2>1. cache[k] \in IP!RecordType
      BY DEF Components, IP!Inv, IP!TypeOK, IP!RecordType, IP!Responses
    <2>2. CASE cache[k].ttl > 1
      BY <1>1, <2>1, <2>2 DEF IP!RecordType
    <2>3. CASE ~(cache[k].ttl > 1)
      <3>1. cache'[k] = I!NoRecord
        BY <1>1, <2>3
      <3> QED
        BY <1>2, <3>1
    <2> QED
      BY <2>2, <2>3
  <1>5. ASSUME NEW k \in Keys \ shaken', cache'[k].ttl > 0
        PROVE  /\ k \notin shaken /\ cache[k].ttl > 0
               /\ cache'[k].resp = cache[k].resp
    <2>1. cache[k].ttl > 1 /\ cache'[k].resp = cache[k].resp
      BY <1>4, <1>5
    <2>2. cache[k].ttl \in Nat
      BY DEF Components, IP!Inv, IP!TypeOK
    <2>3. cache[k].ttl > 0 /\ cache[k].ttl # 1
      BY <2>1, <2>2
    <2> QED
      BY <1>1, <1>5, <2>1, <2>3
  <1>6. \A b \in Requesters : Nested(b)'
    BY <1>1 DEF Link, Nested
  <1>7. ResponsesMailed' /\ StoredByOwn' /\ DeadIsLost'
    BY <1>1, <1>3, <1>4 DEF Link, ResponsesMailed, StoredByOwn, DeadIsLost
  <1>8. OwnKeySpared' /\ RecordsKept'
    BY <1>1, <1>5 DEF Link, OwnKeySpared, RecordsKept, Kept, InFlight
  <1> QED
    BY <1>6, <1>7, <1>8 DEF Link

(* The initial state. *)
LEMMA LinkInit == Init => Link
  <1> SUFFICES ASSUME Init PROVE Link
    OBVIOUS
  <1>1. /\ \A a \in Requesters : tx[a] = R!Idle /\ att[a] = I!Idle
        /\ \A k \in Keys : cache[k] = I!NoRecord
        /\ mailed = {}
    BY DEF Init, R!Init, I!Init, R!Processes
  <1>2. /\ R!Idle.pc = "idle" /\ R!Idle.tok = None /\ R!Idle.dead = FALSE
        /\ I!Idle.pc = "idle" /\ I!Idle.resp = None
        /\ I!NoRecord.resp = None /\ I!NoRecord.ttl = 0
    BY DEF R!Idle, I!Idle, I!NoRecord
  <1>3. None \notin Tokens /\ ~(0 > 0)
    BY NoneAssumption
  <1> QED
    BY <1>1, <1>2, <1>3 DEF Link, Nested, ResponsesMailed, StoredByOwn,
       DeadIsLost, OwnKeySpared, RecordsKept

(* Every step keeps Link. *)
LEMMA LinkStep == Components /\ Link /\ [Next]_vars => Link'
  <1> SUFFICES ASSUME Components, Link, [Next]_vars PROVE Link'
    OBVIOUS
  <1>1. ASSUME NEW a \in Requesters, Statement(a) PROVE Link'
    BY <1>1, DeleteStep, InsertStep DEF Statement
  <1>2. ASSUME NEW a \in Requesters, Record(a) PROVE Link'
    BY <1>2, StoreStep, SetexFailsStep DEF Record
  <1>3. CASE TokenTick \/ UNCHANGED vars
    <2>1. UNCHANGED <<row, user, mailed, tx, cache, att, shaken, lost,
                      replaced>>
      BY <1>3 DEF TokenTick, R!Tick, vars, request, record
    <2> QED
      BY <2>1 DEF Link, Nested, ResponsesMailed, StoredByOwn, DeadIsLost,
         OwnKeySpared, RecordsKept, Kept, InFlight
  <1> QED
    BY <1>1, <1>2, <1>3, LookupStep, HandleStep, RaiseStep, MailStep,
       AuditStep, CommitStep, AnswerStep, DieStep, ResetStep, RecordTickStep
       DEF Next

-----------------------------------------------------------------------------
(* The theorems. *)

(* The relation between attempts and transactions, in every reachable state. *)
THEOREM LinkInvariance == Spec => []Link
  BY ComponentsInv, LinkInit, LinkStep, PTL DEF Spec

(* A record that answers retries with success stands for a mailed link whose
   token no retry with the key takes away. *)
THEOREM LinksKept == Spec => []LinkKept
  <1>1. Link => LinkKept
    BY DEF Link, ResponsesMailed, RecordsKept, Kept, LinkKept
  <1> QED
    BY <1>1, LinkInvariance, PTL

(* "Retry must not send a second email": attempts of a key that neither
   overlap nor die mail one link while the record lives.  The effect Idempotency
   counts is the mail of this handler. *)
THEOREM OneMailPerKey == Spec => []I!OnceIfSerial
  <1>1. Components => I!OnceIfSerial
    BY DEF Components, IP!Inv, IP!QuietKeys, IP!Quiet, I!OnceIfSerial
  <1> QED
    BY <1>1, ComponentsInv, PTL

-----------------------------------------------------------------------------
(* Whose token an answer is about. *)

(* The handler works for the email its request names, and a mailed token is
   one of the email it was mailed for. *)
Emails ==
    /\ \A a \in Requesters :
          att[a].pc = "execute" /\ tx[a].pc # "idle" =>
              tx[a].user = att[a].body.email
    /\ \A t \in Tokens : by[t].body \in Bodies => user[t] = by[t].body.email

(* The initial state. *)
LEMMA EmailsInit == Init => Emails
  <1> SUFFICES ASSUME Init PROVE Emails
    OBVIOUS
  <1>1. /\ \A a \in Requesters : tx[a] = R!Idle
        /\ \A t \in Tokens : by[t] = I!Nobody
    BY DEF Init, R!Init, I!Init, R!Processes
  <1>2. R!Idle.pc = "idle" /\ I!Nobody.body \notin Bodies
    BY NoneAssumption DEF R!Idle, I!Nobody
  <1> QED
    BY <1>1, <1>2 DEF Emails

(* A step that issues and mails nothing, and opens no transaction. *)
LEMMA EmailsFrame ==
    ASSUME Emails, UNCHANGED <<user, by>>,
           \A a \in Requesters :
              att'[a].pc = "execute" /\ tx'[a].pc # "idle" =>
                  /\ att[a].pc = "execute" /\ tx[a].pc # "idle"
                  /\ tx'[a].user = tx[a].user /\ att'[a].body = att[a].body
    PROVE  Emails'
  BY DEF Emails

(* Steps of the extension outside of the handler. *)
LEMMA EmailsAttempt ==
    ASSUME Components, Emails, NEW a \in Requesters,
           \/ \E k \in Keys, b \in Bodies : Lookup(a, k, b)
           \/ Record(a) \/ Answer(a) \/ Die(a) \/ Raise(a)
    PROVE  Emails'
  <1>1. UNCHANGED <<user, by>>
    BY DEF Lookup, Record, Answer, Die, Raise, Closed, I!Begin, I!Store,
       I!Crash, I!Answer, I!ExecuteErrors, R!Abort, R!DeadlockDetected,
       R!InsertFails, R!table, request, record
  <1>2. /\ tx'[a].pc = "idle" \/ att'[a].pc # "execute"
        /\ \A b \in Requesters : b # a => tx'[b] = tx[b] /\ att'[b] = att[b]
    <2>1. CASE \E k \in Keys, b \in Bodies : Lookup(a, k, b)
      <3>1. tx' = tx /\ tx[a].pc = "idle"
        BY <2>1 DEF Lookup, request, R!Idle
      <3>2. \E q : att' = [att EXCEPT ![a] = q]
        BY <2>1 DEF Lookup, I!Begin
      <3> QED
        BY <3>1, <3>2, OneAttempt
    <2>2. CASE Record(a)
      <3>1. tx' = tx
        BY <2>2 DEF Record, request
      <3>2. CASE I!Store(a)
        <4>1. att' = [att EXCEPT ![a] = [att[a] EXCEPT !.pc = "answered"]]
          BY <3>2 DEF I!Store
        <4>2. att'[a].pc = "answered"
          BY <4>1, OneAttempt DEF Components, IP!Inv, IP!TypeOK
        <4> QED
          BY <3>1, <4>1, <4>2, OneAttempt
      <3>3. CASE I!Crash(a)
        <4>1. att' = [att EXCEPT ![a] = I!Idle] /\ I!Idle.pc = "idle"
          BY <3>3 DEF I!Crash, I!Idle
        <4> QED
          BY <3>1, <4>1, OneAttempt
      <3> QED
        BY <2>2, <3>2, <3>3 DEF Record
    <2>3. CASE Answer(a)
      <3>1. tx' = tx /\ tx[a].pc = "idle" /\ att' = [att EXCEPT ![a] = I!Idle]
        BY <2>3 DEF Answer, I!Answer, request, R!Idle
      <3> QED
        BY <3>1, OneAttempt
    <2>4. CASE Die(a)
      <3>1. /\ Closed(a) \/ I!Crash(a)
            /\ (tx[a] = R!Idle /\ tx' = tx) \/ tx' = [tx EXCEPT ![a] = R!Idle]
        BY <2>4 DEF Die, R!Abort, request
      <3>2. /\ tx'[a] = R!Idle /\ R!Idle.pc = "idle"
            /\ \A b \in Requesters : b # a => tx'[b] = tx[b]
        BY <3>1, OneTx DEF R!Idle
      <3> QED
        BY <3>1, <3>2, AttemptOver
    <2>5. CASE Raise(a)
      <3>1. /\ \E y : tx' = [tx EXCEPT ![a] = y]
            /\ att' = [att EXCEPT ![a] = [att[a] EXCEPT !.pc = "store",
                                                        !.resp = None]]
        BY <2>5 DEF Raise, R!DeadlockDetected, R!InsertFails, I!ExecuteErrors
      <3>2. att'[a].pc = "store"
        BY <3>1, OneAttempt DEF Components, IP!Inv, IP!TypeOK
      <3> QED
        BY <3>1, <3>2, OneTx, OneAttempt
    <2> QED
      BY <2>1, <2>2, <2>3, <2>4, <2>5
  <1> QED
    BY <1>1, <1>2, EmailsFrame

(* Steps of the handler. *)
LEMMA EmailsHandler ==
    ASSUME Components, Link, Emails, NEW a \in Requesters,
           Handle(a) \/ Statement(a) \/ Mail(a) \/ Audit(a) \/ Commit(a)
    PROVE  Emails'
  <1>1. tx[a] \in RP!Transaction /\ att[a] \in IP!Attempt
    BY DEF Components, RP!Inv, RP!TypeOK, RP!Transaction, RP!Processes,
       IP!Inv, IP!TypeOK, IP!Attempt, IP!Responses
  <1>2. CASE Handle(a)
    <2> DEFINE u == att[a].body.email
               y == [R!Idle EXCEPT !.pc = "delete", !.user = u,
                                   !.want = R!RowsOf(u)]
    <2>1. tx' = [tx EXCEPT ![a] = y] /\ UNCHANGED <<user, by, att>>
      BY <1>2 DEF Handle, R!RequestReset, R!table, record
    <2>2. y.user = u
      BY DEF R!Idle
    <2> HIDE DEF y
    <2>3. tx'[a] = y /\ \A b \in Requesters : b # a => tx'[b] = tx[b]
      BY <2>1, OneTx
    <2> QED
      BY <2>1, <2>2, <2>3 DEF Emails
  <1>3. CASE Statement(a) \/ Audit(a)
    <2>1. PICK y : tx' = [tx EXCEPT ![a] = y] /\ y.user = tx[a].user
      <3>1. CASE R!DeleteAllByUserId(a)
        <4> DEFINE y == [tx[a] EXCEPT !.pc = "insert"]
        <4>1. tx' = [tx EXCEPT ![a] = y] /\ y.user = tx[a].user
          BY <1>1, <3>1 DEF R!DeleteAllByUserId, RP!Transaction
        <4> QED
          BY <4>1
      <3>2. ASSUME NEW t \in Tokens, R!DeleteRow(a, t)
            PROVE  \E y : tx' = [tx EXCEPT ![a] = y] /\ y.user = tx[a].user
        <4> DEFINE y == [tx[a] EXCEPT !.want = @ \ {t}, !.locks = @ \cup {t}]
        <4>1. tx' = [tx EXCEPT ![a] = y] /\ y.user = tx[a].user
          BY <1>1, <3>2 DEF R!DeleteRow, RP!Transaction
        <4> QED
          BY <4>1
      <3>3. ASSUME NEW t \in Tokens, R!InsertToken(a, t)
            PROVE  \E y : tx' = [tx EXCEPT ![a] = y] /\ y.user = tx[a].user
        <4> DEFINE y == [tx[a] EXCEPT !.pc = "mail", !.tok = t]
        <4>1. tx' = [tx EXCEPT ![a] = y] /\ y.user = tx[a].user
          BY <1>1, <3>3 DEF R!InsertToken, RP!Transaction
        <4> QED
          BY <4>1
      <3>4. CASE R!RecordAudit(a)
        <4>1. PICK x \in {tx[a], R!Killed(tx[a])} :
                 tx' = [tx EXCEPT ![a] = [x EXCEPT !.pc = "commit"]]
          BY <3>4 DEF R!RecordAudit, R!Recorded
        <4> DEFINE y == [x EXCEPT !.pc = "commit"]
        <4>2. x \in RP!Transaction /\ x.user = tx[a].user
          BY <1>1, <4>1 DEF R!Killed, RP!Transaction
        <4>3. y.user = tx[a].user
          BY <4>2 DEF RP!Transaction
        <4> QED
          BY <4>1, <4>3
      <3> QED
        BY <1>3, <3>1, <3>2, <3>3, <3>4 DEF Statement, Audit
    <2>2. tx'[a] = y /\ \A b \in Requesters : b # a => tx'[b] = tx[b]
      BY <2>1, OneTx
    <2>3. UNCHANGED <<att, by>> /\ tx[a].pc # "idle"
      BY <1>3 DEF Statement, Audit, record, R!DeleteAllByUserId, R!DeleteRow,
         R!InsertToken, R!RecordAudit
    <2>4. \A t \in Tokens : by[t].body \in Bodies => user'[t] = user[t]
      <3>1. CASE UNCHANGED user
        BY <3>1
      <3>2. ASSUME NEW t \in Tokens, R!InsertToken(a, t), NEW x \in Tokens,
                   by[x].body \in Bodies
            PROVE  user'[x] = user[x]
        <4>1. user[t] = None /\ user' = [user EXCEPT ![t] = tx[a].user]
          BY <3>2 DEF R!InsertToken
        <4>2. user[x] = by[x].body.email /\ by[x].body.email \in Users
          BY <3>2, BodyAssumption DEF Emails
        <4>3. x # t
          BY <4>1, <4>2, NoneAssumption
        <4> QED
          BY <4>1, <4>3 DEF Components, RP!Inv, RP!TypeOK
      <3> QED
        BY <1>3, <3>1, <3>2 DEF Statement, Audit, R!DeleteAllByUserId,
           R!DeleteRow, R!RecordAudit, R!table
    <2> QED
      BY <2>1, <2>2, <2>3, <2>4 DEF Emails
  <1>4. CASE Mail(a)
    <2> DEFINE t == tx[a].tok
    <2>1. /\ tx[a].pc = "mail" /\ t \in Tokens /\ user[t] = tx[a].user
          /\ UNCHANGED user
      BY <1>4 DEF Mail, R!SendResetEmail, Components, RP!Inv, RP!Located,
         RP!RequesterOK
    <2>2. /\ att[a].pc = "execute"
          /\ \E r \in {t, None} :
                att' = [att EXCEPT ![a] = [att[a] EXCEPT !.pc = "store",
                                                         !.resp = r]]
      <3>1. CASE I!Execute(a, t)
        BY <3>1 DEF I!Execute
      <3>2. CASE I!ExecuteErrors(a)
        BY <3>2 DEF I!ExecuteErrors
      <3> QED
        BY <1>4, <3>1, <3>2 DEF Mail
    <2>3. /\ att'[a].pc = "store"
          /\ \A b \in Requesters : b # a => att'[b] = att[b]
      <3>1. PICK r \in {t, None} :
               att' = [att EXCEPT ![a] = [att[a] EXCEPT !.pc = "store",
                                                        !.resp = r]]
        BY <2>2
      <3>2. [att[a] EXCEPT !.pc = "store", !.resp = r].pc = "store"
        BY <1>1 DEF IP!Attempt
      <3> QED
        BY <3>1, <3>2, OneAttempt
    <2>4. \A b \in Requesters : b # a => tx'[b] = tx[b]
      <3>1. \E y : tx' = [tx EXCEPT ![a] = y]
        BY <1>4 DEF Mail, R!SendResetEmail
      <3> QED
        BY <3>1, OneTx
    <2>5. \A x \in Tokens : \/ by'[x] = by[x]
                            \/ x = t /\ by'[x].body = att[a].body
      BY <1>4 DEF Mail, I!Execute, I!ExecuteErrors, Components, IP!Inv,
         IP!TypeOK
    <2>6. user[t] = att[a].body.email
      BY <2>1, <2>2 DEF Emails
    <2> QED
      BY <2>1, <2>3, <2>4, <2>5, <2>6 DEF Emails
  <1>5. CASE Commit(a)
    <2>1. /\ tx'[a].pc = "idle"
          /\ \A b \in Requesters : b # a =>
                tx'[b].pc = tx[b].pc /\ tx'[b].user = tx[b].user
      BY <1>5, CommitTx DEF Commit, SameScope, RP!Processes, R!Idle
    <2>2. \A b \in Requesters : b # a => att'[b] = att[b]
      BY <1>5, AttemptOver DEF Commit
    <2>3. UNCHANGED <<user, by>>
      BY <1>5 DEF Commit, R!Commit, Closed, record, I!Answer
    <2> QED
      BY <2>1, <2>2, <2>3, EmailsFrame
  <1> QED
    BY <1>2, <1>3, <1>4, <1>5

(* Every step keeps Emails. *)
LEMMA EmailsStep == Components /\ Link /\ Emails /\ [Next]_vars => Emails'
  <1> SUFFICES ASSUME Components, Link, Emails, [Next]_vars PROVE Emails'
    OBVIOUS
  <1>1. ASSUME NEW p \in Resetters, Reset(p) PROVE Emails'
    <2>1. p \in RP!Processes /\ p \notin Requesters
      BY RoleAssumption DEF RP!Processes
    <2>2. tx[p].pc \notin {"delete", "insert", "mail"}
      BY DEF Components, RP!Inv, RP!Located, RP!ResetterOK
    <2>3. UNCHANGED <<user, by, att>>
      BY <1>1, <2>2 DEF Reset, R!FindByToken, R!Advance,
         R!DeleteAllByUserId, R!DeleteRow, R!InsertToken, R!SendResetEmail,
         R!SaveUser, R!SaveTokenRead, R!ReinsertToken, R!UpdateToken,
         R!RevokeAllUserSessions, R!RecordAudit, R!Commit,
         R!DeadlockDetected, R!InsertFails, R!Abort, R!table, record
    <2>4. \A b \in Requesters : tx'[b].pc = tx[b].pc /\ tx'[b].user = tx[b].user
      <3>1. CASE R!Commit(p)
        BY <2>1, <3>1, CommitTx DEF RP!Processes, SameScope
      <3>2. ASSUME NEW y, tx' = [tx EXCEPT ![p] = y]
            PROVE  \A b \in Requesters : tx'[b] = tx[b]
        BY <2>1, <3>2 DEF Components, RP!Inv, RP!TypeOK, RP!Processes
      <3>3. R!Commit(p) \/ \E y : tx' = [tx EXCEPT ![p] = y]
        BY <1>1, <2>2 DEF Reset, R!FindByToken, R!Advance,
           R!DeleteAllByUserId, R!DeleteRow, R!InsertToken, R!SendResetEmail,
           R!SaveUser, R!SaveTokenRead, R!ReinsertToken, R!UpdateToken,
           R!RevokeAllUserSessions, R!RecordAudit, R!DeadlockDetected,
         R!InsertFails, R!Abort
      <3> QED
        BY <3>1, <3>2, <3>3
    <2> QED
      BY <2>3, <2>4, EmailsFrame
  <1>2. CASE TokenTick \/ RecordTick \/ UNCHANGED vars
    BY <1>2 DEF TokenTick, RecordTick, R!Tick, I!Tick, vars, request, record,
       Emails
  <1> QED
    BY <1>1, <1>2, EmailsAttempt, EmailsHandler DEF Next

(* A client that passes its email as a variable is answered only about a token
   of that email, for any keys, emails and overlapping requests.  An email in
   the document is not in the hash, and the claim does not extend to it. *)
THEOREM RetryNamesEmail == Spec => []AnswerNamesEmail
  <1>1. Components /\ Emails => AnswerNamesEmail
    <2> SUFFICES ASSUME Components, Emails, NEW a \in Requesters,
                        att[a].resp \in Tokens, ~att[a].body.inline
                 PROVE  user[att[a].resp] = att[a].body.email
      BY DEF AnswerNamesEmail
    <2> DEFINE t == att[a].resp
               b == att[a].body
    <2>1. b \in Bodies
      BY NoneAssumption DEF Components, IP!Inv, IP!Known, IP!AttemptKnows,
         IP!TypeOK
    <2>2. /\ by[t].body \in Bodies
          /\ VariablesOf(by[t].body) = VariablesOf(b)
      <3>1. IP!ExecutedFor(t, att[a].key, [x \in Bodies |-> VariablesOf(x)][b])
        BY DEF Components, IP!Inv, IP!Known, IP!AttemptKnows
      <3> QED
        BY <2>1, <3>1 DEF IP!ExecutedFor
    <2>3. b.email \in Users /\ VariablesOf(b) = b.email
      BY <2>1, BodyAssumption DEF VariablesOf
    <2>4. by[t].body.email = b.email
      BY <2>2, <2>3, NoneAssumption DEF VariablesOf
    <2> QED
      BY <2>2, <2>4 DEF Emails
  <1>2. Spec => []Emails
    BY ComponentsInv, LinkInvariance, EmailsInit, EmailsStep, PTL DEF Spec
  <1> QED
    BY <1>1, <1>2, ComponentsInv, PTL

(* One active token per user, also when requests are retried with a key. *)
THEOREM OnePendingOnRetry == Spec => []R!OneActiveToken
  <1>1. Components => R!OneActiveToken
    <2> SUFFICES ASSUME Components, NEW t1 \in Tokens, NEW t2 \in Tokens,
                        row[t1] = "fresh", row[t2] = "fresh",
                        user[t1] = user[t2], user[t1] \notin raced
                 PROVE  t1 = t2
      BY DEF R!OneActiveToken
    <2>1. user[t1] \in Users
      BY DEF Components, RP!Inv, RP!Unissued, RP!TypeOK
    <2> QED
      BY <2>1 DEF Components, RP!Inv, RP!Serial, RP!OneRequest
  <1> QED
    BY <1>1, ComponentsInv, PTL
=============================================================================
