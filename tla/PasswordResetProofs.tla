------------------------ MODULE PasswordResetProofs ------------------------
(***************************************************************************)
(* Proofs about PasswordReset, for any users, tokens, token lifetime and   *)
(* number of requests served at the same time.                             *)
(***************************************************************************)
EXTENDS PasswordReset, TLAPS

-----------------------------------------------------------------------------
(* The inductive invariant. *)

Transaction ==
    [pc : {"idle", "delete", "insert", "mail", "user", "token",
           "reinsert", "update", "revoke", "audit", "commit"},
     user : Users \cup {None}, tok : Tokens \cup {None},
     want : SUBSET Tokens, locks : SUBSET Tokens,
     pw : BOOLEAN, ok : BOOLEAN, dead : BOOLEAN]

(* What a requestPasswordReset knows at each await. *)
RequesterOK(x) ==
    /\ x.pc \in {"idle", "delete", "insert", "mail", "audit", "commit"}
    /\ x.pc = "idle" => x = Idle
    /\ x.pc # "idle" => x.user \in Users
    /\ x.pc \in {"delete", "insert"} => x.tok = None
    /\ x.pc \in {"mail", "audit", "commit"} =>
         \/ x.tok \in Tokens /\ user[x.tok] = x.user
         \/ x.tok = None /\ x.dead = TRUE
    /\ \A t \in x.want \cup x.locks : user[t] = x.user /\ row[t] # "absent"
    /\ x.pw = FALSE
    /\ x.dead = TRUE => x.pc = "commit" /\ x.locks = {}

(* What a resetPassword knows at each await: it has written the row of its
   token, or the row is no longer usable. *)
ResetterOK(x) ==
    /\ x.pc \in {"idle", "user", "token", "reinsert", "update", "revoke",
                 "audit", "commit"}
    /\ x.pc = "idle" => x = Idle
    /\ x.pc # "idle" => /\ x.tok \in Tokens /\ user[x.tok] = x.user
                        /\ x.user \in Users
    /\ x.want = {}
    /\ x.locks \subseteq {x.tok}
    /\ x.locks # {} => x.pw = TRUE
    /\ x.pc = "reinsert" => x.pw = TRUE /\ row[x.tok] = "absent"
    /\ x.pc \in {"token", "update"} => x.pw = TRUE
    /\ x.pc \in {"user", "token", "reinsert", "update"} => x.locks = {}
    /\ x.pc = "user" => x.pw = FALSE
    /\ x.pc \in {"revoke", "audit", "commit"} =>
         x.dead = TRUE \/ x.tok \in x.locks \/ row[x.tok] # "fresh"

Located ==
    /\ \A p \in Requesters : RequesterOK(tx[p])
    /\ \A p \in Resetters : ResetterOK(tx[p])

(* The UPDATE of the users row lets one reset of a user through. *)
PwExclusive ==
    \A p, q \in Processes :
        p # q /\ tx[p].pw = TRUE /\ tx[q].pw = TRUE => tx[p].user # tx[q].user

(* A token nobody has generated yet. *)
Unissued ==
    \A t \in Tokens : user[t] = None => row[t] = "absent" /\ uses[t] = 0

(* A token whose INSERT is not committed is unknown to everybody else. *)
Unborn ==
    \A p \in Requesters : tx[p].tok \in Tokens =>
        /\ row[tx[p].tok] = "absent" /\ uses[tx[p].tok] = 0
        /\ \A q \in Processes : q # p => tx[q].tok # tx[p].tok

(* A request deletes every usable row of its user. *)
Covers(x) ==
    \A t \in Tokens : row[t] = "fresh" /\ user[t] = x.user =>
        /\ x.pc = "delete" => t \in x.want \cup x.locks
        /\ x.pc \in {"insert", "mail", "audit", "commit"} =>
             x.dead = TRUE \/ t \in x.locks

(* A user no two requests of whom overlapped. *)
OneRequest(u) ==
    /\ \A p, q \in Requesters : tx[p].user = u /\ tx[q].user = u => p = q
    /\ \A p \in Requesters : tx[p].user = u => Covers(tx[p])
    /\ \A t1, t2 \in Tokens :
          /\ row[t1] = "fresh" /\ row[t2] = "fresh"
          /\ user[t1] = u /\ user[t2] = u
          => t1 = t2

(* A token no two resets with which overlapped. *)
OneReset(t) ==
    /\ \A p, q \in Resetters : tx[p].tok = t /\ tx[q].tok = t => p = q
    /\ \A p \in Resetters : tx[p].tok = t => uses[t] = 0
    /\ uses[t] <= 1

Serial ==
    /\ \A u \in Users \ raced : OneRequest(u)
    /\ \A t \in Tokens \ raced : OneReset(t)

Inv ==
    /\ TypeOK
    /\ Located
    /\ PwExclusive
    /\ RowLocksExclusive
    /\ Unissued
    /\ Unborn
    /\ ChangeConsumes
    /\ Serial

-----------------------------------------------------------------------------
(* No transaction. *)
LEMMA IdleType ==
    /\ Idle \in Transaction /\ Idle.pc = "idle" /\ Idle.user = None
    /\ Idle.tok = None /\ Idle.want = {} /\ Idle.locks = {}
    /\ Idle.pw = FALSE /\ Idle.dead = FALSE
  BY DEF Idle, Transaction

(* No transaction is where any request may be. *)
LEMMA IdleOK == RequesterOK(Idle) /\ ResetterOK(Idle)
  BY IdleType DEF RequesterOK, ResetterOK

(* The initial state. *)
LEMMA InitInv == Init => Inv
  <1> SUFFICES ASSUME Init PROVE Inv
    OBVIOUS
  <1>1. /\ \A p \in Processes : tx[p] = Idle
        /\ \A t \in Tokens : row[t] = "absent" /\ user[t] = None /\ uses[t] = 0
        /\ tx \in [Processes -> Transaction]
    BY IdleType DEF Init
  <1>2. TypeOK
    BY <1>1, TTLAssumption DEF Init, TypeOK, Transaction
  <1>3. Located
    BY <1>1, IdleOK DEF Located, Processes
  <1>4. PwExclusive /\ RowLocksExclusive /\ Unissued
    BY <1>1, IdleType DEF PwExclusive, RowLocksExclusive, Unissued
  <1>5. Unborn
    BY <1>1, IdleType, NoneAssumption DEF Unborn, Processes
  <1>6. ChangeConsumes
    BY <1>1 DEF ChangeConsumes
  <1>7. Serial
    <2>1. \A u \in Users : OneRequest(u)
      BY <1>1, IdleType, NoneAssumption DEF OneRequest, Processes
    <2>2. \A t \in Tokens : OneReset(t)
      <3>1. 0 <= 1
        OBVIOUS
      <3> QED
        BY <1>1, <3>1, IdleType, NoneAssumption DEF OneReset, Processes
    <2> QED
      BY <2>1, <2>2 DEF Serial
  <1> QED
    BY <1>2, <1>3, <1>4, <1>5, <1>6, <1>7 DEF Inv

(* A step of one process leaves the others where they are. *)
LEMMA ProcessUpdate ==
    ASSUME TypeOK, NEW p \in Processes, NEW y \in Transaction,
           tx' = [tx EXCEPT ![p] = y]
    PROVE  /\ tx' \in [Processes -> Transaction]
           /\ tx'[p] = y
           /\ \A q \in Processes : q # p => tx'[q] = tx[q]
  BY DEF TypeOK, Transaction

(* A process that ends, or goes on with the same user and token, and leaves
   the committed rows alone. *)
LEMMA ProcessMove ==
    ASSUME Inv, UNCHANGED <<row, user, left, uses, raced>>,
           mailed' \in SUBSET Tokens, answered' \in SUBSET Tokens,
           NEW p \in Processes, NEW y \in Transaction,
           tx' = [tx EXCEPT ![p] = y],
           y = Idle \/ (y.user = tx[p].user /\ y.tok = tx[p].tok),
           p \in Requesters => RequesterOK(y),
           p \in Resetters => ResetterOK(y),
           y.pw = TRUE => UserRowFree(p) \/ tx[p].pw = TRUE,
           \A t \in y.locks : ~LockedByOther(p, t),
           p \in Requesters /\ Covers(tx[p]) => Covers(y)
    PROVE  Inv'
  <1>1. /\ tx' \in [Processes -> Transaction] /\ tx'[p] = y
        /\ \A q \in Processes : q # p => tx'[q] = tx[q]
    BY ProcessUpdate DEF Inv
  <1>2. TypeOK'
    BY <1>1 DEF Inv, TypeOK, Transaction
  <1>3. Located'
    BY <1>1 DEF Inv, Located, RequesterOK, ResetterOK, Processes
  <1>4. PwExclusive'
    <2>1. y.pw = TRUE => y.user = tx[p].user
      BY IdleType
    <2>2. \A q \in Processes : q # p /\ y.pw = TRUE /\ tx[q].pw = TRUE =>
             tx[q].user # y.user
      BY <2>1 DEF Inv, PwExclusive, UserRowFree
    <2> QED
      BY <1>1, <2>2 DEF Inv, PwExclusive
  <1>5. RowLocksExclusive'
    BY <1>1 DEF Inv, RowLocksExclusive, LockedByOther
  <1>6. Unissued' /\ ChangeConsumes'
    BY DEF Inv, Unissued, ChangeConsumes
  <1>7. Unborn'
    BY <1>1, IdleType, NoneAssumption DEF Inv, Unborn, Processes
  <1>8. Serial'
    <2>1. ASSUME NEW u \in Users \ raced PROVE OneRequest(u)'
      <3>1. OneRequest(u)
        BY DEF Inv, Serial
      <3>2. \A q \in Requesters : tx'[q].user = u => tx[q].user = u
        BY <1>1, IdleType, NoneAssumption DEF Processes
      <3>3. \A q \in Requesters : tx'[q].user = u => Covers(tx'[q])
        BY <1>1, <3>1, <3>2 DEF OneRequest, Processes
      <3> QED
        BY <3>1, <3>2, <3>3 DEF OneRequest, Covers
    <2>2. ASSUME NEW t \in Tokens \ raced PROVE OneReset(t)'
      <3>1. OneReset(t)
        BY DEF Inv, Serial
      <3>2. \A q \in Resetters : tx'[q].tok = t => tx[q].tok = t
        BY <1>1, IdleType, NoneAssumption DEF Processes
      <3> QED
        BY <3>1, <3>2 DEF OneReset
    <2> QED
      BY <2>1, <2>2 DEF Serial
  <1> QED
    BY <1>2, <1>3, <1>4, <1>5, <1>6, <1>7, <1>8 DEF Inv

(* Where a process is tells which handler it runs. *)
LEMMA Handler ==
    ASSUME Inv, NEW p \in Processes
    PROVE  /\ tx[p] \in Transaction
           /\ p \in Requesters => RequesterOK(tx[p])
           /\ p \in Resetters => ResetterOK(tx[p])
           /\ tx[p].pc \in {"delete", "insert", "mail"} =>
                p \in Requesters /\ p \notin Resetters
           /\ tx[p].pc \in {"user", "token", "reinsert", "update", "revoke"} =>
                p \in Resetters /\ p \notin Requesters
  <1>1. tx[p] \in Transaction
    BY DEF Inv, TypeOK, Transaction
  <1>2. /\ p \in Requesters => RequesterOK(tx[p])
        /\ p \in Resetters => ResetterOK(tx[p])
    BY DEF Inv, Located
  <1>3. p \in Requesters \/ p \in Resetters
    BY DEF Processes
  <1> QED
    BY <1>1, <1>2, <1>3, RoleAssumption DEF RequesterOK, ResetterOK

-----------------------------------------------------------------------------
(* requestPasswordReset. *)

(* The DELETE locks one more row. *)
LEMMA DeleteRowStep ==
    ASSUME Inv, NEW p \in Processes, NEW t \in Tokens, DeleteRow(p, t)
    PROVE  Inv'
  <1> DEFINE x == tx[p]
             y == [x EXCEPT !.want = @ \ {t}, !.locks = @ \cup {t}]
  <1>1. /\ x \in Transaction /\ x.pc = "delete" /\ RequesterOK(x)
        /\ p \in Requesters /\ p \notin Resetters /\ t \in x.want
    BY Handler DEF DeleteRow
  <1>2. tx' = [tx EXCEPT ![p] = y] /\ UNCHANGED <<table, history>>
    BY DEF DeleteRow
  <1>3. /\ y \in Transaction /\ y.pc = "delete" /\ y.want = x.want \ {t}
        /\ y.locks = x.locks \cup {t} /\ y.user = x.user /\ y.tok = x.tok
        /\ y.pw = x.pw /\ y.dead = x.dead
    BY <1>1 DEF Transaction
  <1>4. \A k \in y.locks : ~LockedByOther(p, k)
    <2>1. ~LockedByOther(p, t)
      BY DEF DeleteRow
    <2>2. \A k \in x.locks : ~LockedByOther(p, k)
      BY DEF Inv, RowLocksExclusive, LockedByOther
    <2> QED
      BY <1>3, <2>1, <2>2
  <1> HIDE DEF y
  <1>5. RequesterOK(y)
    BY <1>1, <1>3 DEF RequesterOK
  <1>6. Covers(x) => Covers(y)
    BY <1>1, <1>3 DEF Covers
  <1>7. /\ UNCHANGED <<row, user, left, uses, raced>>
        /\ mailed' \in SUBSET Tokens /\ answered' \in SUBSET Tokens
    BY <1>2 DEF table, history, Inv, TypeOK
  <1> QED
    BY <1>1, <1>2, <1>3, <1>4, <1>5, <1>6, <1>7, ProcessMove DEF RequesterOK

(* The DELETE has locked every usable row of the user. *)
LEMMA DeleteStep ==
    ASSUME Inv, NEW p \in Processes, DeleteAllByUserId(p)
    PROVE  Inv'
  <1> DEFINE x == tx[p]
             y == [x EXCEPT !.pc = "insert"]
  <1>1. /\ x \in Transaction /\ x.pc = "delete" /\ RequesterOK(x)
        /\ p \in Requesters /\ p \notin Resetters /\ x.want = {}
    BY Handler DEF DeleteAllByUserId
  <1>2. tx' = [tx EXCEPT ![p] = y] /\ UNCHANGED <<table, history>>
    BY DEF DeleteAllByUserId
  <1>3. /\ y \in Transaction /\ y.pc = "insert" /\ y.want = {}
        /\ y.locks = x.locks /\ y.user = x.user /\ y.tok = x.tok
        /\ y.pw = x.pw /\ y.dead = x.dead
    BY <1>1 DEF Transaction
  <1>4. \A t \in y.locks : ~LockedByOther(p, t)
    BY <1>3 DEF Inv, RowLocksExclusive, LockedByOther
  <1> HIDE DEF y
  <1>5. RequesterOK(y)
    BY <1>1, <1>3 DEF RequesterOK
  <1>6. Covers(x) => Covers(y)
    BY <1>1, <1>3 DEF Covers
  <1>7. /\ UNCHANGED <<row, user, left, uses, raced>>
        /\ mailed' \in SUBSET Tokens /\ answered' \in SUBSET Tokens
    BY <1>2 DEF table, history, Inv, TypeOK
  <1> QED
    BY <1>1, <1>2, <1>3, <1>4, <1>5, <1>6, <1>7, ProcessMove DEF RequesterOK

(* The mail is sent, or fails and the request goes on to its commit. *)
LEMMA MailStep ==
    ASSUME Inv, NEW p \in Processes, SendResetEmail(p)
    PROVE  Inv'
  <1> DEFINE x == tx[p]
  <1>1. /\ x \in Transaction /\ x.pc = "mail" /\ RequesterOK(x)
        /\ p \in Requesters /\ p \notin Resetters
    BY Handler DEF SendResetEmail
  <1>2. PICK y \in {[x EXCEPT !.pc = "audit"],
                    [x EXCEPT !.pc = "commit", !.ok = FALSE]} :
           tx' = [tx EXCEPT ![p] = y]
    BY DEF SendResetEmail
  <1>3. /\ y \in Transaction /\ y.pc \in {"audit", "commit"} /\ y.want = x.want
        /\ y.locks = x.locks /\ y.user = x.user /\ y.tok = x.tok
        /\ y.pw = x.pw /\ y.dead = x.dead
    BY <1>1, <1>2 DEF Transaction
  <1>4. mailed' \in SUBSET Tokens
    BY <1>1 DEF SendResetEmail, RequesterOK, Inv, TypeOK
  <1>5. RequesterOK(y) /\ y.pw = FALSE
    BY <1>1, <1>3 DEF RequesterOK
  <1>6. Covers(x) => Covers(y)
    BY <1>1, <1>3 DEF Covers
  <1>7. \A t \in y.locks : ~LockedByOther(p, t)
    BY <1>3 DEF Inv, RowLocksExclusive, LockedByOther
  <1>8. /\ UNCHANGED <<row, user, left, uses, raced>>
        /\ answered' \in SUBSET Tokens
    BY DEF SendResetEmail, history, Inv, TypeOK
  <1> QED
    BY <1>1, <1>2, <1>3, <1>4, <1>5, <1>6, <1>7, <1>8, ProcessMove

-----------------------------------------------------------------------------
(* resetPassword. *)

(* A step of a reset that takes no lock on a token row. *)
LEMMA ResetMove ==
    ASSUME Inv, UNCHANGED <<table, history>>,
           NEW p \in Processes, p \in Resetters, p \notin Requesters,
           NEW y \in Transaction, tx' = [tx EXCEPT ![p] = y],
           y.user = tx[p].user, y.tok = tx[p].tok, ResetterOK(y),
           y.pw = TRUE => UserRowFree(p) \/ tx[p].pw = TRUE,
           y.locks \subseteq tx[p].locks
    PROVE  Inv'
  <1>1. \A t \in y.locks : ~LockedByOther(p, t)
    BY DEF Inv, RowLocksExclusive, LockedByOther
  <1>2. /\ UNCHANGED <<row, user, left, uses, raced>>
        /\ mailed' \in SUBSET Tokens /\ answered' \in SUBSET Tokens
    BY DEF table, history, Inv, TypeOK
  <1> QED
    BY <1>1, <1>2, ProcessMove

(* The UPDATE of the users row waits for the row. *)
LEMMA SaveUserStep ==
    ASSUME Inv, NEW p \in Processes, SaveUser(p)
    PROVE  Inv'
  <1> DEFINE x == tx[p]
             y == [x EXCEPT !.pc = "token", !.pw = TRUE]
  <1>1. /\ x \in Transaction /\ x.pc = "user" /\ ResetterOK(x)
        /\ p \in Resetters /\ p \notin Requesters
    BY Handler DEF SaveUser
  <1>2. /\ y \in Transaction /\ y.pc = "token" /\ y.locks = x.locks
        /\ y.user = x.user /\ y.tok = x.tok /\ y.pw = TRUE /\ y.want = x.want
    BY <1>1 DEF Transaction
  <1>3. /\ tx' = [tx EXCEPT ![p] = y] /\ UserRowFree(p)
        /\ UNCHANGED <<table, history>>
    BY DEF SaveUser
  <1> HIDE DEF y
  <1>4. ResetterOK(y)
    BY <1>1, <1>2 DEF ResetterOK
  <1> QED
    BY <1>1, <1>2, <1>3, <1>4, ResetMove

(* The SELECT of the token row decides what is left to write. *)
LEMMA SaveTokenReadStep ==
    ASSUME Inv, NEW p \in Processes, SaveTokenRead(p)
    PROVE  Inv'
  <1> DEFINE x == tx[p]
             s == SaveStep(x.tok)
             y == [x EXCEPT !.pc = s]
  <1>1. /\ x \in Transaction /\ x.pc = "token" /\ ResetterOK(x)
        /\ p \in Resetters /\ p \notin Requesters
    BY Handler DEF SaveTokenRead
  <1>2. \/ row[x.tok] = "absent" /\ s = "reinsert"
        \/ s = "update"
        \/ row[x.tok] = "used" /\ s = "revoke"
    <2>1. row[x.tok] \in {"absent", "fresh", "used"}
      BY <1>1 DEF ResetterOK, Inv, TypeOK
    <2> QED
      BY <2>1 DEF SaveStep
  <1> HIDE DEF s
  <1>3. /\ y \in Transaction /\ y.pc = s /\ y.locks = x.locks
        /\ y.user = x.user /\ y.tok = x.tok /\ y.pw = x.pw /\ y.want = x.want
    BY <1>1, <1>2 DEF Transaction
  <1>4. tx' = [tx EXCEPT ![p] = y] /\ UNCHANGED <<table, history>>
    BY DEF SaveTokenRead, s
  <1> HIDE DEF y
  <1>5. ResetterOK(y)
    BY <1>1, <1>2, <1>3 DEF ResetterOK
  <1> QED
    BY <1>1, <1>3, <1>4, <1>5, ResetMove

(* Nobody else can have written a row that is gone: a DELETE that holds it
   still shows it, and a reset that writes it holds the users row. *)
LEMMA ReinsertStep ==
    ASSUME Inv, NEW p \in Processes, ReinsertToken(p)
    PROVE  Inv'
  <1> DEFINE x == tx[p]
             y == [x EXCEPT !.pc = "revoke", !.locks = {x.tok}]
  <1>1. /\ x \in Transaction /\ x.pc = "reinsert" /\ ResetterOK(x)
        /\ p \in Resetters /\ p \notin Requesters
    BY Handler DEF ReinsertToken
  <1>2. x.tok \in Tokens /\ x.pw = TRUE /\ row[x.tok] = "absent"
        /\ user[x.tok] = x.user /\ x.user \in Users
    BY <1>1 DEF ResetterOK
  <1>3. /\ y \in Transaction /\ y.pc = "revoke" /\ y.locks = {x.tok}
        /\ y.user = x.user /\ y.tok = x.tok /\ y.pw = x.pw /\ y.want = x.want
    BY <1>1, <1>2 DEF Transaction
  <1>4. tx' = [tx EXCEPT ![p] = y] /\ UNCHANGED <<table, history>>
    BY DEF ReinsertToken
  <1> HIDE DEF y
  <1>5. ResetterOK(y)
    BY <1>1, <1>2, <1>3 DEF ResetterOK
  <1>6. ASSUME NEW q \in Processes, q # p, x.tok \in tx[q].locks PROVE FALSE
    <2>1. CASE q \in Requesters
      BY <1>2, <1>6, <2>1 DEF Inv, Located, RequesterOK
    <2>2. CASE q \in Resetters
      <3>1. tx[q].tok = x.tok /\ tx[q].pw = TRUE /\ tx[q].pc # "idle"
        BY <1>6, <2>2, IdleType DEF Inv, Located, ResetterOK
      <3>2. tx[q].user = x.user
        BY <1>2, <2>2, <3>1 DEF Inv, Located, ResetterOK
      <3> QED
        BY <1>2, <1>6, <3>1, <3>2 DEF Inv, PwExclusive
    <2> QED
      BY <2>1, <2>2 DEF Processes
  <1>7. \A t \in y.locks : ~LockedByOther(p, t)
    BY <1>3, <1>6 DEF LockedByOther
  <1>8. /\ UNCHANGED <<row, user, left, uses, raced>>
        /\ mailed' \in SUBSET Tokens /\ answered' \in SUBSET Tokens
    BY <1>4 DEF table, history, Inv, TypeOK
  <1> QED
    BY <1>1, <1>2, <1>3, <1>4, <1>5, <1>7, <1>8, ProcessMove

(* The fields of a transaction that a failed statement has killed. *)
LEMMA KilledType ==
    ASSUME NEW x \in Transaction
    PROVE  /\ Killed(x) \in Transaction /\ Killed(x).pc = x.pc
           /\ Killed(x).user = x.user /\ Killed(x).tok = x.tok
           /\ Killed(x).want = {}
           /\ Killed(x).locks = {} /\ Killed(x).pw = FALSE
           /\ Killed(x).dead = TRUE
  BY DEF Killed, Transaction

(* The UPDATE of the token row writes it, or fails and kills the
   transaction. *)
LEMMA UpdateStep ==
    ASSUME Inv, NEW p \in Processes, UpdateToken(p)
    PROVE  Inv'
  <1> DEFINE x == tx[p]
  <1>1. /\ x \in Transaction /\ x.pc = "update" /\ ResetterOK(x)
        /\ p \in Resetters /\ p \notin Requesters
    BY Handler DEF UpdateToken
  <1>2. x.tok \in Tokens /\ x.pw = TRUE
    BY <1>1 DEF ResetterOK
  <1>3. UNCHANGED <<table, history>> /\ ~LockedByOther(p, x.tok)
    BY DEF UpdateToken
  <1>4. CASE row[x.tok] = "absent"
    <2> DEFINE z == Killed(x)
               y == [z EXCEPT !.pc = "commit", !.ok = FALSE]
    <2>1. /\ z \in Transaction /\ z.user = x.user /\ z.tok = x.tok
          /\ z.want = {} /\ z.locks = {} /\ z.pw = FALSE /\ z.dead = TRUE
      BY <1>1, KilledType
    <2>2. tx' = [tx EXCEPT ![p] = y]
      BY <1>4 DEF UpdateToken
    <2> HIDE DEF z
    <2>3. /\ y \in Transaction /\ y.pc = "commit" /\ y.locks = {}
          /\ y.user = x.user /\ y.tok = x.tok /\ y.want = {}
          /\ y.pw = FALSE /\ y.dead = TRUE
      BY <2>1 DEF Transaction
    <2> HIDE DEF y
    <2>4. ResetterOK(y)
      BY <1>1, <2>3 DEF ResetterOK
    <2> QED
      BY <1>1, <1>3, <2>2, <2>3, <2>4, ResetMove
  <1>5. CASE row[x.tok] # "absent"
    <2> DEFINE y == [x EXCEPT !.pc = "revoke", !.locks = {x.tok}]
    <2>1. /\ y \in Transaction /\ y.pc = "revoke" /\ y.locks = {x.tok}
          /\ y.user = x.user /\ y.tok = x.tok /\ y.want = x.want /\ y.pw = TRUE
      BY <1>1, <1>2 DEF Transaction
    <2>2. tx' = [tx EXCEPT ![p] = y]
      BY <1>5 DEF UpdateToken
    <2> HIDE DEF y
    <2>3. ResetterOK(y)
      BY <1>1, <2>1 DEF ResetterOK
    <2>4. /\ UNCHANGED <<row, user, left, uses, raced>>
          /\ mailed' \in SUBSET Tokens /\ answered' \in SUBSET Tokens
      BY <1>3 DEF table, history, Inv, TypeOK
    <2> QED
      BY <1>1, <1>2, <1>3, <2>1, <2>2, <2>3, <2>4, ProcessMove
  <1> QED
    BY <1>4, <1>5

(* The revocation of the sessions answers, or raises. *)
LEMMA RevokeStep ==
    ASSUME Inv, NEW p \in Processes, RevokeAllUserSessions(p)
    PROVE  Inv'
  <1> DEFINE x == tx[p]
  <1>1. /\ x \in Transaction /\ x.pc = "revoke" /\ ResetterOK(x)
        /\ p \in Resetters /\ p \notin Requesters
    BY Handler DEF RevokeAllUserSessions
  <1>2. PICK y \in {[x EXCEPT !.pc = "audit"],
                    [x EXCEPT !.pc = "commit", !.ok = FALSE]} :
           tx' = [tx EXCEPT ![p] = y]
    BY DEF RevokeAllUserSessions
  <1>3. /\ y \in Transaction /\ y.pc \in {"audit", "commit"}
        /\ y.locks = x.locks /\ y.user = x.user /\ y.tok = x.tok
        /\ y.want = x.want /\ y.pw = x.pw /\ y.dead = x.dead
    BY <1>1, <1>2 DEF Transaction
  <1>4. ResetterOK(y)
    BY <1>1, <1>3 DEF ResetterOK
  <1>5. UNCHANGED <<table, history>>
    BY DEF RevokeAllUserSessions
  <1> QED
    BY <1>1, <1>2, <1>3, <1>4, <1>5, ResetMove

-----------------------------------------------------------------------------
(* Both requests. *)

(* The audit record is written, or its flush kills the transaction. *)
LEMMA AuditStep ==
    ASSUME Inv, NEW p \in Processes, RecordAudit(p)
    PROVE  Inv'
  <1> DEFINE x == tx[p]
  <1>1. x \in Transaction /\ x.pc = "audit" /\ UNCHANGED <<table, history>>
    BY Handler DEF RecordAudit
  <1>2. PICK z \in {x, Killed(x)} : tx' = [tx EXCEPT ![p] = [z EXCEPT !.pc = "commit"]]
    BY DEF RecordAudit, Recorded
  <1>3. /\ z \in Transaction /\ z.user = x.user /\ z.tok = x.tok
        /\ z.want \subseteq x.want
        /\ \/ z.locks = x.locks /\ z.pw = x.pw /\ z.dead = x.dead
           \/ z.locks = {} /\ z.pw = FALSE /\ z.dead = TRUE
    BY <1>1, <1>2, KilledType
  <1> DEFINE y == [z EXCEPT !.pc = "commit"]
  <1>4. /\ y \in Transaction /\ y.pc = "commit" /\ y.user = x.user
        /\ y.tok = x.tok /\ y.want \subseteq x.want
        /\ \/ y.locks = x.locks /\ y.pw = x.pw /\ y.dead = x.dead
           \/ y.locks = {} /\ y.pw = FALSE /\ y.dead = TRUE
    BY <1>3 DEF Transaction
  <1>5. tx' = [tx EXCEPT ![p] = y]
    BY <1>2
  <1> HIDE DEF y
  <1>6. p \in Requesters => RequesterOK(y)
    BY <1>1, <1>4, Handler DEF RequesterOK
  <1>7. p \in Resetters => ResetterOK(y)
    BY <1>1, <1>4, Handler DEF ResetterOK
  <1>8. Covers(x) => Covers(y)
    BY <1>1, <1>4 DEF Covers
  <1>9. /\ y.pw = TRUE => x.pw = TRUE
        /\ \A t \in y.locks : ~LockedByOther(p, t)
    BY <1>4 DEF Inv, RowLocksExclusive, LockedByOther
  <1>10. /\ UNCHANGED <<row, user, left, uses, raced>>
         /\ mailed' \in SUBSET Tokens /\ answered' \in SUBSET Tokens
    BY <1>1 DEF table, history, Inv, TypeOK
  <1> QED
    BY <1>4, <1>5, <1>6, <1>7, <1>8, <1>9, <1>10, ProcessMove

(* A statement that raises kills the transaction. *)
LEMMA RaiseStep ==
    ASSUME Inv, NEW p \in Processes, DeadlockDetected(p) \/ InsertFails(p)
    PROVE  Inv'
  <1> DEFINE x == tx[p]
             z == Killed(x)
             y == [z EXCEPT !.pc = "commit", !.ok = FALSE]
  <1>1. /\ x \in Transaction /\ x.pc \in {"delete", "update", "user", "insert"}
        /\ UNCHANGED <<table, history>>
    BY Handler DEF DeadlockDetected, InsertFails, Waits
  <1>2. /\ z \in Transaction /\ z.user = x.user /\ z.tok = x.tok
        /\ z.want = {} /\ z.locks = {} /\ z.pw = FALSE /\ z.dead = TRUE
    BY <1>1, KilledType
  <1>3. tx' = [tx EXCEPT ![p] = y]
    BY DEF DeadlockDetected, InsertFails
  <1> HIDE DEF z
  <1>4. /\ y \in Transaction /\ y.pc = "commit" /\ y.locks = {}
        /\ y.user = x.user /\ y.tok = x.tok /\ y.want = {}
        /\ y.pw = FALSE /\ y.dead = TRUE
    BY <1>2 DEF Transaction
  <1> HIDE DEF y
  <1>5. p \in Requesters => RequesterOK(y)
    BY <1>1, <1>4, Handler DEF RequesterOK
  <1>6. p \in Resetters => ResetterOK(y)
    BY <1>1, <1>4, Handler DEF ResetterOK
  <1>7. Covers(y)
    BY <1>4 DEF Covers
  <1>8. /\ UNCHANGED <<row, user, left, uses, raced>>
        /\ mailed' \in SUBSET Tokens /\ answered' \in SUBSET Tokens
    BY <1>1 DEF table, history, Inv, TypeOK
  <1> QED
    BY <1>3, <1>4, <1>5, <1>6, <1>7, <1>8, ProcessMove

(* A transaction that ends without a write of its own. *)
LEMMA EndStep ==
    ASSUME Inv, NEW p \in Processes, tx' = [tx EXCEPT ![p] = Idle],
           UNCHANGED <<row, user, left, uses, raced, mailed>>,
           answered' \in SUBSET Tokens
    PROVE  Inv'
  <1>1. Covers(Idle)
    BY IdleType DEF Covers
  <1>2. mailed' \in SUBSET Tokens
    BY DEF Inv, TypeOK
  <1> QED
    BY <1>1, <1>2, IdleType, IdleOK, ProcessMove

(* A rollback keeps the invariant, wherever it happens. *)
LEMMA AbortStep ==
    ASSUME Inv, NEW p \in Processes, Abort(p)
    PROVE  Inv'
  BY EndStep DEF Abort, table, history, Inv, TypeOK

(* A new request of a user marks an overlap, or is the only one. *)
LEMMA RequestResetStep ==
    ASSUME Inv, NEW p \in Requesters, NEW u \in Users, RequestReset(p, u)
    PROVE  Inv'
  <1> DEFINE y == [Idle EXCEPT !.pc = "delete", !.user = u, !.want = RowsOf(u)]
  <1>1. /\ tx[p] = Idle /\ tx' = [tx EXCEPT ![p] = y]
        /\ raced' = raced \cup {x \in {u} : \E q \in Requesters : tx[q].user = x}
        /\ UNCHANGED <<row, user, left, mailed, uses, answered>>
    BY DEF RequestReset, table
  <1>2. /\ RowsOf(u) \in SUBSET Tokens
        /\ \A t \in RowsOf(u) : user[t] = u /\ row[t] # "absent"
    BY DEF RowsOf, Found
  <1>3. \A t \in Tokens : row[t] = "fresh" /\ user[t] = u => t \in RowsOf(u)
    BY DEF RowsOf, Found
  <1>4. /\ y \in Transaction /\ y.pc = "delete" /\ y.user = u
        /\ y.want = RowsOf(u) /\ y.tok = None /\ y.locks = {}
        /\ y.pw = FALSE /\ y.dead = FALSE
    BY <1>2 DEF Idle, Transaction
  <1> HIDE DEF y
  <1>5. p \in Processes /\ p \notin Resetters
    BY RoleAssumption DEF Processes
  <1>6. /\ tx' \in [Processes -> Transaction] /\ tx'[p] = y
        /\ \A q \in Processes : q # p => tx'[q] = tx[q]
    BY <1>1, <1>4, <1>5, ProcessUpdate DEF Inv
  <1>7. TypeOK'
    BY <1>1, <1>6 DEF Inv, TypeOK, Transaction
  <1>8. RequesterOK(y)
    BY <1>2, <1>4 DEF RequesterOK
  <1>9. Located'
    BY <1>1, <1>5, <1>6, <1>8 DEF Inv, Located, RequesterOK, ResetterOK, Processes
  <1>10. PwExclusive' /\ RowLocksExclusive'
    BY <1>4, <1>6 DEF Inv, PwExclusive, RowLocksExclusive
  <1>11. Unissued' /\ ChangeConsumes'
    BY <1>1 DEF Inv, Unissued, ChangeConsumes
  <1>12. Unborn'
    BY <1>1, <1>4, <1>6, NoneAssumption DEF Inv, Unborn, Processes
  <1>13. Serial'
    <2>1. ASSUME NEW v \in Users \ raced' PROVE OneRequest(v)'
      <3>1. OneRequest(v)
        BY <1>1 DEF Inv, Serial
      <3>2. CASE v = u
        <4>1. \A q \in Requesters : tx[q].user # u
          BY <1>1, <2>1, <3>2
        <4>2. \A q \in Requesters : tx'[q].user = u => q = p
          BY <1>6, <4>1 DEF Processes
        <4>3. Covers(tx[p])'
          BY <1>1, <1>3, <1>4, <1>6 DEF Covers
        <4>4. \A q \in Requesters : tx'[q].user = v => Covers(tx[q])'
          BY <3>2, <4>2, <4>3
        <4>5. \A q, r \in Requesters :
                 tx'[q].user = v /\ tx'[r].user = v => q = r
          BY <3>2, <4>2
        <4> QED
          BY <1>1, <3>1, <4>4, <4>5 DEF OneRequest
      <3>3. CASE v # u
        <4>1. \A q \in Requesters : tx'[q].user = v => q # p /\ tx'[q] = tx[q]
          BY <1>4, <1>6, <3>3 DEF Processes
        <4> QED
          BY <1>1, <3>1, <4>1 DEF OneRequest, Covers
      <3> QED
        BY <3>2, <3>3
    <2>2. ASSUME NEW t \in Tokens \ raced' PROVE OneReset(t)'
      <3>1. OneReset(t)
        BY <1>1 DEF Inv, Serial
      <3>2. \A q \in Resetters : tx'[q] = tx[q]
        BY <1>5, <1>6 DEF Processes
      <3> QED
        BY <1>1, <3>1, <3>2 DEF OneReset
    <2> QED
      BY <2>1, <2>2 DEF Serial
  <1> QED
    BY <1>7, <1>9, <1>10, <1>11, <1>12, <1>13 DEF Inv

(* A reset starts with a token that has never been used, and marks an overlap
   or is the only one. *)
LEMMA FindByTokenStep ==
    ASSUME Inv, NEW p \in Resetters, NEW t \in Tokens, FindByToken(p, t)
    PROVE  Inv'
  <1> DEFINE y == [Idle EXCEPT !.pc = "user", !.tok = t, !.user = user[t]]
  <1>1. /\ tx[p] = Idle /\ tx' = [tx EXCEPT ![p] = y]
        /\ raced' = raced \cup {x \in {t} : \E q \in Resetters : tx[q].tok = x}
        /\ UNCHANGED <<row, user, left, mailed, uses, answered>>
        /\ row[t] = "fresh"
    BY DEF FindByToken, table, Found, Consumable, Inv, TypeOK
  <1>2. user[t] \in Users
    BY <1>1 DEF Inv, Unissued, TypeOK
  <1>3. /\ y \in Transaction /\ y.pc = "user" /\ y.user = user[t] /\ y.tok = t
        /\ y.want = {} /\ y.locks = {} /\ y.pw = FALSE /\ y.dead = FALSE
    BY <1>2 DEF Idle, Transaction
  <1> HIDE DEF y
  <1>4. p \in Processes /\ p \notin Requesters
    BY RoleAssumption DEF Processes
  <1>5. /\ tx' \in [Processes -> Transaction] /\ tx'[p] = y
        /\ \A q \in Processes : q # p => tx'[q] = tx[q]
    BY <1>1, <1>3, <1>4, ProcessUpdate DEF Inv
  <1>6. TypeOK'
    BY <1>1, <1>5 DEF Inv, TypeOK, Transaction
  <1>7. ResetterOK(y)
    BY <1>2, <1>3 DEF ResetterOK
  <1>8. Located'
    BY <1>1, <1>4, <1>5, <1>7 DEF Inv, Located, RequesterOK, ResetterOK, Processes
  <1>9. PwExclusive' /\ RowLocksExclusive'
    BY <1>3, <1>5 DEF Inv, PwExclusive, RowLocksExclusive
  <1>10. Unissued' /\ ChangeConsumes'
    BY <1>1 DEF Inv, Unissued, ChangeConsumes
  <1>11. Unborn'
    BY <1>1, <1>3, <1>4, <1>5 DEF Inv, Unborn, Processes
  <1>12. Serial'
    <2>1. ASSUME NEW v \in Users \ raced' PROVE OneRequest(v)'
      <3>1. OneRequest(v)
        BY <1>1 DEF Inv, Serial
      <3>2. \A q \in Requesters : tx'[q] = tx[q]
        BY <1>4, <1>5 DEF Processes
      <3> QED
        BY <1>1, <3>1, <3>2 DEF OneRequest, Covers
    <2>2. ASSUME NEW k \in Tokens \ raced' PROVE OneReset(k)'
      <3>1. OneReset(k)
        BY <1>1 DEF Inv, Serial
      <3>2. CASE k = t
        <4>1. \A q \in Resetters : tx[q].tok # t
          BY <1>1, <2>2, <3>2
        <4>2. \A q \in Resetters : tx'[q].tok = t => q = p
          BY <1>5, <4>1 DEF Processes
        <4>3. uses[t] = 0
          BY <1>1 DEF Inv, ChangeConsumes, TypeOK
        <4> QED
          BY <1>1, <3>1, <3>2, <4>2, <4>3 DEF OneReset
      <3>3. CASE k # t
        <4>1. \A q \in Resetters : tx'[q].tok = k => q # p /\ tx'[q] = tx[q]
          BY <1>3, <1>5, <3>3 DEF Processes
        <4> QED
          BY <1>1, <3>1, <4>1 DEF OneReset
      <3> QED
        BY <3>2, <3>3
    <2> QED
      BY <2>1, <2>2 DEF Serial
  <1> QED
    BY <1>6, <1>8, <1>9, <1>10, <1>11, <1>12 DEF Inv

(* A new token is nobody's yet. *)
LEMMA InsertStep ==
    ASSUME Inv, NEW p \in Processes, NEW t \in Tokens, InsertToken(p, t)
    PROVE  Inv'
  <1> DEFINE x == tx[p]
             y == [x EXCEPT !.pc = "mail", !.tok = t]
  <1>1. /\ x \in Transaction /\ x.pc = "insert" /\ RequesterOK(x)
        /\ p \in Requesters /\ p \notin Resetters
    BY Handler DEF InsertToken, Expiry
  <1>2. /\ user[t] = None /\ user' = [user EXCEPT ![t] = x.user]
        /\ left' = [left EXCEPT ![t] = TokenTTL]
        /\ tx' = [tx EXCEPT ![p] = y]
        /\ UNCHANGED <<row, mailed, uses, answered, raced>>
    BY DEF InsertToken, Expiry, history
  <1>3. /\ y \in Transaction /\ y.pc = "mail" /\ y.tok = t
        /\ y.user = x.user /\ y.want = x.want /\ y.locks = x.locks
        /\ y.pw = x.pw /\ y.dead = x.dead
    BY <1>1 DEF Transaction
  <1> HIDE DEF y
  <1>4. /\ tx' \in [Processes -> Transaction] /\ tx'[p] = y
        /\ \A q \in Processes : q # p => tx'[q] = tx[q]
    BY <1>2, <1>3, ProcessUpdate DEF Inv
  <1>5. /\ user' \in [Tokens -> Users \cup {None}] /\ user'[t] = x.user
        /\ x.user \in Users
        /\ \A k \in Tokens : k # t => user'[k] = user[k]
    BY <1>1, <1>2 DEF RequesterOK, Inv, TypeOK
  <1>6. TypeOK'
    <2>1. left' \in [Tokens -> 0..TokenTTL]
      BY <1>2, TTLAssumption DEF Inv, TypeOK
    <2> QED
      BY <1>2, <1>4, <1>5, <2>1 DEF Inv, TypeOK, Transaction
  <1>7. \A q \in Processes : /\ tx[q].tok # t
                             /\ t \notin tx[q].want \cup tx[q].locks
    <2> TAKE q \in Processes
    <2>1. CASE q \in Requesters
      BY <1>2, <2>1, IdleType, NoneAssumption DEF Inv, Located, RequesterOK
    <2>2. CASE q \in Resetters
      <3>1. tx[q].tok # t
        BY <1>2, <2>2, IdleType, NoneAssumption DEF Inv, Located, ResetterOK
      <3>2. t \notin tx[q].locks
        BY <2>2, <3>1 DEF Inv, Located, ResetterOK
      <3>3. tx[q].want = {}
        BY <2>2 DEF Inv, Located, ResetterOK
      <3> QED
        BY <3>1, <3>2, <3>3
    <2> QED
      BY <2>1, <2>2 DEF Processes
  <1>8. Located'
    <2>1. ASSUME NEW q \in Requesters PROVE RequesterOK(tx[q])'
      <3>1. q \in Processes
        BY DEF Processes
      <3>2. RequesterOK(tx[q]) /\ tx[q] \in Transaction
        BY <3>1, Handler
      <3>3. CASE q = p
        BY <1>1, <1>2, <1>3, <1>4, <1>5, <1>7, <3>1, <3>2, <3>3
           DEF RequesterOK, Transaction
      <3>4. CASE q # p
        BY <1>2, <1>4, <1>5, <1>7, <3>1, <3>2, <3>4 DEF RequesterOK, Transaction
      <3> QED
        BY <3>3, <3>4
    <2>2. ASSUME NEW q \in Resetters PROVE ResetterOK(tx[q])'
      <3>1. q \in Processes /\ q # p
        BY <1>1 DEF Processes
      <3>2. ResetterOK(tx[q]) /\ tx[q].tok # t /\ tx'[q] = tx[q]
        BY <1>4, <1>7, <3>1, Handler
      <3> QED
        BY <1>2, <1>5, <3>2 DEF ResetterOK
    <2> QED
      BY <2>1, <2>2 DEF Located
  <1>9. PwExclusive' /\ RowLocksExclusive'
    BY <1>3, <1>4 DEF Inv, PwExclusive, RowLocksExclusive
  <1>10. Unissued' /\ ChangeConsumes'
    BY <1>2, <1>5, NoneAssumption DEF Inv, Unissued, ChangeConsumes
  <1>11. Unborn'
    BY <1>1, <1>2, <1>3, <1>4, <1>7 DEF Inv, Unborn, Unissued, Processes
  <1>12. Serial'
    <2>1. ASSUME NEW v \in Users \ raced' PROVE OneRequest(v)'
      <3>1. OneRequest(v)
        BY <1>2 DEF Inv, Serial
      <3>2. \A k \in Tokens : row'[k] = "fresh" =>
               row[k] = "fresh" /\ user'[k] = user[k]
        BY <1>2, <1>5 DEF Inv, Unissued
      <3>3. \A q \in Requesters : tx'[q].user = tx[q].user
        BY <1>3, <1>4 DEF Processes
      <3>4. \A q \in Requesters : Covers(tx[q]) => Covers(tx[q])'
        <4> SUFFICES ASSUME NEW q \in Requesters, Covers(tx[q])
                     PROVE  Covers(tx[q])'
          OBVIOUS
        <4>1. CASE q = p
          BY <1>1, <1>3, <1>4, <3>2, <4>1 DEF Covers
        <4>2. CASE q # p
          <5>1. tx'[q] = tx[q]
            BY <1>4, <4>2 DEF Processes
          <5> QED
            BY <3>2, <5>1 DEF Covers
        <4> QED
          BY <4>1, <4>2
      <3> QED
        BY <3>1, <3>2, <3>3, <3>4 DEF OneRequest
    <2>2. ASSUME NEW k \in Tokens \ raced' PROVE OneReset(k)'
      <3>1. OneReset(k)
        BY <1>2 DEF Inv, Serial
      <3>2. \A q \in Resetters : tx'[q] = tx[q]
        BY <1>1, <1>4 DEF Processes
      <3> QED
        BY <1>2, <3>1, <3>2 DEF OneReset
    <2> QED
      BY <2>1, <2>2 DEF Serial
  <1> QED
    BY <1>6, <1>8, <1>9, <1>10, <1>11, <1>12 DEF Inv
-----------------------------------------------------------------------------
(* The commit. *)

(* What a commit does to the transactions: the DELETEs of others skip the rows
   it deletes. *)
LEMMA CommitOthers ==
    ASSUME Inv, NEW p \in Processes, Commit(p)
    PROVE  /\ tx' \in [Processes -> Transaction] /\ tx'[p] = Idle
           /\ \A q \in Processes : q # p =>
                /\ tx'[q].pc = tx[q].pc /\ tx'[q].user = tx[q].user
                /\ tx'[q].tok = tx[q].tok /\ tx'[q].locks = tx[q].locks
                /\ tx'[q].pw = tx[q].pw /\ tx'[q].dead = tx[q].dead
                /\ tx'[q].want = tx[q].want \ Deleted(p)
                /\ tx[q].want \cap Deleted(p) = {} => tx'[q] = tx[q]
  <1> DEFINE After(q) == [tx[q] EXCEPT !.want = @ \ Deleted(p)]
  <1>1. tx' = [q \in Processes |-> IF q = p THEN Idle ELSE After(q)]
    BY DEF Commit, Released
  <1>2. ASSUME NEW q \in Processes
        PROVE  /\ After(q) \in Transaction
               /\ After(q).pc = tx[q].pc /\ After(q).user = tx[q].user
               /\ After(q).tok = tx[q].tok /\ After(q).locks = tx[q].locks
               /\ After(q).pw = tx[q].pw /\ After(q).dead = tx[q].dead
               /\ After(q).want = tx[q].want \ Deleted(p)
               /\ tx[q].want \cap Deleted(p) = {} => After(q) = tx[q]
    <2>1. tx[q] \in Transaction
      BY Handler
    <2>2. tx[q].want \cap Deleted(p) = {} => tx[q].want \ Deleted(p) = tx[q].want
      OBVIOUS
    <2> QED
      BY <2>1, <2>2 DEF Transaction
  <1> HIDE DEF After
  <1> QED
    BY <1>1, <1>2, IdleType

(* A reset, or a dead transaction, deletes nothing. *)
LEMMA NothingDeleted ==
    ASSUME Inv, NEW p \in Processes, p \in Resetters \/ tx[p].dead = TRUE
    PROVE  Deleted(p) = {}
  <1>1. CASE p \in Resetters
    BY <1>1, RoleAssumption DEF Deleted
  <1>2. CASE p \in Requesters
    BY <1>2, RoleAssumption DEF Deleted, Inv, Located, RequesterOK
  <1> QED
    BY <1>1, <1>2 DEF Processes

(* What a commit that is not dead does. *)
LEMMA CommitEffect ==
    ASSUME Inv, NEW p \in Processes, Commit(p), tx[p].dead # TRUE
    PROVE  /\ tx' \in [Processes -> Transaction] /\ tx'[p] = Idle
           /\ UNCHANGED <<user, left, mailed, raced>>
           /\ answered' \in SUBSET Tokens
           /\ tx[p].tok \in Tokens /\ user[tx[p].tok] = tx[p].user
           /\ tx[p].user \in Users /\ tx[p].pc = "commit"
           /\ row' = Committed(p)
           /\ uses' = [t \in Tokens |-> IF p \in Resetters /\ t = tx[p].tok
                                        THEN uses[t] + 1 ELSE uses[t]]
  <1>2. tx' \in [Processes -> Transaction] /\ tx'[p] = Idle
    BY CommitOthers
  <1>3. tx[p].pc = "commit" /\ UNCHANGED <<user, left, mailed, raced>>
    BY DEF Commit
  <1>4. answered' \in SUBSET Tokens
    BY DEF Commit, Inv, TypeOK
  <1>5. /\ tx[p].tok \in Tokens /\ user[tx[p].tok] = tx[p].user
        /\ tx[p].user \in Users
    BY <1>3, Handler DEF RequesterOK, ResetterOK, Processes
  <1>6. tx[p].dead = FALSE
    BY Handler DEF Transaction
  <1> QED
    BY <1>2, <1>3, <1>4, <1>5, <1>6 DEF Commit

(* A request's commit: its own token is usable, the rows it has deleted are
   gone, and with them every other usable row of a user who had one request. *)
LEMMA RequesterCommit ==
    ASSUME Inv, NEW p \in Requesters, Commit(p), tx[p].dead # TRUE
    PROVE  Inv'
  <1> DEFINE x == tx[p]
  <1>1. p \in Processes /\ p \notin Resetters
    BY RoleAssumption DEF Processes
  <1>2. /\ tx' \in [Processes -> Transaction] /\ tx'[p] = Idle
        /\ \A q \in Processes : q # p =>
              /\ tx'[q].pc = tx[q].pc /\ tx'[q].user = tx[q].user
              /\ tx'[q].tok = tx[q].tok /\ tx'[q].locks = tx[q].locks
              /\ tx'[q].pw = tx[q].pw /\ tx'[q].dead = tx[q].dead
              /\ tx'[q].want = tx[q].want \ x.locks
              /\ tx[q].want = {} => tx'[q] = tx[q]
        /\ UNCHANGED <<user, left, mailed, raced>>
        /\ answered' \in SUBSET Tokens
        /\ x.tok \in Tokens /\ user[x.tok] = x.user
        /\ x.user \in Users /\ x.pc = "commit"
    <2>1. Deleted(p) = x.locks
      BY DEF Deleted
    <2>2. \A q \in Processes : q # p =>
              /\ tx'[q].pc = tx[q].pc /\ tx'[q].user = tx[q].user
              /\ tx'[q].tok = tx[q].tok /\ tx'[q].locks = tx[q].locks
              /\ tx'[q].pw = tx[q].pw /\ tx'[q].dead = tx[q].dead
              /\ tx'[q].want = tx[q].want \ x.locks
              /\ tx[q].want = {} => tx'[q] = tx[q]
      BY <1>1, <2>1, CommitOthers
    <2> QED
      BY <1>1, <2>2, CommitEffect
  <1>3. UNCHANGED uses
    <2>1. uses' = [t \in Tokens |-> uses[t]]
      BY <1>1, CommitEffect
    <2> QED
      BY <2>1 DEF Inv, TypeOK
  <1>4. RequesterOK(x)
    BY <1>1, Handler
  <1>5. /\ row[x.tok] = "absent" /\ uses[x.tok] = 0
        /\ \A q \in Processes : q # p => tx[q].tok # x.tok
    BY <1>2 DEF Inv, Unborn
  <1>6. /\ row' \in [Tokens -> {"absent", "fresh", "used"}]
        /\ row'[x.tok] = "fresh"
        /\ \A t \in Tokens : t # x.tok =>
              row'[t] = IF t \in x.locks THEN "absent" ELSE row[t]
    <2>1. row' = Committed(p) /\ row \in [Tokens -> {"absent", "fresh", "used"}]
      BY <1>1, CommitEffect DEF Inv, TypeOK
    <2> QED
      BY <1>2, <2>1 DEF Committed
  <1>7. TypeOK'
    BY <1>2, <1>3, <1>6 DEF Inv, TypeOK, Transaction
  <1>8. Located'
    <2>1. ASSUME NEW q \in Requesters PROVE RequesterOK(tx[q])'
      <3>1. q \in Processes
        BY DEF Processes
      <3>2. CASE q = p
        <4>1. tx'[q] = Idle
          BY <1>2, <3>2
        <4> QED
          BY <4>1, IdleType DEF RequesterOK
      <3>3. CASE q # p
        <4>1. RequesterOK(tx[q]) /\ tx[q] \in Transaction
          BY <3>1, Handler
        <4>2. \A t \in tx[q].locks : t \notin x.locks /\ t \in Tokens
          BY <1>1, <3>1, <3>3, <4>1 DEF Inv, RowLocksExclusive, Transaction
        <4>3. \A t \in tx'[q].want : t \in tx[q].want \ x.locks /\ t \in Tokens
          BY <1>2, <3>1, <3>3, <4>1 DEF Transaction
        <4>4. \A t \in tx'[q].want \cup tx'[q].locks :
                 user[t] = tx[q].user /\ row'[t] # "absent"
          BY <1>2, <1>6, <3>1, <3>3, <4>1, <4>2, <4>3 DEF RequesterOK
        <4>5. tx[q].pc = "idle" => tx'[q] = Idle
          BY <1>2, <3>1, <3>3, <4>1, IdleType DEF RequesterOK
        <4> QED
          BY <1>2, <3>1, <3>3, <4>1, <4>4, <4>5 DEF RequesterOK
      <3> QED
        BY <3>2, <3>3
    <2>2. ASSUME NEW q \in Resetters PROVE ResetterOK(tx[q])'
      <3>1. q \in Processes /\ q # p
        BY <1>1 DEF Processes
      <3>2. ResetterOK(tx[q]) /\ tx'[q] = tx[q] /\ tx[q].tok # x.tok
        BY <1>2, <1>5, <3>1, Handler DEF ResetterOK
      <3>3. tx[q].tok \in Tokens =>
               /\ row[tx[q].tok] = "absent" => row'[tx[q].tok] = "absent"
               /\ row[tx[q].tok] # "fresh" => row'[tx[q].tok] # "fresh"
        BY <1>6, <3>2
      <3> QED
        BY <1>2, <3>2, <3>3 DEF ResetterOK
    <2> QED
      BY <2>1, <2>2 DEF Located
  <1>9. PwExclusive' /\ RowLocksExclusive'
    BY <1>2, IdleType DEF Inv, PwExclusive, RowLocksExclusive
  <1>10. Unissued'
    BY <1>2, <1>3, <1>6, NoneAssumption DEF Inv, Unissued
  <1>11. Unborn'
    BY <1>1, <1>2, <1>3, <1>5, <1>6, IdleType, NoneAssumption
       DEF Inv, Unborn, Processes
  <1>12. ChangeConsumes'
    <2>1. ~(uses[x.tok] > 0)
      BY <1>5
    <2> QED
      BY <1>3, <1>6, <2>1 DEF Inv, ChangeConsumes
  <1>13. Serial'
    <2>1. ASSUME NEW u \in Users \ raced' PROVE OneRequest(u)'
      <3>1. OneRequest(u)
        BY <1>2 DEF Inv, Serial
      <3>2. \A q \in Requesters : tx'[q].user = u =>
               /\ q # p /\ tx[q].user = u /\ tx'[q].pc = tx[q].pc
               /\ tx'[q].want = tx[q].want \ x.locks
               /\ tx'[q].locks = tx[q].locks /\ tx'[q].dead = tx[q].dead
        BY <1>2, IdleType, NoneAssumption DEF Processes
      <3>3. CASE x.user = u
        <4>1. \A q \in Requesters : tx'[q].user # u
          BY <3>1, <3>2, <3>3 DEF OneRequest
        <4>2. \A t \in Tokens : row'[t] = "fresh" /\ user[t] = u => t = x.tok
          <5>1. Covers(x)
            BY <3>1, <3>3 DEF OneRequest
          <5> QED
            BY <1>2, <1>6, <3>3, <5>1 DEF Covers
        <4> QED
          BY <1>2, <4>1, <4>2 DEF OneRequest
      <3>4. CASE x.user # u
        <4>1. \A t \in Tokens : row'[t] = "fresh" /\ user[t] = u =>
                 row[t] = "fresh" /\ t \notin x.locks
          BY <1>2, <1>6, <3>4
        <4>2. \A q \in Requesters : tx'[q].user = u => Covers(tx[q])'
          BY <1>2, <3>1, <3>2, <4>1 DEF OneRequest, Covers
        <4> QED
          BY <1>2, <3>1, <3>2, <4>1, <4>2 DEF OneRequest
      <3> QED
        BY <3>3, <3>4
    <2>2. ASSUME NEW t \in Tokens \ raced' PROVE OneReset(t)'
      <3>1. OneReset(t)
        BY <1>2 DEF Inv, Serial
      <3>2. \A q \in Resetters : tx'[q] = tx[q]
        BY <1>1, <1>2 DEF Processes, Inv, Located, ResetterOK
      <3> QED
        BY <1>3, <3>1, <3>2 DEF OneReset
    <2> QED
      BY <2>1, <2>2 DEF Serial
  <1> QED
    BY <1>7, <1>8, <1>9, <1>10, <1>11, <1>12, <1>13 DEF Inv

(* A reset's commit: its token is used or gone, and has changed a password
   once more. *)
LEMMA ResetterCommit ==
    ASSUME Inv, NEW p \in Resetters, Commit(p), tx[p].dead # TRUE
    PROVE  Inv'
  <1> DEFINE x == tx[p]
  <1>1. p \in Processes /\ p \notin Requesters
    BY RoleAssumption DEF Processes
  <1>2. /\ tx' \in [Processes -> Transaction] /\ tx'[p] = Idle
        /\ \A q \in Processes : q # p => tx'[q] = tx[q]
        /\ UNCHANGED <<user, left, mailed, raced>>
        /\ answered' \in SUBSET Tokens
        /\ x.tok \in Tokens /\ user[x.tok] = x.user
        /\ x.user \in Users /\ x.pc = "commit"
    <2>1. \A q \in Processes : q # p => tx'[q] = tx[q]
      <3>1. Deleted(p) = {}
        BY <1>1, NothingDeleted
      <3>2. \A q \in Processes : tx[q].want \cap Deleted(p) = {}
        BY <3>1
      <3> QED
        BY <1>1, <3>2, CommitOthers
    <2> QED
      BY <1>1, <2>1, CommitEffect
  <1>3. /\ uses' \in [Tokens -> Nat] /\ uses'[x.tok] = uses[x.tok] + 1
        /\ \A t \in Tokens : t # x.tok => uses'[t] = uses[t]
    <2>1. uses' = [t \in Tokens |-> IF p \in Resetters /\ t = x.tok
                                    THEN uses[t] + 1 ELSE uses[t]]
      BY <1>1, CommitEffect
    <2>2. uses \in [Tokens -> Nat]
      BY DEF Inv, TypeOK
    <2> QED
      BY <1>2, <2>1, <2>2
  <1>4. ResetterOK(x)
    BY <1>1, Handler
  <1>5. /\ row' \in [Tokens -> {"absent", "fresh", "used"}]
        /\ \A t \in Tokens : t \in x.locks => row'[t] = "used"
        /\ \A t \in Tokens : t \notin x.locks => row'[t] = row[t]
    <2>1. row' = Committed(p) /\ row \in [Tokens -> {"absent", "fresh", "used"}]
      BY <1>1, CommitEffect DEF Inv, TypeOK
    <2> QED
      BY <1>1, <1>2, <2>1 DEF Committed, SavedToken
  <1>6. /\ \A t \in Tokens : row'[t] = "fresh" => row[t] = "fresh"
        /\ \A t \in Tokens : row'[t] = "absent" => row[t] = "absent"
        /\ \A t \in Tokens : t # x.tok => row'[t] = row[t]
        /\ row'[x.tok] # "fresh"
    BY <1>2, <1>4, <1>5 DEF ResetterOK
  <1>7. TypeOK'
    BY <1>2, <1>3, <1>5 DEF Inv, TypeOK, Transaction
  <1>8. Located'
    <2>1. ASSUME NEW q \in Requesters PROVE RequesterOK(tx[q])'
      <3>1. q \in Processes /\ q # p
        BY <1>1 DEF Processes
      <3>2. RequesterOK(tx[q]) /\ tx'[q] = tx[q] /\ tx[q] \in Transaction
        BY <1>2, <3>1, Handler
      <3>3. \A t \in tx[q].want \cup tx[q].locks : t \in Tokens
        BY <3>2 DEF Transaction
      <3> QED
        BY <1>2, <1>6, <3>2, <3>3 DEF RequesterOK
    <2>2. ASSUME NEW q \in Resetters PROVE ResetterOK(tx[q])'
      <3>1. q \in Processes
        BY DEF Processes
      <3>2. CASE q = p
        <4>1. tx'[q] = Idle
          BY <1>2, <3>2
        <4> QED
          BY <4>1, IdleType DEF ResetterOK
      <3>3. CASE q # p
        <4>1. ResetterOK(tx[q]) /\ tx'[q] = tx[q]
          BY <1>2, <3>1, <3>3, Handler
        <4>2. tx[q].pc = "reinsert" => tx[q].tok \notin x.locks
          <5> SUFFICES ASSUME tx[q].pc = "reinsert", tx[q].tok \in x.locks
                       PROVE  FALSE
            OBVIOUS
          <5>1. x.pw = TRUE /\ tx[q].tok = x.tok
            BY <1>4 DEF ResetterOK
          <5>2. tx[q].pw = TRUE /\ user[tx[q].tok] = tx[q].user
            BY <4>1 DEF ResetterOK
          <5>3. tx[q].user = x.user
            BY <1>2, <5>1, <5>2
          <5> QED
            BY <1>1, <3>1, <3>3, <5>1, <5>2, <5>3 DEF Inv, PwExclusive
        <4>3. tx[q].pc = "reinsert" => row'[tx[q].tok] = "absent"
          BY <1>5, <4>1, <4>2 DEF ResetterOK
        <4>4. tx[q].tok \in Tokens /\ row[tx[q].tok] # "fresh" =>
                 row'[tx[q].tok] # "fresh"
          BY <1>6
        <4> QED
          BY <1>2, <4>1, <4>3, <4>4 DEF ResetterOK
      <3> QED
        BY <3>2, <3>3
    <2> QED
      BY <2>1, <2>2 DEF Located
  <1>9. PwExclusive' /\ RowLocksExclusive'
    BY <1>2, IdleType DEF Inv, PwExclusive, RowLocksExclusive
  <1>10. Unissued'
    <2>1. \A t \in Tokens : user[t] = None => t # x.tok
      BY <1>2, NoneAssumption
    <2> QED
      BY <1>2, <1>3, <1>6, <2>1 DEF Inv, Unissued
  <1>11. Unborn'
    <2> SUFFICES ASSUME NEW q \in Requesters, tx'[q].tok \in Tokens
                 PROVE  /\ row'[tx'[q].tok] = "absent" /\ uses'[tx'[q].tok] = 0
                        /\ \A r \in Processes : r # q => tx'[r].tok # tx'[q].tok
      BY DEF Unborn
    <2>1. q \in Processes /\ q # p /\ tx'[q] = tx[q]
      BY <1>1, <1>2 DEF Processes
    <2>2. /\ row[tx[q].tok] = "absent" /\ uses[tx[q].tok] = 0
          /\ \A r \in Processes : r # q => tx[r].tok # tx[q].tok
      BY <2>1 DEF Inv, Unborn
    <2>3. x.tok # tx[q].tok
      BY <1>1, <2>1, <2>2
    <2>4. \A r \in Processes : tx'[r].tok \in {tx[r].tok, None}
      BY <1>2, IdleType
    <2> QED
      BY <1>3, <1>6, <2>1, <2>2, <2>3, <2>4, NoneAssumption
  <1>12. ChangeConsumes'
    BY <1>3, <1>6 DEF Inv, ChangeConsumes
  <1>13. Serial'
    <2>1. ASSUME NEW u \in Users \ raced' PROVE OneRequest(u)'
      <3>1. OneRequest(u)
        BY <1>2 DEF Inv, Serial
      <3>2. \A q \in Requesters : tx'[q] = tx[q]
        BY <1>1, <1>2 DEF Processes
      <3>3. \A q \in Requesters : Covers(tx[q]) => Covers(tx[q])'
        BY <1>2, <1>6, <3>2 DEF Covers
      <3> QED
        BY <1>2, <1>6, <3>1, <3>2, <3>3 DEF OneRequest
    <2>2. ASSUME NEW t \in Tokens \ raced' PROVE OneReset(t)'
      <3>1. OneReset(t)
        BY <1>2 DEF Inv, Serial
      <3>2. \A q \in Resetters : tx'[q].tok = t => q # p /\ tx'[q] = tx[q]
        BY <1>2, IdleType, NoneAssumption DEF Processes
      <3>3. CASE t = x.tok
        <4>1. uses[t] = 0 /\ uses'[t] <= 1
          BY <1>3, <3>1, <3>3 DEF OneReset
        <4>2. \A q \in Resetters : tx'[q].tok # t
          BY <3>1, <3>2, <3>3 DEF OneReset
        <4> QED
          BY <4>1, <4>2 DEF OneReset
      <3>4. CASE t # x.tok
        BY <1>3, <3>1, <3>2, <3>4 DEF OneReset
      <3> QED
        BY <3>3, <3>4
    <2> QED
      BY <2>1, <2>2 DEF Serial
  <1> QED
    BY <1>7, <1>8, <1>9, <1>10, <1>11, <1>12, <1>13 DEF Inv

(* A dead transaction is closed. *)
LEMMA DeadCommit ==
    ASSUME Inv, NEW p \in Processes, Commit(p), tx[p].dead = TRUE
    PROVE  /\ tx' = [tx EXCEPT ![p] = Idle]
           /\ UNCHANGED <<row, user, left, raced, mailed, uses>>
           /\ answered' \in SUBSET Tokens
  <1>1. UNCHANGED <<row, user, left, raced, mailed>>
    BY DEF Commit
  <1>2. \A q \in Processes : tx'[q] = IF q = p THEN Idle ELSE tx[q]
    BY CommitOthers, NothingDeleted
  <1>3. tx' = [tx EXCEPT ![p] = Idle]
    BY <1>2, CommitOthers DEF Inv, TypeOK
  <1>4. uses' = [t \in Tokens |-> uses[t]]
    BY DEF Commit
  <1>5. UNCHANGED uses
    BY <1>4 DEF Inv, TypeOK
  <1>6. answered' \in SUBSET Tokens
    BY DEF Commit, Inv, TypeOK
  <1> QED
    BY <1>1, <1>3, <1>5, <1>6

(* The scope is left. *)
LEMMA CommitStep ==
    ASSUME Inv, NEW p \in Processes, Commit(p)
    PROVE  Inv'
  <1>1. CASE tx[p].dead = TRUE
    BY <1>1, DeadCommit, EndStep
  <1>2. CASE tx[p].dead # TRUE
    BY <1>2, RequesterCommit, ResetterCommit DEF Processes
  <1> QED
    BY <1>1, <1>2

(* Time only expires tokens. *)
LEMMA TickStep ==
    ASSUME Inv, Tick
    PROVE  Inv'
  <1>1. UNCHANGED <<row, user, mailed, tx, uses, answered, raced>>
    BY DEF Tick, history
  <1>2. left' \in [Tokens -> 0..TokenTTL]
    BY TTLAssumption DEF Tick, Inv, TypeOK
  <1>3. TypeOK'
    BY <1>1, <1>2 DEF Inv, TypeOK
  <1>4. /\ Located' /\ PwExclusive' /\ RowLocksExclusive' /\ Unissued'
        /\ Unborn' /\ ChangeConsumes'
    BY <1>1 DEF Inv, Located, RequesterOK, ResetterOK, PwExclusive,
       RowLocksExclusive, Unissued, Unborn, ChangeConsumes
  <1>5. Serial'
    BY <1>1 DEF Inv, Serial, OneRequest, OneReset, Covers
  <1> QED
    BY <1>3, <1>4, <1>5 DEF Inv

(* Every step keeps the invariant. *)
LEMMA StepInv == Inv /\ [Next]_vars => Inv'
  <1> SUFFICES ASSUME Inv, [Next]_vars PROVE Inv'
    OBVIOUS
  <1>1. ASSUME NEW p \in Requesters, NEW u \in Users, RequestReset(p, u)
        PROVE  Inv'
    BY <1>1, RequestResetStep
  <1>2. ASSUME NEW p \in Resetters, NEW t \in Tokens, FindByToken(p, t)
        PROVE  Inv'
    BY <1>2, FindByTokenStep
  <1>3. ASSUME NEW p \in Processes, Advance(p) PROVE Inv'
    BY <1>3, DeleteRowStep, DeleteStep, RaiseStep, InsertStep, MailStep,
       SaveUserStep, SaveTokenReadStep, ReinsertStep, UpdateStep,
       RevokeStep, AuditStep, CommitStep DEF Advance
  <1>4. ASSUME NEW p \in Processes, Abort(p) PROVE Inv'
    BY <1>4, AbortStep
  <1>5. CASE Tick
    BY <1>5, TickStep
  <1>6. CASE UNCHANGED vars
    <2>1. UNCHANGED <<row, user, left, mailed, tx, uses, answered, raced>>
      BY <1>6 DEF vars, table, history
    <2> QED
      BY <2>1 DEF Inv, TypeOK, Located, RequesterOK, ResetterOK, PwExclusive,
         RowLocksExclusive, Unissued, Unborn, ChangeConsumes, Serial,
         OneRequest, OneReset, Covers
  <1> QED
    BY <1>1, <1>2, <1>3, <1>4, <1>5, <1>6 DEF Next

-----------------------------------------------------------------------------
(* The theorems. *)

(* The inductive invariant holds in every reachable state. *)
THEOREM Invariance == Spec => []Inv
  BY InitInv, StepInv, PTL DEF Spec

(* Types, for any number of requests and tokens. *)
THEOREM TypeCorrect == Spec => []TypeOK
  <1>1. Inv => TypeOK
    BY DEF Inv
  <1> QED
    BY <1>1, Invariance, PTL

(* However resets and new requests overlap, a committed password change
   leaves its token used or gone. *)
THEOREM ConsumedForGood == Spec => []ChangeConsumes
  <1>1. Inv => ChangeConsumes
    BY DEF Inv
  <1> QED
    BY <1>1, Invariance, PTL

(* No two transactions write the same token row: PostgreSQL never meets a
   duplicate key at the re-INSERT of a deleted row. *)
THEOREM NoWriteConflict == Spec => []RowLocksExclusive
  <1>1. Inv => RowLocksExclusive
    BY DEF Inv
  <1> QED
    BY <1>1, Invariance, PTL

(* The domain rule "one pending reset token per user", for users no two of
   whose requests overlapped. *)
THEOREM OnePending == Spec => []OneActiveToken
  <1>1. Inv => OneActiveToken
    <2> SUFFICES ASSUME Inv, NEW t1 \in Tokens, NEW t2 \in Tokens,
                        row[t1] = "fresh", row[t2] = "fresh",
                        user[t1] = user[t2], user[t1] \notin raced
                 PROVE  t1 = t2
      BY DEF OneActiveToken
    <2>1. user[t1] \in Users
      BY DEF Inv, Unissued, TypeOK
    <2>2. OneRequest(user[t1])
      BY <2>1 DEF Inv, Serial
    <2> QED
      BY <2>2 DEF OneRequest
  <1> QED
    BY <1>1, Invariance, PTL

(* The domain rule "reset token is single-use", for tokens no two resets with
   which overlapped. *)
THEOREM UsedOnce == Spec => []SingleUseIfSerial
  <1>1. Inv => SingleUseIfSerial
    BY DEF Inv, Serial, OneReset, SingleUseIfSerial
  <1> QED
    BY <1>1, Invariance, PTL

(* A reset never waits in a circle, and two requests only when they delete the
   tokens of one user at the same time: nobody waits for a reset that has not
   yet saved its user, and only resets wait for one that has and is about to
   save its token. *)
THEOREM OnlyRacesDeadlock == Spec => []CirclesAreRaces
  <1>1. Inv => CirclesAreRaces
    <2> SUFFICES ASSUME Inv, NEW S \in SUBSET Processes, Circle(S)
                 PROVE  /\ S \subseteq Requesters
                        /\ \A p \in S : tx[p].user \in raced
      BY DEF CirclesAreRaces
    <2>1. ASSUME NEW p \in S PROVE p \in Requesters
      <3> SUFFICES ASSUME p \notin Requesters PROVE FALSE
        OBVIOUS
      <3>1. p \in Resetters /\ ResetterOK(tx[p])
        BY DEF Processes, Inv, Located
      <3>2. PICK q \in S : Waits(p, q)
        BY DEF Circle
      <3>3. tx[p].pc \in {"update", "user"}
        BY <3>1, <3>2 DEF Waits, ResetterOK
      <3>4. PICK r \in S : Waits(r, p)
        BY DEF Circle
      <3>5. tx[p].locks = {}
        BY <3>1, <3>3 DEF ResetterOK
      <3>6. tx[r].pc = "user" /\ tx[r].user = tx[p].user
        BY <3>4, <3>5 DEF Waits
      <3>7. r \in Processes /\ tx[r].locks = {} /\ tx[r].pw = FALSE
        BY <3>6, Handler DEF ResetterOK
      <3>8. PICK k \in S : Waits(k, r)
        BY DEF Circle
      <3> QED
        BY <3>7, <3>8 DEF Waits
    <2>2. ASSUME NEW p \in S PROVE tx[p].user \in raced
      <3>1. PICK q \in S : Waits(p, q)
        BY DEF Circle
      <3>2. /\ p \in Requesters /\ q \in Requesters /\ p # q
            /\ RequesterOK(tx[p]) /\ RequesterOK(tx[q])
        BY <2>1, <3>1 DEF Waits, Inv, Located
      <3>3. PICK t \in tx[p].want : t \in tx[q].locks
        BY <3>1, <3>2 DEF Waits, RequesterOK
      <3>4. tx[p].user = tx[q].user /\ tx[p].pc = "delete"
        BY <3>1, <3>2, <3>3 DEF RequesterOK, Waits
      <3>5. tx[p].user \in Users
        BY <3>2, <3>4 DEF RequesterOK
      <3> QED
        BY <3>2, <3>4, <3>5 DEF Inv, Serial, OneRequest
    <2> QED
      BY <2>1, <2>2
  <1> QED
    BY <1>1, Invariance, PTL

(* Only the commit of the request that made a token makes it usable. *)
THEOREM Unrevivable == Spec => NeverRevived
  <1> DEFINE A == \A t \in Tokens : row'[t] = "fresh" /\ row[t] # "fresh"
                    => \E p \in Requesters :
                          tx[p].tok = t /\ tx[p].pc = "commit"
  <1>1. Inv /\ [Next]_vars => [A]_vars
    <2> SUFFICES ASSUME Inv, Next PROVE A
      OBVIOUS
    <2>1. ASSUME NEW p \in Processes, Commit(p) PROVE A
      <3>1. tx[p].pc = "commit" /\ row' \in {row, Committed(p)}
        BY <2>1 DEF Commit
      <3>2. CASE p \in Requesters
        BY <3>1, <3>2 DEF Committed
      <3>3. CASE p \notin Requesters
        BY <3>1, <3>3 DEF Committed, SavedToken
      <3> QED
        BY <3>2, <3>3
    <2>2. CASE UNCHANGED row
      BY <2>2
    <2>3. UNCHANGED row \/ \E p \in Processes : Commit(p)
      BY DEF Next, Advance, RequestReset, FindByToken, DeleteRow,
         DeleteAllByUserId, DeadlockDetected, InsertToken, InsertFails,
         SendResetEmail, SaveUser, SaveTokenRead, ReinsertToken, UpdateToken,
         RevokeAllUserSessions, RecordAudit, Abort, Tick, table
    <2> QED
      BY <2>1, <2>2, <2>3
  <1> QED
    BY <1>1, Invariance, PTL DEF Spec, NeverRevived

-----------------------------------------------------------------------------
(* The refinement of ResetTokenLife. *)

Stages == [t \in Tokens |-> Stage(t)]

(* Who holds which token decides the stages, with the committed rows. *)
LEMMA StagesKept ==
    ASSUME UNCHANGED <<row, user>>,
           \A q \in Requesters : tx'[q].tok = tx[q].tok
    PROVE  Stages' = Stages
  <1>1. \A t \in Tokens : Stage(t)' = Stage(t)
    BY DEF Stage
  <1> QED
    BY <1>1 DEF Stages

(* The stage of the token of a request under way. *)
LEMMA IssuedStage ==
    ASSUME Inv, NEW p \in Requesters, tx[p].tok \in Tokens
    PROVE  Stage(tx[p].tok) = "issued"
  <1>1. user[tx[p].tok] # None
    <2>1. RequesterOK(tx[p])
      BY DEF Inv, Located
    <2> QED
      BY <2>1, NoneAssumption, IdleType DEF RequesterOK
  <1> QED
    BY <1>1 DEF Inv, Unborn, Stage

(* The INSERT issues a token. *)
LEMMA InsertLife ==
    ASSUME Inv, NEW p \in Processes, NEW t \in Tokens, InsertToken(p, t)
    PROVE  Life!Issue(t)
  <1>1. p \in Requesters /\ tx[p].tok = None /\ tx[p].user \in Users
    BY Handler DEF InsertToken, RequesterOK
  <1>2. /\ tx'[p].tok = t /\ \A q \in Requesters : q # p => tx'[q] = tx[q]
    BY DEF InsertToken, Inv, TypeOK, Processes
  <1>3. Stage(t) = "new"
    BY DEF InsertToken, Stage
  <1>4. Stage(t)' = "issued"
    <2>1. user'[t] # None /\ row'[t] = "absent"
      BY <1>1, NoneAssumption DEF InsertToken, Inv, TypeOK, Unissued
    <2> QED
      BY <1>1, <1>2, <2>1 DEF Stage
  <1>5. \A x \in Tokens : x # t => Stage(x)' = Stage(x)
    BY <1>1, <1>2, NoneAssumption DEF InsertToken, Stage, Inv, TypeOK
  <1>6. Stages' = [Stages EXCEPT ![t] = "issued"]
    BY <1>4, <1>5 DEF Stages
  <1> QED
    BY <1>3, <1>6 DEF Life!Issue, Stages, InsertToken, history

(* A rollback forgets the token of its request. *)
LEMMA RollbackLife ==
    ASSUME Inv, NEW p \in Requesters, tx[p].tok \in Tokens,
           tx' = [tx EXCEPT ![p] = Idle], UNCHANGED <<row, user, uses>>
    PROVE  Life!Forget(tx[p].tok)
  <1> DEFINE t == tx[p].tok
  <1>1. tx'[p].tok = None /\ \A q \in Requesters : q # p => tx'[q] = tx[q]
    BY IdleType DEF Inv, TypeOK, Processes
  <1>2. Stage(t) = "issued"
    BY IssuedStage
  <1>3. \A q \in Requesters : q # p => tx[q].tok # t
    BY DEF Inv, Unborn, Processes
  <1>4. user[t] # None /\ row[t] # "fresh"
    BY <1>2 DEF Stage
  <1> HIDE DEF t
  <1>5. t \in Tokens /\ t # None
    BY NoneAssumption DEF t
  <1>6. [Stages EXCEPT ![t] = "spent"] =
          [x \in Tokens |-> IF x = t THEN "spent" ELSE Stage(x)]
    BY DEF Stages
  <1>7. ASSUME NEW x \in Tokens
        PROVE  Stage(x)' = IF x = t THEN "spent" ELSE Stage(x)
    <2>1. CASE x = t
      BY <1>1, <1>3, <1>4, <1>5, <2>1 DEF Stage
    <2>2. CASE x # t
      BY <1>1, <2>2, NoneAssumption DEF Stage, t
    <2> QED
      BY <2>1, <2>2
  <1>8. Stages' = [Stages EXCEPT ![t] = "spent"]
    BY <1>6, <1>7 DEF Stages
  <1> QED
    BY <1>2, <1>5, <1>8 DEF Life!Forget, Stages, t

(* The commit of a request activates its token and spends those it deletes. *)
LEMMA RequestLife ==
    ASSUME Inv, NEW p \in Requesters, Commit(p), tx[p].dead = FALSE
    PROVE  Life!Activate(tx[p].tok, tx[p].locks)
  <1> DEFINE t == tx[p].tok
             L == tx[p].locks
  <1>1. p \in Processes /\ p \notin Resetters /\ tx[p].pc = "commit"
    BY RoleAssumption DEF Processes, Commit
  <1>2. t \in Tokens /\ RequesterOK(tx[p])
    BY <1>1, Handler DEF RequesterOK
  <1>3. /\ row' = Committed(p) /\ UNCHANGED user
        /\ uses' = [x \in Tokens |-> uses[x]]
    BY <1>1 DEF Commit
  <1>4. uses' = uses
    BY <1>3 DEF Inv, TypeOK
  <1>5. /\ tx'[p].tok = None
        /\ \A q \in Requesters : q # p => tx'[q].tok = tx[q].tok
    BY <1>1, CommitOthers, IdleType DEF Processes
  <1>6. Stage(t) = "issued"
    BY <1>2, IssuedStage
  <1>7. ASSUME NEW x \in L
        PROVE  /\ x \in Tokens /\ x # t /\ user[x] # None
               /\ \A q \in Requesters : tx[q].tok # x
    <2>1. x \in Tokens /\ row[x] # "absent"
      BY <1>1, <1>2 DEF RequesterOK, Inv, TypeOK
    <2> QED
      BY <1>2, <2>1 DEF Inv, Unborn, Unissued
  <1>8. \A x \in L : Stage(x) \in {"active", "spent"}
    BY <1>7 DEF Stage
  <1>9. ASSUME NEW x \in Tokens
        PROVE  Stage(x)' = IF x = t THEN "active"
                           ELSE IF x \in L THEN "spent" ELSE Stage(x)
    <2>1. CASE x = t
      BY <1>2, <1>3, <1>6, <2>1 DEF Stage, Committed
    <2>2. CASE x # t /\ x \in L
      <3>1. row'[x] = "absent"
        BY <1>3, <2>2 DEF Committed
      <3>2. \A q \in Requesters : tx'[q].tok # x
        BY <1>5, <1>7, <2>2, NoneAssumption
      <3> QED
        BY <1>3, <1>7, <2>2, <3>1, <3>2 DEF Stage
    <2>3. CASE x # t /\ x \notin L
      <3>1. row'[x] = row[x]
        BY <1>3, <2>3 DEF Committed
      <3>2. \A q \in Requesters : tx'[q].tok = x <=> tx[q].tok = x
        BY <1>5, <2>3, NoneAssumption
      <3> QED
        BY <1>3, <2>3, <3>1, <3>2 DEF Stage
    <2> QED
      BY <2>1, <2>2, <2>3
  <1>10. Stages' = [x \in Tokens |-> IF x = t THEN "active"
                                    ELSE IF x \in L THEN "spent"
                                    ELSE Stages[x]]
    BY <1>9 DEF Stages
  <1>11. /\ Stages[t] = "issued"
         /\ \A x \in L : Stages[x] \in {"active", "spent"}
    BY <1>2, <1>6, <1>7, <1>8 DEF Stages
  <1> QED
    BY <1>4, <1>10, <1>11 DEF Life!Activate, Stages

(* The commit of a reset changes a password with a token that was active, and
   leaves it spent. *)
LEMMA ResetLife ==
    ASSUME Inv, NEW p \in Resetters, Commit(p), tx[p].dead = FALSE
    PROVE  Life!Change(tx[p].tok)
  <1> DEFINE t == tx[p].tok
  <1>1. p \in Processes /\ p \notin Requesters /\ tx[p].pc = "commit"
    BY RoleAssumption DEF Processes, Commit
  <1>2. /\ t \in Tokens /\ user[t] # None /\ tx[p].locks \subseteq {t}
        /\ t \in tx[p].locks \/ row[t] # "fresh"
    <2>1. ResetterOK(tx[p])
      BY DEF Inv, Located
    <2>2. t \in Tokens /\ user[t] \in Users /\ tx[p].locks \subseteq {t}
      BY <1>1, <2>1 DEF ResetterOK
    <2>3. tx[p].dead # TRUE
      OBVIOUS
    <2>4. t \in tx[p].locks \/ row[t] # "fresh"
      BY <1>1, <2>1, <2>3, Zenon DEF ResetterOK
    <2> QED
      BY <2>2, <2>4, NoneAssumption
  <1>3. /\ row' = Committed(p) /\ UNCHANGED user
        /\ uses' = [x \in Tokens |-> IF x = t THEN uses[x] + 1 ELSE uses[x]]
    BY <1>1 DEF Commit
  <1>4. uses' = [uses EXCEPT ![t] = @ + 1]
    BY <1>2, <1>3 DEF Inv, TypeOK
  <1>5. \A q \in Requesters : tx'[q].tok = tx[q].tok /\ tx[q].tok # t
    BY <1>1, <1>2, CommitOthers DEF Inv, Unborn, Processes
  <1>6. Stage(t) \in {"active", "spent"}
    BY <1>2, <1>5 DEF Stage
  <1>7. ASSUME NEW x \in Tokens
        PROVE  Stage(x)' = IF x = t THEN "spent" ELSE Stage(x)
    <2>1. CASE x = t
      <3>1. row'[t] # "fresh"
        BY <1>1, <1>2, <1>3 DEF Committed, SavedToken
      <3> QED
        BY <1>2, <1>3, <1>5, <2>1, <3>1 DEF Stage
    <2>2. CASE x # t
      <3>1. row'[x] = row[x]
        BY <1>1, <1>2, <1>3, <2>2 DEF Committed
      <3> QED
        BY <1>3, <1>5, <2>2, <3>1 DEF Stage
    <2> QED
      BY <2>1, <2>2
  <1>8. Stages' = [Stages EXCEPT ![t] = "spent"]
    BY <1>2, <1>7 DEF Stages
  <1>9. Stages[t] \in {"active", "spent"}
    BY <1>2, <1>6 DEF Stages
  <1> QED
    BY <1>4, <1>8, <1>9 DEF Life!Change, Stages

(* A step of one process that ends the transaction without a commit. *)
LEMMA ReleaseLife ==
    ASSUME Inv, NEW p \in Processes, tx' = [tx EXCEPT ![p] = Idle],
           UNCHANGED <<row, user, uses>>
    PROVE  \/ \E t \in Tokens : Life!Forget(t)
           \/ Stages' = Stages
  <1>1. CASE p \in Requesters /\ tx[p].tok \in Tokens
    BY <1>1, RollbackLife
  <1>2. CASE ~(p \in Requesters /\ tx[p].tok \in Tokens)
    <2>1. p \in Requesters => tx[p].tok = None
      BY <1>2, Handler DEF Transaction
    <2>2. \A q \in Requesters : tx'[q].tok = tx[q].tok
      BY <2>1, IdleType DEF Inv, TypeOK, Processes
    <2> QED
      BY <2>2, StagesKept
  <1> QED
    BY <1>1, <1>2

(* Every step of a request is a step in the life of one token, or none. *)
LEMMA LifeStep ==
    ASSUME Inv, [Next]_vars
    PROVE  Life!Next \/ UNCHANGED Life!vars
  <1> DEFINE Same == Stages' = Stages /\ uses' = uses
  <1>1. Same => UNCHANGED Life!vars
    BY DEF Life!vars, Stages
  <1>2. CASE UNCHANGED vars
    BY <1>1, <1>2, StagesKept DEF vars, table, history
  <1>3. CASE Tick
    BY <1>1, <1>3, StagesKept DEF Tick, history
  <1>4. ASSUME NEW p \in Requesters, NEW u \in Users, RequestReset(p, u)
        PROVE  Same
    <2>1. \A q \in Requesters : tx'[q].tok = tx[q].tok
      BY <1>4, IdleType DEF RequestReset, Idle, Inv, TypeOK, Processes
    <2> QED
      BY <1>4, <2>1, StagesKept DEF RequestReset, table
  <1>5. ASSUME NEW p \in Resetters, NEW t \in Tokens, FindByToken(p, t)
        PROVE  Same
    <2>1. \A q \in Requesters : tx'[q].tok = tx[q].tok
      BY <1>5, RoleAssumption DEF FindByToken, Inv, TypeOK, Processes
    <2> QED
      BY <1>5, <2>1, StagesKept DEF FindByToken, table
  <1>6. ASSUME NEW p \in Processes, Abort(p)
        PROVE  Life!Next \/ UNCHANGED Life!vars
    BY <1>1, <1>6, ReleaseLife DEF Abort, table, history, Life!Next
  <1>7. ASSUME NEW p \in Processes, Commit(p)
        PROVE  Life!Next \/ UNCHANGED Life!vars
    <2>1. tx[p] \in Transaction /\ tx[p].pc = "commit"
      BY <1>7, Handler DEF Commit
    <2>2. CASE tx[p].dead = TRUE
      BY <1>1, <1>7, <2>2, DeadCommit, ReleaseLife DEF Life!Next
    <2>3. CASE tx[p].dead = FALSE /\ p \in Requesters
      <3>1. tx[p].tok \in Tokens /\ tx[p].locks \in SUBSET Tokens
        BY <2>1, <2>3, Handler DEF RequesterOK, Transaction
      <3> QED
        BY <1>7, <2>3, <3>1, RequestLife DEF Life!Next
    <2>4. CASE tx[p].dead = FALSE /\ p \in Resetters
      <3>1. tx[p].tok \in Tokens
        BY <2>1, <2>4, Handler DEF ResetterOK
      <3> QED
        BY <1>7, <2>4, <3>1, ResetLife DEF Life!Next
    <2> QED
      BY <2>1, <2>2, <2>3, <2>4 DEF Transaction, Processes
  <1>8. ASSUME NEW p \in Processes,
               \/ \E t \in Tokens : DeleteRow(p, t)
               \/ DeleteAllByUserId(p) \/ SendResetEmail(p) \/ SaveUser(p)
               \/ SaveTokenRead(p) \/ ReinsertToken(p) \/ UpdateToken(p)
               \/ RevokeAllUserSessions(p) \/ RecordAudit(p)
               \/ DeadlockDetected(p) \/ InsertFails(p)
        PROVE  Same
    <2>1. tx[p] \in Transaction
      BY Handler
    <2>2. UNCHANGED <<row, user, uses>>
      BY <1>8 DEF DeleteRow, DeleteAllByUserId, SendResetEmail, SaveUser,
         SaveTokenRead, ReinsertToken, UpdateToken, RevokeAllUserSessions,
         RecordAudit, DeadlockDetected, InsertFails, table, history
    <2>3. \A q \in Requesters : tx'[q].tok = tx[q].tok
      <3>1. CASE DeleteAllByUserId(p) \/ SendResetEmail(p)
        BY <2>1, <3>1 DEF DeleteAllByUserId, SendResetEmail, Inv, TypeOK,
           Processes
      <3>2. CASE UpdateToken(p)
        BY <2>1, <3>2 DEF UpdateToken, Killed, Inv, TypeOK, Processes
      <3>5. CASE \E t \in Tokens : DeleteRow(p, t)
        <4>1. PICK t \in Tokens :
                 tx' = [tx EXCEPT ![p].want = @ \ {t}, ![p].locks = @ \cup {t}]
          BY <3>5 DEF DeleteRow
        <4> QED
          BY <2>1, <4>1 DEF Inv, TypeOK, Processes
      <3>6. CASE DeadlockDetected(p) \/ InsertFails(p)
        <4>1. tx' = [tx EXCEPT ![p] =
                        [Killed(tx[p]) EXCEPT !.pc = "commit", !.ok = FALSE]]
          BY <3>6 DEF DeadlockDetected, InsertFails
        <4> QED
          BY <2>1, <4>1 DEF Killed, Inv, TypeOK, Processes
      <3>3. CASE RecordAudit(p)
        <4>1. PICK x \in {tx[p], Killed(tx[p])} :
                 tx' = [tx EXCEPT ![p] = [x EXCEPT !.pc = "commit"]]
          BY <3>3 DEF RecordAudit, Recorded
        <4>2. x \in Transaction /\ x.tok = tx[p].tok
          BY <2>1, <4>1 DEF Killed, Transaction
        <4>3. [x EXCEPT !.pc = "commit"].tok = tx[p].tok
          BY <4>2 DEF Transaction
        <4> QED
          BY <4>1, <4>3 DEF Inv, TypeOK, Processes
      <3>4. CASE \/ SaveUser(p) \/ SaveTokenRead(p) \/ ReinsertToken(p)
                 \/ RevokeAllUserSessions(p)
        BY <2>1, <3>4 DEF SaveUser, SaveTokenRead, ReinsertToken,
           RevokeAllUserSessions, Inv, TypeOK, Processes
      <3> QED
        BY <1>8, <3>1, <3>2, <3>3, <3>4, <3>5, <3>6
    <2> QED
      BY <2>2, <2>3, StagesKept
  <1>9. ASSUME NEW p \in Processes, Advance(p)
        PROVE  Life!Next \/ UNCHANGED Life!vars
    BY <1>1, <1>7, <1>8, <1>9, InsertLife DEF Advance, Life!Next
  <1> QED
    BY <1>1, <1>2, <1>3, <1>4, <1>5, <1>6, <1>9 DEF Next

(* The reset mutations implement the one-way life of a token. *)
THEOREM LifeRefined == Spec => RefinesLife
  <1>1. Init => Life!Init
    <2> SUFFICES ASSUME Init PROVE Life!Init
      OBVIOUS
    <2>1. Stages = [t \in Tokens |-> "new"]
      BY DEF Init, Stages, Stage
    <2> QED
      BY <2>1 DEF Init, Life!Init, Stages
  <1>2. Inv /\ [Next]_vars => [Life!Next]_(Life!vars)
    BY LifeStep
  <1> QED
    BY <1>1, <1>2, Invariance, PTL DEF Spec, RefinesLife, Life!Spec
=============================================================================
