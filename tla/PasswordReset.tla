---------------------------- MODULE PasswordReset ----------------------------
(***************************************************************************)
(* requestPasswordReset and resetPassword against PostgreSQL:              *)
(*   commands/request_password_reset.py, commands/reset_password.py,       *)
(*   the reset-token and user repositories, PasswordResetToken.consume,    *)
(*   the audit log and the transaction of RequestScope (container.py).     *)
(*                                                                         *)
(* A request runs in one READ COMMITTED transaction.  Each SQL statement   *)
(* is one action (a DELETE is one for each row it locks, after one that    *)
(* takes its snapshot); writes become visible at the commit, which happens *)
(* when the request scope is left, after the handler.  A resolver's        *)
(* exception becomes a GraphQL error and does not reach the scope: the     *)
(* transaction commits, unless a statement failed and left it dead.        *)
(***************************************************************************)
EXTENDS Naturals

CONSTANTS
    Users,       \* registered accounts
    Tokens,      \* reset tokens (token_urlsafe: never issued twice)
    Requesters,  \* requestPasswordReset requests served at the same time
    Resetters,   \* resetPassword requests served at the same time
    TokenTTL,    \* expire_minutes, in ticks
    None

ASSUME TTLAssumption == TokenTTL \in Nat \ {0}
ASSUME NoneAssumption == None \notin Users \cup Tokens
ASSUME RoleAssumption == Requesters \cap Resetters = {}

VARIABLES
    row,       \* committed password_reset_tokens row: absent, fresh or used
    user,      \* the row's user_id
    left,      \* ticks until the row's expires_at
    mailed,    \* tokens a user can have got by email
    tx,        \* transaction and coroutine state of each request
    uses,      \* history: committed password changes made with a token
    answered,  \* history: tokens whose resetPassword answered success
    raced      \* history: users two requests of whom, and tokens two resets
               \* with which, were served at the same time

table == <<row, user, left, mailed>>
history == <<uses, answered, raced>>
vars == <<table, tx, history>>

Processes == Requesters \cup Resetters

(* want: rows a DELETE has yet to lock; locks: token rows written; pw: users
   row written; ok: no exception so far; dead: a statement failed. *)
Idle == [pc |-> "idle", user |-> None, tok |-> None, want |-> {},
         locks |-> {}, pw |-> FALSE, ok |-> TRUE, dead |-> FALSE]

Init ==
    /\ row = [t \in Tokens |-> "absent"]
    /\ user = [t \in Tokens |-> None]
    /\ left = [t \in Tokens |-> 0]
    /\ mailed = {}
    /\ tx = [p \in Processes |-> Idle]
    /\ uses = [t \in Tokens |-> 0]
    /\ answered = {}
    /\ raced = {}

(* A statement failed: the transaction is rolled back at once, which frees
   its locks, and nothing it wrote will be committed. *)
Killed(x) ==
    [x EXCEPT !.dead = TRUE, !.want = {}, !.locks = {}, !.pw = FALSE]

(* A token row another transaction has written and not yet committed. *)
LockedByOther(p, t) == \E q \in Processes \ {p} : t \in tx[q].locks

-----------------------------------------------------------------------------
(* requestPasswordReset. *)

(* Mutant: the INSERT of a token is committed at once, not with the rest. *)
FoundEarly(t) == user[t] # None

(* The row a SELECT by token or by id finds. *)
Found(t) == row[t] # "absent"

(* Mutant: used tokens only. *)
RowsUsed(u) == {t \in Tokens : row[t] = "used" /\ user[t] = u}

(* Rows DELETE ... WHERE user_id = u finds in its snapshot. *)
RowsOf(u) == {t \in Tokens : Found(t) /\ user[t] = u}

(* find_by_email (an unknown email ends with UserNotFoundError) and the start
   of delete_all_by_user_id. *)
RequestReset(p, u) ==
    /\ tx[p] = Idle
    /\ tx' = [tx EXCEPT ![p] = [Idle EXCEPT !.pc = "delete", !.user = u,
                                            !.want = RowsOf(u)]]
    /\ raced' = raced \cup {x \in {u} : \E q \in Requesters : tx[q].user = x}
    /\ UNCHANGED <<table, uses, answered>>

(* The DELETE locks the rows of its snapshot one after the other, in the order
   of its scan, and keeps them while it waits for the next. *)
DeleteRow(p, t) ==
    /\ tx[p].pc = "delete"
    /\ t \in tx[p].want
    /\ ~LockedByOther(p, t)
    /\ tx' = [tx EXCEPT ![p].want = @ \ {t}, ![p].locks = @ \cup {t}]
    /\ UNCHANGED <<table, history>>

(* The DELETE has been through all of them. *)
DeleteAllByUserId(p) ==
    /\ tx[p].pc = "delete"
    /\ tx[p].want = {}
    /\ tx' = [tx EXCEPT ![p].pc = "insert"]
    /\ UNCHANGED <<table, history>>

(* Mutant: the expiry is rounded up to the next unit. *)
ExpiryRounded == TokenTTL + 1

(* expires_at, counted from now. *)
Expiry == TokenTTL

(* A new token; its expiry counts from here, its row waits for the commit. *)
InsertToken(p, t) ==
    /\ tx[p].pc = "insert"
    /\ user[t] = None
    /\ user' = [user EXCEPT ![t] = tx[p].user]
    /\ left' = [left EXCEPT ![t] = Expiry]
    /\ tx' = [tx EXCEPT ![p].pc = "mail", ![p].tok = t]
    /\ UNCHANGED <<row, mailed, history>>

(* The INSERT fails: PostgreSQL raises, and so does the handler. *)
InsertFails(p) ==
    /\ tx[p].pc = "insert"
    /\ tx' = [tx EXCEPT ![p] = [Killed(@) EXCEPT !.pc = "commit", !.ok = FALSE]]
    /\ UNCHANGED <<table, history>>

(* send_reset_email, before the commit.  When it raises, the request is
   answered with an error and its transaction still commits. *)
SendResetEmail(p) ==
    /\ tx[p].pc = "mail"
    /\ \/ /\ mailed' = mailed \cup {tx[p].tok}
          /\ tx' = [tx EXCEPT ![p].pc = "audit"]
       \/ /\ tx' = [tx EXCEPT ![p].pc = "commit", ![p].ok = FALSE]
          /\ UNCHANGED mailed
    /\ UNCHANGED <<row, user, left, history>>

-----------------------------------------------------------------------------
(* resetPassword. *)

(* Mutant: the used flag is not looked at. *)
ConsumableIfPresent(t) == left[t] > 0

(* PasswordResetToken.consume on the row just read. *)
Consumable(t) == left[t] > 0 /\ row[t] # "used"

(* find_by_token and consume, on a token the client got by email.  Not found,
   expired and used tokens end the request without a change. *)
FindByToken(p, t) ==
    /\ tx[p] = Idle
    /\ t \in mailed
    /\ Found(t)
    /\ Consumable(t)
    /\ tx' = [tx EXCEPT ![p] = [Idle EXCEPT !.pc = "user", !.tok = t,
                                            !.user = user[t]]]
    /\ raced' = raced \cup {x \in {t} : \E q \in Resetters : tx[q].tok = x}
    /\ UNCHANGED <<table, uses, answered>>

(* Mutant: the user is saved last. *)
UserRowIgnored(p) == TRUE

(* user_repo.save: the UPDATE of the users row waits for another transaction
   that has changed the same user. *)
UserRowFree(p) ==
    \A q \in Processes \ {p} : tx[q].pw => tx[q].user # tx[p].user

(* find_by_id, change_password and user_repo.save. *)
SaveUser(p) ==
    /\ tx[p].pc = "user"
    /\ UserRowFree(p)
    /\ tx' = [tx EXCEPT ![p].pc = "token", ![p].pw = TRUE]
    /\ UNCHANGED <<table, history>>

(* Mutant: the consumed token is not saved. *)
SaveForgotten(t) == "revoke"

(* What reset_token_repo.save does with the row it SELECTs: a row that is
   gone is inserted again, a row already used needs no UPDATE. *)
SaveStep(t) == CASE row[t] = "absent" -> "reinsert"
                 [] row[t] = "fresh" -> "update"
                 [] row[t] = "used" -> "revoke"

(* reset_token_repo.save, the SELECT. *)
SaveTokenRead(p) ==
    /\ tx[p].pc = "token"
    /\ tx' = [tx EXCEPT ![p].pc = SaveStep(tx[p].tok)]
    /\ UNCHANGED <<table, history>>

(* ... the INSERT of a row with used = TRUE. *)
ReinsertToken(p) ==
    /\ tx[p].pc = "reinsert"
    /\ tx' = [tx EXCEPT ![p].pc = "revoke", ![p].locks = {tx[p].tok}]
    /\ UNCHANGED <<table, history>>

(* Mutant: a successful reset deletes the user's other tokens, too. *)
UpdateTokenPurging(p) ==
    /\ tx[p].pc = "update"
    /\ ~LockedByOther(p, tx[p].tok)
    /\ tx' = [tx EXCEPT ![p] =
                 IF row[tx[p].tok] = "absent"
                 THEN [Killed(@) EXCEPT !.pc = "commit", !.ok = FALSE]
                 ELSE [@ EXCEPT !.pc = "delete", !.locks = {tx[p].tok},
                                !.want = RowsOf(tx[p].user) \ {tx[p].tok}]]
    /\ UNCHANGED <<table, history>>

(* ... or the UPDATE, which waits for a DELETE under way.  When the row has
   gone no row matches: StaleDataError, and the transaction is dead. *)
UpdateToken(p) ==
    /\ tx[p].pc = "update"
    /\ ~LockedByOther(p, tx[p].tok)
    /\ tx' = [tx EXCEPT ![p] =
                 IF row[tx[p].tok] = "absent"
                 THEN [Killed(@) EXCEPT !.pc = "commit", !.ok = FALSE]
                 ELSE [@ EXCEPT !.pc = "revoke", !.locks = {tx[p].tok}]]
    /\ UNCHANGED <<table, history>>

(* revoke_all_user_sessions (see TokenStore).  When Redis raises, the request
   is answered with an error and its transaction still commits. *)
RevokeAllUserSessions(p) ==
    /\ tx[p].pc = "revoke"
    /\ \/ tx' = [tx EXCEPT ![p].pc = "audit"]
       \/ tx' = [tx EXCEPT ![p].pc = "commit", ![p].ok = FALSE]
    /\ UNCHANGED <<table, history>>

-----------------------------------------------------------------------------
(* Both requests. *)

(* audit_log.record: the flush succeeds, or kills the transaction. *)
Recorded(x) == {x, Killed(x)}

(* The handlers' audit step: an exception of record is swallowed. *)
RecordAudit(p) ==
    /\ tx[p].pc = "audit"
    /\ \E x \in Recorded(tx[p]) :
          tx' = [tx EXCEPT ![p] = [x EXCEPT !.pc = "commit"]]
    /\ UNCHANGED <<table, history>>

(* Mutant: the token is written back unused. *)
SavedFresh == "fresh"

(* The used flag reset_token_repo.save persists. *)
SavedToken == "used"

(* What a transaction's writes make of the table. *)
Committed(p) ==
    [t \in Tokens |->
        IF p \in Requesters
        THEN IF t = tx[p].tok THEN "fresh"
             ELSE IF t \in tx[p].locks THEN "absent" ELSE row[t]
        ELSE IF t \in tx[p].locks THEN SavedToken ELSE row[t]]

(* The session is closed and its locks are released. *)
Released(x) == Idle

(* The resolver of resetPassword answers success when its handler returned. *)
AnswersSuccess(p) == p \in Resetters /\ tx[p].ok

(* The rows the transaction of p deletes when it commits.  A DELETE that waits
   for one of them skips it; one inserted again later is not in its snapshot. *)
Deleted(p) == IF p \in Requesters THEN tx[p].locks ELSE {}

(* The scope is left: commit, or close a dead transaction.  The client gets
   the handler's answer either way. *)
Commit(p) ==
    /\ tx[p].pc = "commit"
    /\ LET x == tx[p]
           done == p \in Resetters /\ ~x.dead
       IN  /\ row' = IF x.dead THEN row ELSE Committed(p)
           /\ uses' = [t \in Tokens |->
                          IF done /\ t = x.tok THEN uses[t] + 1 ELSE uses[t]]
           /\ answered' = answered \cup
                 {t \in Tokens : AnswersSuccess(p) /\ t = x.tok}
           /\ tx' = [q \in Processes |->
                        IF q = p THEN Released(x)
                        ELSE [tx[q] EXCEPT !.want = @ \ Deleted(p)]]
    /\ UNCHANGED <<user, left, mailed, raced>>

(* p waits for a row that q has written. *)
Waits(p, q) ==
    /\ p # q
    /\ \/ tx[p].pc = "delete" /\ tx[p].want \cap tx[q].locks # {}
       \/ tx[p].pc = "update" /\ tx[p].tok \in tx[q].locks
       \/ tx[p].pc = "user" /\ tx[q].pw /\ tx[q].user = tx[p].user

(* Transactions that wait for each other in a circle: each waits for one of
   them, and one of them waits for it. *)
Circle(S) ==
    \A p \in S : /\ \E q \in S : Waits(p, q)
                 /\ \E q \in S : Waits(q, p)

(* PostgreSQL aborts one transaction of a circle; its statement raises. *)
DeadlockDetected(p) ==
    /\ \E q \in Processes : Waits(p, q)
    /\ \E S \in SUBSET Processes : p \in S /\ Circle(S)
    /\ tx' = [tx EXCEPT ![p] = [Killed(@) EXCEPT !.pc = "commit", !.ok = FALSE]]
    /\ UNCHANGED <<table, history>>

(* The worker dies, the client goes away or PostgreSQL is lost: rollback. *)
Abort(p) ==
    /\ tx[p] # Idle
    /\ tx' = [tx EXCEPT ![p] = Idle]
    /\ UNCHANGED <<table, history>>

Tick ==
    /\ left' = [t \in Tokens |-> IF left[t] = 0 THEN 0 ELSE left[t] - 1]
    /\ UNCHANGED <<row, user, mailed, tx, history>>

-----------------------------------------------------------------------------
Advance(p) ==
    \/ \E t \in Tokens : DeleteRow(p, t)
    \/ DeleteAllByUserId(p)
    \/ \E t \in Tokens : InsertToken(p, t)
    \/ InsertFails(p)
    \/ SendResetEmail(p)
    \/ SaveUser(p)
    \/ SaveTokenRead(p)
    \/ ReinsertToken(p)
    \/ UpdateToken(p)
    \/ RevokeAllUserSessions(p)
    \/ RecordAudit(p)
    \/ Commit(p)
    \/ DeadlockDetected(p)

Next ==
    \/ \E p \in Requesters, u \in Users : RequestReset(p, u)
    \/ \E p \in Resetters, t \in Tokens : FindByToken(p, t)
    \/ \E p \in Processes : Advance(p) \/ Abort(p)
    \/ Tick

Spec == Init /\ [][Next]_vars

-----------------------------------------------------------------------------
(* Properties. *)

(* Every variable keeps its type; a request is where its handler can be. *)
TypeOK ==
    /\ row \in [Tokens -> {"absent", "fresh", "used"}]
    /\ user \in [Tokens -> Users \cup {None}]
    /\ left \in [Tokens -> 0..TokenTTL]
    /\ mailed \in SUBSET Tokens
    /\ tx \in [Processes ->
                 [pc : {"idle", "delete", "insert", "mail", "user", "token",
                        "reinsert", "update", "revoke", "audit", "commit"},
                  user : Users \cup {None}, tok : Tokens \cup {None},
                  want : SUBSET Tokens, locks : SUBSET Tokens,
                  pw : BOOLEAN, ok : BOOLEAN, dead : BOOLEAN]]
    /\ uses \in [Tokens -> Nat]
    /\ answered \in SUBSET Tokens
    /\ raced \in SUBSET (Users \cup Tokens)

(* The change of the password and the consumption of the token are one:
   once a password change made with a token is committed, the token's row is
   used or gone, for good, whatever resets and new requests overlap. *)
ChangeConsumes ==
    \A t \in Tokens : uses[t] > 0 => row[t] # "fresh"

(* A token that has been used or deleted never becomes usable again, not even
   when a reset writes back the row a newer request has deleted. *)
NeverRevived ==
    [][\A t \in Tokens : row'[t] = "fresh" /\ row[t] # "fresh"
          => \E p \in Requesters : tx[p].tok = t /\ tx[p].pc = "commit"]_vars

(* Domain rule "only one pending reset token per user at any time": a user no
   two of whose requests overlapped has one active token, whatever resets,
   failed mails and dead transactions come in between. *)
OneActiveToken ==
    \A t1, t2 \in Tokens :
        /\ row[t1] = "fresh" /\ left[t1] > 0
        /\ row[t2] = "fresh" /\ left[t2] > 0
        /\ user[t1] = user[t2] /\ user[t1] \notin raced
        => t1 = t2

(* A token no two resets of which overlapped changes a password once, also
   when a newer request deletes its row under the reset. *)
SingleUseIfSerial == \A t \in Tokens \ raced : uses[t] <= 1

(* Two transactions never write the same token row: the re-INSERT of a row
   that a newer request has deleted takes no lock and meets no duplicate key,
   because the UPDATE of the users row lets one reset of a user through at a
   time, and an UPDATE never writes a row whose DELETE is under way. *)
RowLocksExclusive ==
    \A p, q \in Processes : p # q => tx[p].locks \cap tx[q].locks = {}

(* The life of a token as its user sees it. *)
Stage(t) ==
    IF user[t] = None THEN "new"
    ELSE IF row[t] = "fresh" THEN "active"
    ELSE IF \E p \in Requesters : tx[p].tok = t THEN "issued"
    ELSE "spent"

Life == INSTANCE ResetTokenLife WITH
            stage <- [t \in Tokens |-> Stage(t)], changes <- uses

(* Whatever requests, resets, failed flushes and rollbacks overlap, a token is
   issued once, active during one stretch of time at most, only with a token
   that was active a password is changed, and none is active after that. *)
RefinesLife == Life!Spec

(* Domain rule "Reset token is single-use": a token changes a password once. *)
SingleUse == \A t \in Tokens : uses[t] <= 1

(* README "Audit log failure never propagates": a reset that answered success
   has changed the password. *)
AnsweredIsDone == \A t \in answered : uses[t] > 0

(* Requests wait for each other in a circle only when two requests for the
   same email delete its tokens at the same time.  A reset, which locks the
   users row first and its token's row then, is never part of a circle, nor
   is a request whose user no other request names. *)
CirclesAreRaces ==
    \A S \in SUBSET Processes : Circle(S) =>
        /\ S \subseteq Requesters
        /\ \A p \in S : tx[p].user \in raced

=============================================================================
