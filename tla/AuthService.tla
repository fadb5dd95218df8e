----------------------------- MODULE AuthService -----------------------------
(***************************************************************************)
(* The requests that use PostgreSQL and Redis together: register, login,   *)
(* resetPassword and the me query over the users table, composed with the  *)
(* refresh and revokeSession requests of TokenStore.                       *)
(*   commands/register_user.py, commands/authenticate_user.py,             *)
(*   commands/reset_password.py, graphql/mutations.py, graphql/queries.py, *)
(*   user_repository.py, container.py (request_scope).                     *)
(*                                                                         *)
(* A users row is the number of its password: 0 when there is no row, 1    *)
(* for the password given at registration, one more for each reset.  A     *)
(* session id, a jti or a user id has one meaning in both stores.  The     *)
(* reset token a resetPassword consumes first is in PasswordReset: here    *)
(* any user with an account may have one.                                  *)
(***************************************************************************)
EXTENDS TokenStore

CONSTANT MaxPassword  \* bound of the model: passwords a user ever has

ASSUME MaxPasswordAssumption == MaxPassword \in Nat \ {0}

VARIABLES
    pw,        \* committed users row of an email
    tx,        \* transaction and coroutine of each request
    cred,      \* history: the password a session was opened with
    welcomed,  \* history: registrations of an email that answered success
    unsettled  \* history: users a reset of whom met a login, or stopped
               \* before it had revoked all it listed

database == <<pw, tx, cred, welcomed, unsettled>>
authVars == <<vars, database>>

(* saw: the password a login has verified; new: the users row written and not
   yet committed, 0 if none. *)
NoTx == [pc |-> "none", user |-> None, saw |-> 0, new |-> 0]

AuthInit ==
    /\ Init
    /\ pw = [u \in Users |-> 0]
    /\ tx = [r \in Requests |-> NoTx]
    /\ cred = [s \in Sids |-> 0]
    /\ welcomed = [u \in Users |-> 0]
    /\ unsettled = {}

(* A request that has not begun. *)
Free(r) == req[r] = Idle /\ tx[r] = NoTx

Starts(r, u, step) ==
    /\ Free(r)
    /\ tx' = [tx EXCEPT ![r] = [NoTx EXCEPT !.pc = step, !.user = u]]

Goes(r, step) == tx' = [tx EXCEPT ![r].pc = step]

(* No other transaction has written the user's row, or inserted its email,
   and not yet ended: a statement on it does not wait. *)
RowFree(r) ==
    \A q \in Requests \ {r} : tx[q].new > 0 => tx[q].user # tx[r].user

(* find_by_id on a committed row. *)
HasRow(u) == pw[u] > 0

-----------------------------------------------------------------------------
(* register. *)

(* find_by_email finds no user; otherwise UserAlreadyExistsError ends the
   request.  The email and the password are valid. *)
Register(r, u) ==
    /\ pw[u] = 0
    /\ Starts(r, u, "insert")
    /\ UNCHANGED <<vars, pw, cred, welcomed, unsettled>>

(* Mutant: the email column is not unique. *)
InsertedAnyway(x) == [x EXCEPT !.new = 1]

(* The unique index on email: the INSERT fails when the email is there by
   now, and IntegrityError rolls the transaction back. *)
Inserted(x) == IF pw[x.user] = 0 THEN [x EXCEPT !.new = 1] ELSE x

(* user_repo.save of a new user. *)
InsertUser(r) ==
    /\ tx[r].pc = "insert"
    /\ RowFree(r)
    /\ tx' = [tx EXCEPT ![r] = [Inserted(@) EXCEPT !.pc = "commit"]]
    /\ UNCHANGED <<vars, pw, cred, welcomed, unsettled>>

RegisterMutation(r) == (\E u \in Users : Register(r, u)) \/ InsertUser(r)

-----------------------------------------------------------------------------
(* login. *)

(* Resets of the user that have listed the sessions and not committed. *)
Resetting(u) ==
    {q \in Requests :
        tx[q].user = u /\ tx[q].new > 1
            /\ tx[q].pc \in {"revoking", "audit", "commit"}}

(* Logins of the user that have verified the password and not yet opened
   their session. *)
LoggingIn(u) == {q \in Requests : tx[q].user = u /\ tx[q].pc = "session"}

(* find_by_email finds the user; an unknown email is refused. *)
Verified(u) == pw[u] > 0

(* find_by_email and, in the same turn of the event loop, verify: the client
   knows the password that is committed now.  Any other password, like an
   unknown email, is answered with InvalidCredentialsError. *)
Login(r, u) ==
    /\ Verified(u)
    /\ Free(r)
    /\ tx' = [tx EXCEPT ![r] = [NoTx EXCEPT !.pc = "session", !.user = u,
                                            !.saw = pw[u]]]
    /\ unsettled' = unsettled \cup {x \in {u} : Resetting(x) # {}}
    /\ UNCHANGED <<vars, pw, cred, welcomed>>

(* create_session.  What is left writes an auth_events row only. *)
LoginSession(r, s, t) ==
    /\ tx[r].pc = "session"
    /\ CreateSession(tx[r].user, s, t)
    /\ cred' = [cred EXCEPT ![s] = tx[r].saw]
    /\ tx' = [tx EXCEPT ![r] = NoTx]
    /\ UNCHANGED <<pw, welcomed, unsettled>>

LoginMutation(r) ==
    \/ \E u \in Users : Login(r, u)
    \/ \E s \in Sids, t \in Pairs : LoginSession(r, s, t)

-----------------------------------------------------------------------------
(* resetPassword. *)

(* The token is consumed and find_by_id finds its user. *)
ResetPassword(r, u) ==
    /\ HasRow(u)
    /\ Starts(r, u, "update")
    /\ UNCHANGED <<vars, pw, cred, welcomed, unsettled>>

(* change_password, user_repo.save (the UPDATE) and the token's save. *)
UpdateUser(r) ==
    /\ tx[r].pc = "update"
    /\ RowFree(r)
    /\ pw[tx[r].user] < MaxPassword
    /\ tx' = [tx EXCEPT ![r].pc = "revoke", ![r].new = pw[tx[r].user] + 1]
    /\ UNCHANGED <<vars, pw, cred, welcomed, unsettled>>

(* Mutant: the handler does not call it. *)
RevokeNot(r) ==
    /\ tx[r].pc = "revoke"
    /\ Goes(r, "audit")
    /\ UNCHANGED <<vars, pw, cred, welcomed, unsettled>>

(* revoke_all_user_sessions begins with its SMEMBERS. *)
RevokeAll(r) ==
    /\ tx[r].pc = "revoke"
    /\ ListSessions(r, tx[r].user)
    /\ Goes(r, "revoking")
    /\ unsettled' = unsettled \cup {x \in {tx[r].user} : LoggingIn(x) # {}}
    /\ UNCHANGED <<pw, cred, welcomed>>

(* The DEL and the loop over the sessions. *)
RevokeStep(r) ==
    /\ tx[r].pc = "revoking"
    /\ WipeIndex(r) \/ Revoke(r) \/ \E s \in Sids : RevokeRead(r, s)
    /\ Goes(r, IF req'[r] = Idle THEN "audit" ELSE "revoking")
    /\ UNCHANGED <<pw, cred, welcomed, unsettled>>

(* Redis fails.  The resolver raises and the transaction commits. *)
RevokeFails(r) ==
    /\ \/ tx[r].pc = "revoke" /\ UNCHANGED vars
       \/ tx[r].pc = "revoking" /\ Fail(r)
    /\ Goes(r, "commit")
    /\ unsettled' = unsettled \cup {tx[r].user}
    /\ UNCHANGED <<pw, cred, welcomed>>

(* The audit record.  A flush that fails rolls the transaction back. *)
RecordAudit(r) ==
    /\ tx[r].pc = "audit"
    /\ \E n \in {tx[r].new, 0} :
          tx' = [tx EXCEPT ![r].pc = "commit", ![r].new = n]
    /\ UNCHANGED <<vars, pw, cred, welcomed, unsettled>>

ResetMutation(r) ==
    \/ \E u \in Users : ResetPassword(r, u)
    \/ UpdateUser(r) \/ RevokeAll(r) \/ RevokeStep(r) \/ RevokeFails(r)
    \/ RecordAudit(r)

-----------------------------------------------------------------------------
(* The end of a request. *)

(* The users row after a transaction's commit. *)
Saved(u, x) == IF u = x.user /\ x.new > 0 THEN x.new ELSE pw[u]

(* The registrations of u that x answers with success. *)
Successes(u, x) == IF u = x.user /\ x.new = 1 THEN 1 ELSE 0

(* The request scope is left and the answer goes out. *)
Commit(r) ==
    /\ tx[r].pc = "commit"
    /\ pw' = [u \in Users |-> Saved(u, tx[r])]
    /\ welcomed' = [u \in Users |-> welcomed[u] + Successes(u, tx[r])]
    /\ tx' = [tx EXCEPT ![r] = NoTx]
    /\ UNCHANGED <<vars, cred, unsettled>>

(* The worker dies or PostgreSQL is lost: rollback, between any two steps. *)
Abort(r) ==
    /\ tx[r] # NoTx
    /\ tx' = [tx EXCEPT ![r] = NoTx]
    /\ \/ req[r] = Idle /\ UNCHANGED <<vars, unsettled>>
       \/ Fail(r) /\ unsettled' = unsettled \cup {tx[r].user}
    /\ UNCHANGED <<pw, cred, welcomed>>

-----------------------------------------------------------------------------
(* refreshToken and revokeSession: what they write in PostgreSQL are
   auth_events rows. *)

RefreshMutation(r) ==
    \/ \E t \in Pairs : GetSessionByRefreshToken(r, t) \/ Rotate(r, t)
    \/ RotateRead(r)

RevokeMutation(r) ==
    \/ \E t \in Pairs, s \in Sids : AuthorizeRevoke(r, t, s)
    \/ CheckOwner(r)
    \/ \E s \in Sids : RevokeRead(r, s)
    \/ Revoke(r)

StoreOnly(r) ==
    /\ tx[r] = NoTx
    /\ RefreshMutation(r) \/ RevokeMutation(r) \/ Fail(r)
    /\ UNCHANGED database

AuthNext ==
    \/ \E r \in Requests :
          \/ RegisterMutation(r) \/ LoginMutation(r) \/ ResetMutation(r)
          \/ Commit(r) \/ Abort(r) \/ StoreOnly(r)
    \/ Tick /\ UNCHANGED database

AuthSpec == AuthInit /\ [][AuthNext]_authVars

-----------------------------------------------------------------------------
(* The me query. *)

(* What me answers to a bearer of t: the user of the sub claim, when the jti
   is in the allowlist and the user has a row (is_active is never changed).
   Rows are not deleted, so the two reads may count as one. *)
Me(t) == IF Accepted(t) /\ HasRow(payload[t].sub) THEN payload[t].sub ELSE None

-----------------------------------------------------------------------------
(* Properties. *)

(* Every variable of the composition keeps its type. *)
AuthTypeOK ==
    /\ TypeOK
    /\ pw \in [Users -> 0..MaxPassword]
    /\ tx \in [Requests ->
                 [pc : {"none", "insert", "session", "update", "revoke",
                        "revoking", "audit", "commit"},
                  user : Opt(Users), saw : 0..MaxPassword,
                  new : 0..MaxPassword]]
    /\ cred \in [Sids -> 0..MaxPassword]
    /\ welcomed \in [Users -> Nat]
    /\ unsettled \in SUBSET Users

(* Requirements: "UserAlreadyExistsError already prevents duplicates".  Two
   registrations of an email that both find no user never both succeed, and
   the one that does leaves an account. *)
RegisteredOnce ==
    \A u \in Users : /\ welcomed[u] <= 1
                     /\ welcomed[u] = 1 => pw[u] > 0

(* Comment of reset_password: "Force re-login: revoke all active sessions
   after password change".  Once a new password is committed, the sessions
   opened with an older one have ended, whatever refreshes, logouts and other
   resets overlap, unless a login of the user overlapped the revocation or
   the revocation stopped half way. *)
ForcedRelogin ==
    \A s \in Sids :
        LET u == owner[s]
        IN  u # None => \/ cred[s] = pw[u]
                        \/ s \in Ended
                        \/ u \in unsettled

(* The comment of reset_password as it is written, with no exception: once a
   new password is committed no session opened with an older one is left. *)
OldSessionsEnded ==
    \A s \in Sids :
        owner[s] # None => cred[s] = pw[owner[s]] \/ s \in Ended

(* Docstring of me: "Return current user info if the JWT is valid and jti is in
   Redis allowlist".  For every accepted access token me answers the very user
   who logged in: overlapping rotations of several users never mix up who the
   bearer is, and Redis never vouches for a user PostgreSQL does not have. *)
MeIsOwner ==
    \A t \in Pairs : Accepted(t) => Me(t) = owner[payload[t].sid]

=============================================================================
