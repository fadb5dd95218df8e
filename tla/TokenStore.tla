----------------------------- MODULE TokenStore -----------------------------
(***************************************************************************)
(* The Redis token store and the GraphQL operations that drive it:         *)
(*   src/auth_service/infrastructure/redis/redis_token_store.py,           *)
(*   commands/refresh_token.py, commands/revoke_session.py, and the parts  *)
(*   of login, resetPassword and the mutations that call the store.        *)
(*                                                                         *)
(* Every `await` on Redis is one action, because the event loop may run    *)
(* any other request there; a MULTI/EXEC pipeline is one action.  A Redis  *)
(* key is its remaining time to live in ticks, 0 when the key is absent.   *)
(* A jti and a refresh token are always generated, stored and recorded     *)
(* together, so one member of Pairs stands for both.                       *)
(***************************************************************************)
EXTENDS Naturals

CONSTANTS
    Users,       \* account ids
    Sids,        \* session ids (uuid4: never issued twice)
    Pairs,       \* (access jti, refresh token) pairs, never issued twice
    Requests,    \* requests being served at the same time
    AccessTTL,   \* access_ttl, in ticks
    RefreshTTL,  \* refresh_ttl, in ticks
    None         \* an absent value

ASSUME TTLAssumption == AccessTTL \in Nat \ {0} /\ RefreshTTL \in Nat \ {0}
ASSUME NoneAssumption == None \notin Users \cup Sids \cup Pairs

VARIABLES
    access,      \* access:{jti}: remaining TTL
    refresh,     \* refresh:{token}: remaining TTL
    payload,     \* what a pair was issued for: stored value and JWT claim
    session,     \* session:{sid}: the hash
    index,       \* sessions:{user}: the set of session ids
    req,         \* local state of the coroutine serving each request
    owner,       \* history: who logged in to get a session
    revoked,     \* history: sessions whose revocation was executed
    lapsed,      \* history: sessions whose hash expired
    wiped        \* history: sessions listed in an index when it was deleted

store == <<access, refresh, payload, session, index>>
history == <<owner, revoked, lapsed, wiped>>
vars == <<store, req, history>>

-----------------------------------------------------------------------------
(* Values. *)

NoPayload == [sub |-> None, user |-> None, sid |-> None]
NoHash == [user |-> None, current |-> None, ttl |-> 0]
NoIndex == [ids |-> {}, ttl |-> 0]
NotSeen == [user |-> None, current |-> None]
Idle == [pc |-> "idle", pair |-> None, sid |-> None, caller |-> None,
         seen |-> NotSeen, todo |-> {}]

Opt(S) == S \cup {None}

Payload == [sub : Opt(Users), user : Opt(Users), sid : Opt(Sids)]
Hash == [user : Opt(Users), current : Opt(Pairs), ttl : 0..RefreshTTL]
Index == [ids : SUBSET Sids, ttl : 0..RefreshTTL]
Seen == [user : Opt(Users), current : Opt(Pairs)]
Request ==
    [pc : {"idle", "redeemed", "rotate", "owner", "listed", "each", "revoke"},
     pair : Opt(Pairs), sid : Opt(Sids), caller : Opt(Users),
     seen : Seen, todo : SUBSET Sids]

Ended == revoked \cup lapsed

(* secrets.token_urlsafe / uuid4: an id that was never issued before. *)
FreshPair(t) == payload[t].sid = None
FreshSid(s) == owner[s] = None

Init ==
    /\ access = [t \in Pairs |-> 0]
    /\ refresh = [t \in Pairs |-> 0]
    /\ payload = [t \in Pairs |-> NoPayload]
    /\ session = [s \in Sids |-> NoHash]
    /\ index = [u \in Users |-> NoIndex]
    /\ req = [r \in Requests |-> Idle]
    /\ owner = [s \in Sids |-> None]
    /\ revoked = {}
    /\ lapsed = {}
    /\ wiped = {}

-----------------------------------------------------------------------------
(* Redis commands. *)

(* HGETALL: the key exists. *)
HashExists(h) == h.ttl > 0

(* Mutant: the user's set is not extended. *)
ExtendForgotten(ix) == ix

(* EXPIRE on the user's set is a no-op when the key is absent. *)
Extend(ix) == IF ix.ids = {} THEN ix ELSE [ix EXCEPT !.ttl = RefreshTTL]

(* SREM deletes the set with its last member. *)
Without(ix, s) ==
    IF ix.ids \subseteq {s} THEN NoIndex ELSE [ix EXCEPT !.ids = @ \ {s}]

(* Mutant: GET instead of GETDEL. *)
GetOnly(t) == refresh[t]

(* GETDEL on the refresh key: what is left of the key. *)
GetDel(t) == 0

-----------------------------------------------------------------------------
(* create_session: the one MULTI at the end of login. *)
CreateSession(u, s, t) ==
    /\ FreshSid(s)
    /\ FreshPair(t)
    /\ access' = [access EXCEPT ![t] = AccessTTL]
    /\ refresh' = [refresh EXCEPT ![t] = RefreshTTL]
    /\ payload' = [payload EXCEPT ![t] = [sub |-> u, user |-> u, sid |-> s]]
    /\ session' = [session EXCEPT ![s] =
                      [user |-> u, current |-> t, ttl |-> RefreshTTL]]
    /\ index' = [index EXCEPT ![u] =
                    [ids |-> @.ids \cup {s}, ttl |-> RefreshTTL]]
    /\ owner' = [owner EXCEPT ![s] = u]
    /\ UNCHANGED <<req, revoked, lapsed, wiped>>

-----------------------------------------------------------------------------
(* The refreshToken mutation. *)

(* get_session_by_refresh_token.  When the key is absent the request ends
   with InvalidTokenError and nothing has changed. *)
GetSessionByRefreshToken(r, t) ==
    /\ req[r] = Idle
    /\ refresh[t] > 0
    /\ refresh' = [refresh EXCEPT ![t] = GetDel(t)]
    /\ req' = [req EXCEPT ![r] =
                  [Idle EXCEPT !.pc = "redeemed", !.pair = t,
                               !.sid = payload[t].sid]]
    /\ UNCHANGED <<access, payload, session, index, history>>

(* Mutant: only the hash's presence is checked. *)
RotatableIfPresent(h) == h.ttl > 0

(* rotate_session goes on when the hash is there (otherwise it raises
   InvalidTokenError) and has a user_id (otherwise KeyError). *)
Rotatable(h) == h.ttl > 0 /\ h.user # None

(* rotate_session, the HGETALL. *)
RotateRead(r) ==
    /\ req[r].pc = "redeemed"
    /\ LET h == session[req[r].sid]
       IN  req' = [req EXCEPT ![r] =
                      IF Rotatable(h)
                      THEN [@ EXCEPT !.pc = "rotate",
                                     !.seen = [user |-> h.user,
                                               current |-> h.current]]
                      ELSE Idle]
    /\ UNCHANGED <<store, history>>

(* Mutants: the TTL is not refreshed, is added to what was left, or the hash
   still names the old tokens. *)
RenewedNoExpire(h, t) == [h EXCEPT !.current = t]
RenewedAdding(h, t) == [h EXCEPT !.current = t, !.ttl = @ + RefreshTTL]
RenewedOldTokens(h, t) == [h EXCEPT !.ttl = RefreshTTL]

(* HSET of last_used, current_jti and current_refresh, then EXPIRE.  The
   user_id field is not written: a hash that has gone meanwhile comes back
   without it. *)
Renewed(h, t) == [h EXCEPT !.current = t, !.ttl = RefreshTTL]

(* Mutant: the handler keeps what it redeemed in an attribute, which another
   refresh overwrites. *)
NewClaimsShared(q) ==
    LET p == CHOOSE p \in Requests : req[p].pc = "rotate"
    IN  [sub |-> payload[req[p].pair].user,
         user |-> q.seen.user, sid |-> q.sid]

(* What the new tokens say: the access token's sub is the user_id found with
   the old refresh token, the refresh token's is the one of the hash. *)
NewClaims(q) ==
    [sub |-> payload[q.pair].user, user |-> q.seen.user, sid |-> q.sid]

(* rotate_session, the MULTI. *)
Rotate(r, t) ==
    /\ req[r].pc = "rotate"
    /\ FreshPair(t)
    /\ LET q == req[r]
       IN  /\ refresh' = [refresh EXCEPT ![q.pair] = 0, ![t] = RefreshTTL]
           /\ access' = [access EXCEPT ![q.seen.current] = 0, ![t] = AccessTTL]
           /\ payload' = [payload EXCEPT ![t] = NewClaims(q)]
           /\ session' = [session EXCEPT ![q.sid] = Renewed(@, t)]
           /\ index' = [index EXCEPT ![q.seen.user] = Extend(@)]
    /\ req' = [req EXCEPT ![r] = Idle]
    /\ UNCHANGED history

-----------------------------------------------------------------------------
(* The revokeSession mutation, up to the handler's revoke_session. *)

(* decode_access_token and is_access_jti_valid.  The JWT was signed just
   before its key was set with the same TTL, so its exp falls due with the key
   and a live key stands for a valid token. *)
Accepted(t) == access[t] > 0

(* The bearer checks; any other token answers "Authentication required". *)
AuthorizeRevoke(r, t, s) ==
    /\ req[r] = Idle
    /\ Accepted(t)
    /\ req' = [req EXCEPT ![r] =
                  [Idle EXCEPT !.pc = "owner", !.sid = s,
                               !.caller = payload[t].sub]]
    /\ UNCHANGED <<store, history>>

(* Mutant: any existing session passes. *)
OwnedByAnyone(h, u) == HashExists(h)

(* The session exists and its user_id is the caller's. *)
OwnedBy(h, u) == HashExists(h) /\ h.user = u

(* RevokeSessionHandler.handle: revoke this one session.  Its own get_session
   only feeds the audit record, and an audit failure is swallowed. *)
HandleRevoke(q) == [q EXCEPT !.pc = "each", !.sid = None, !.todo = {q.sid}]

(* The mutation's get_session: "Session not found" or "Not authorised" end
   the request, otherwise the handler runs. *)
CheckOwner(r) ==
    /\ req[r].pc = "owner"
    /\ LET q == req[r]
       IN  req' = [req EXCEPT ![r] =
                      IF OwnedBy(session[q.sid], q.caller)
                      THEN HandleRevoke(q)
                      ELSE Idle]
    /\ UNCHANGED <<store, history>>

-----------------------------------------------------------------------------
(* revoke_all_user_sessions, called by reset_password. *)

(* SMEMBERS. *)
ListSessions(r, u) ==
    /\ req[r] = Idle
    /\ req' = [req EXCEPT ![r] =
                  [Idle EXCEPT !.pc = "listed", !.caller = u,
                               !.todo = index[u].ids]]
    /\ UNCHANGED <<store, history>>

(* Mutant: the loop is left before its first session. *)
LoopLeft(q, rest) == Idle

(* The loop goes on with the sessions left, or the request is done. *)
LoopOn(q, rest) ==
    IF rest = {} THEN Idle
    ELSE [q EXCEPT !.pc = "each", !.sid = None, !.seen = NotSeen, !.todo = rest]

(* DEL of the user's set. *)
WipeIndex(r) ==
    /\ req[r].pc = "listed"
    /\ LET u == req[r].caller
       IN  /\ index' = [index EXCEPT ![u] = NoIndex]
           /\ wiped' = wiped \cup index[u].ids
    /\ req' = [req EXCEPT ![r] = LoopOn(@, @.todo)]
    /\ UNCHANGED <<access, refresh, payload, session, owner, revoked, lapsed>>

-----------------------------------------------------------------------------
(* revoke_session, for one session of the list. *)

(* The HGETALL: a session that is gone is skipped. *)
RevokeRead(r, s) ==
    /\ req[r].pc = "each"
    /\ s \in req[r].todo
    /\ LET h == session[s]
       IN  req' = [req EXCEPT ![r] =
                      IF HashExists(h)
                      THEN [@ EXCEPT !.pc = "revoke", !.sid = s,
                                     !.seen = [user |-> h.user,
                                               current |-> h.current]]
                      ELSE LoopOn(@, @.todo \ {s})]
    /\ UNCHANGED <<store, history>>

(* The MULTI: delete what the hash named when it was read. *)
Revoke(r) ==
    /\ req[r].pc = "revoke"
    /\ LET q == req[r]
       IN  /\ access' = [access EXCEPT ![q.seen.current] = 0]
           /\ refresh' = [refresh EXCEPT ![q.seen.current] = 0]
           /\ session' = [session EXCEPT ![q.sid] = NoHash]
           /\ index' = [u \in Users |-> IF u = q.seen.user
                                        THEN Without(index[u], q.sid)
                                        ELSE index[u]]
           /\ revoked' = revoked \cup {q.sid}
           /\ req' = [req EXCEPT ![r] = LoopOn(q, q.todo \ {q.sid})]
    /\ UNCHANGED <<payload, owner, lapsed, wiped>>

-----------------------------------------------------------------------------
(* The environment. *)

(* A Redis error, a cancelled request or a dead worker: the coroutine stops
   between two awaits and leaves the store as it is. *)
Fail(r) ==
    /\ req[r] # Idle
    /\ req' = [req EXCEPT ![r] = Idle]
    /\ UNCHANGED <<store, history>>

Older(n) == IF n = 0 THEN 0 ELSE n - 1
OlderHash(h) == IF h.ttl > 1 THEN [h EXCEPT !.ttl = @ - 1] ELSE NoHash
OlderIndex(ix) == IF ix.ttl > 1 THEN [ix EXCEPT !.ttl = @ - 1] ELSE NoIndex

(* One unit of time passes and Redis expires the keys that are due. *)
Tick ==
    /\ access' = [t \in Pairs |-> Older(access[t])]
    /\ refresh' = [t \in Pairs |-> Older(refresh[t])]
    /\ session' = [s \in Sids |-> OlderHash(session[s])]
    /\ index' = [u \in Users |-> OlderIndex(index[u])]
    /\ lapsed' = lapsed \cup {s \in Sids : session[s].ttl = 1}
    /\ UNCHANGED <<payload, req, owner, revoked, wiped>>

-----------------------------------------------------------------------------
Serve(r) ==
    \/ \E t \in Pairs : GetSessionByRefreshToken(r, t)
    \/ RotateRead(r)
    \/ \E t \in Pairs : Rotate(r, t)
    \/ \E t \in Pairs, s \in Sids : AuthorizeRevoke(r, t, s)
    \/ CheckOwner(r)
    \/ \E u \in Users : ListSessions(r, u)
    \/ WipeIndex(r)
    \/ \E s \in Sids : RevokeRead(r, s)
    \/ Revoke(r)
    \/ Fail(r)

Next ==
    \/ \E u \in Users, s \in Sids, t \in Pairs : CreateSession(u, s, t)
    \/ \E r \in Requests : Serve(r)
    \/ Tick

Spec == Init /\ [][Next]_vars

(* Redis answers and no worker dies: the requests without Fail, each of them
   fair, as the event loop resumes every coroutine whose reply has arrived. *)
Advance(r) ==
    \/ RotateRead(r)
    \/ \E t \in Pairs : Rotate(r, t)
    \/ CheckOwner(r)
    \/ WipeIndex(r)
    \/ \E s \in Sids : RevokeRead(r, s)
    \/ Revoke(r)

ReliableNext ==
    \/ \E u \in Users, s \in Sids, t \in Pairs : CreateSession(u, s, t)
    \/ \E r \in Requests : Advance(r)
    \/ \E r \in Requests, t \in Pairs : GetSessionByRefreshToken(r, t)
    \/ \E r \in Requests, t \in Pairs, s \in Sids : AuthorizeRevoke(r, t, s)
    \/ \E r \in Requests, u \in Users : ListSessions(r, u)
    \/ Tick

ReliableSpec ==
    /\ Init /\ [][ReliableNext]_vars
    /\ \A r \in Requests : WF_vars(Advance(r))

-----------------------------------------------------------------------------
(* Properties. *)

(* Every variable keeps its type: TTLs never exceed what SETEX and EXPIRE
   set, and the coroutine state is one the code can be in. *)
TypeOK ==
    /\ access \in [Pairs -> 0..AccessTTL]
    /\ refresh \in [Pairs -> 0..RefreshTTL]
    /\ payload \in [Pairs -> Payload]
    /\ session \in [Sids -> Hash]
    /\ index \in [Users -> Index]
    /\ req \in [Requests -> Request]
    /\ owner \in [Sids -> Opt(Users)]
    /\ revoked \in SUBSET Sids
    /\ lapsed \in SUBSET Sids
    /\ wiped \in SUBSET Sids

LiveRefresh(t, s) == refresh[t] > 0 /\ payload[t].sid = s
LiveAccess(t, s) == access[t] > 0 /\ payload[t].sid = s
Rotating(r, s) == req[r].pc \in {"redeemed", "rotate"} /\ req[r].sid = s

(* Refresh tokens are single-use (the GETDEL of get_session_by_refresh_token):
   a session's chain of refresh tokens never forks.  At any time it continues
   through one live token or through one request that is rotating it, never
   through two, whatever refreshes, logouts and resets overlap. *)
RefreshNeverForks ==
    \A s \in Sids :
        /\ \A t1, t2 \in Pairs :
              LiveRefresh(t1, s) /\ LiveRefresh(t2, s) => t1 = t2
        /\ \A r1, r2 \in Requests :
              Rotating(r1, s) /\ Rotating(r2, s) => r1 = r2
        /\ \A t \in Pairs, r \in Requests :
              LiveRefresh(t, s) => ~Rotating(r, s)

(* A session never has two usable access tokens: rotate_session deletes the
   jti it read from the hash, and no overlapping rotation, revocation or
   expiry makes that read miss one. *)
OneAccessPerSession ==
    \A s \in Sids, t1, t2 \in Pairs :
        LiveAccess(t1, s) /\ LiveAccess(t2, s) => t1 = t2

(* rotate_session never goes past its HGETALL for a session that was revoked
   or has expired, not even when an overlapping rotation has written the hash
   back after the end: a session renews at most once after it ended. *)
RenewalsStopAtEnd ==
    [][\A r \in Requests :
          req'[r].pc = "rotate" /\ req[r].pc # "rotate"
             => req'[r].sid \notin Ended]_vars

(* The refresh token a client holds works for as long as its session has not
   ended: the hash rotate_session will read is there, belongs to the user who
   logged in, names this very token, and lives as long as the token does. *)
LiveTokenUsable ==
    \A t \in Pairs :
        LET s == payload[t].sid
        IN  refresh[t] > 0 /\ s \notin Ended
               => session[s] = [user |-> owner[s], current |-> t,
                                ttl |-> refresh[t]]

(* The set sessions:{user} lists every session of the user that can still be
   renewed, and does not expire before them (the EXPIRE of create_session and
   rotate_session), save the ones a revoke_all_user_sessions took off it. *)
IndexComplete ==
    \A s \in Sids :
        LET u == session[s].user
        IN  u # None => s \in index[u].ids \cup wiped

(* No request revokes a session of somebody else: the session ids a request
   is about to revoke were all opened by its caller. *)
OwnSessionsOnly ==
    \A r \in Requests : \A s \in req[r].todo : owner[s] = req[r].caller

(* Whoever presents a token acts as the user who opened its session: the sub
   claim me and revokeSession read and the user_id a refresh goes on with are
   copies that were read at different awaits, and overlapping refreshes of
   several users never mix them up. *)
BearerIsOwner ==
    \A t \in Pairs :
        /\ Accepted(t) => payload[t].sub = owner[payload[t].sid]
        /\ refresh[t] > 0 => payload[t].user = owner[payload[t].sid]

(* While Redis answers, every session that revokeSession or
   revoke_all_user_sessions has picked does end: no session is forgotten
   because an earlier one in the list had already gone. *)
PickedGetsEnded ==
    \A s \in Sids :
        (\E r \in Requests : s \in req[r].todo) ~> s \in Ended

(* README: "Access token can be revoked instantly".  Once the MULTI of
   revoke_session has run, no access token of the session is accepted. *)
RevokedIsDead ==
    \A t \in Pairs : access[t] > 0 => payload[t].sid \notin revoked

(* The chain of refresh tokens as a client sees it (RefreshLineage): a token
   is handed out for a session only when the session has no other, and a
   token that went away never comes back. *)
Lineage == INSTANCE RefreshLineage WITH
    live <- [t \in Pairs |-> IF refresh[t] > 0 THEN payload[t].sid ELSE None],
    used <- {t \in Pairs : payload[t].sid # None}

RefinesLineage == Lineage!Spec

=============================================================================
