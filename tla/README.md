# Verification of the auth service

TLA+ models of `auth_service`, the TLC runs that check them on small instances,
and TLAPS proofs about all of them. Line numbers and quotations are in
`PROJECT.json`; file names below are relative to `auth_service/`.

## The system

A FastAPI process serves GraphQL. Every mutation runs as one coroutine; the
event loop may run any other request at each `await`, and several workers share
one Redis and one PostgreSQL.

| Part | State | Operations | Hard because |
|---|---|---|---|
| `infrastructure/redis/redis_token_store.py` | `access:{jti}`, `refresh:{token}`, `session:{sid}` hash, `sessions:{user}` set, each with a TTL | `create_session`, `get_session_by_refresh_token`, `rotate_session`, `revoke_session`, `revoke_all_user_sessions` | reads and the MULTI that uses them are separate awaits; four keys expire separately |
| `commands/refresh_token.py`, `commands/revoke_session.py`, `mutations.py` | coroutine locals | refresh, logout | what was read is stale when it is written |
| `commands/request_password_reset.py`, `commands/reset_password.py`, repositories, `PasswordResetToken` | `password_reset_tokens`, `users` rows, one transaction per request | issue a token, consume it | READ COMMITTED, row locks taken one by one, errors that commit, errors that are swallowed |
| `container.py` request scope | the transaction | commit on exit | a resolver's exception never reaches it |
| `infrastructure/security/rate_limiter.py`, middleware in `main.py` | `rl:{key}` counter and TTL | SET NX, INCR, TTL per rule | the key may expire between the commands |
| `presentation/graphql/idempotency.py`, `infrastructure/redis/idempotency_store.py` | `idempotency:{op}:{key}` record | look up, execute, store | client retries overlap; the worker may die in between |
| `commands/authenticate_user.py`, `commands/register_user.py`, `me` query | `users` | login, register, read | a password is checked in one store and a session opened in the other; two registrations of one email |

The parts interact through shared keys and rows only: the middleware runs
before GraphQL, the idempotency extension around the mutation, the transaction
around both; `resetPassword` calls `revoke_all_user_sessions`.

What makes each part correct:
- token store: a refresh token works once; a session has one usable pair; a
  token works until its session ends; a reset reaches every session; nobody
  ends somebody else's session; a revoked session is dead;
- password reset: one active token per user, each used once; change and
  consumption are one; success means done; only overlapping requests for one
  email can wait for each other in a circle;
- rate limiter: the limit holds per window, windows end, Retry-After is sane;
- idempotency: one side effect per key; each answer belongs to its key and
  variables; a cached success stays true;
- accounts: an email registers once; a new password ends the older sessions;
  an accepted token names the owner of its session.

## Modules

| Module | Models |
|---|---|
| `TokenStore` | the Redis store and the requests that use it; one action per await or MULTI |
| `RefreshLineage` | abstract: at most one live refresh token per session, none handed out twice |
| `TokenStoreProofs` | inductive invariant, safety theorems, refinement |
| `RateLimiter`, `RateLimiterProofs` | `check` and the middleware's loop over rules; proofs |
| `PasswordReset`, `PasswordResetProofs` | both reset mutations against PostgreSQL; proofs |
| `ResetTokenLife` | abstract: a reset token is issued, active and spent, in that order; implemented by `PasswordReset` |
| `Idempotency`, `IdempotencyProofs` | `on_execute` over its store; proofs |
| `AuthService` | extends `TokenStore` with the `users` table: register, login, `resetPassword` across both stores, `me`, beside refresh and logout |
| `AuthServiceProofs` | `AuthService` implements `TokenStore`, and its own invariants |
| `ResetRetry` | composes `PasswordReset` and `Idempotency`: `requestPasswordReset` retried with a key |
| `ResetRetryProofs` | `ResetRetry` implements both of its components, and its own invariant |
| `MC*` | model values, rule tables and symmetry for TLC |

### TokenStore
A Redis key is its remaining TTL in ticks, 0 when absent. A jti and a refresh
token are always made, stored and recorded together, so a member of `Pairs`
stands for both; `payload` is what the values and the JWT claims say about it.
`session[s]` keeps `user_id` (`user`), the current pair and the TTL; a rotation
after the end writes the hash back without `user_id`, as the HSET does.
`req[r]` is a coroutine: its `pc` names the next await, `seen` the locals read
from the hash, `todo` the sessions a revocation has still to visit.
`owner`, `revoked`, `lapsed`, `wiped` are history variables: only properties
read `revoked`, `lapsed` and `wiped`; `owner` also keeps session ids unique.
Login enters with its one Redis step. `Fail` ends a coroutine between any two
awaits. `sid` in a refresh value is always one the code wrote, so the branch
for a malformed payload is unreachable and has no action.

### PasswordReset
`row` is the committed table (absent, fresh, used); `tx[p]` holds the
transaction of a request: the rows it has written (`locks`), whether it has
written the user (`pw`), whether the resolver raised (`ok`) and whether a flush
failed (`dead`). The DELETE takes its snapshot in `RequestReset`, so it misses
rows inserted in between, locks the rows one by one (`DeleteRow`, in any order:
SQL promises none), keeps them while it waits for the next, and ends in
`DeleteAllByUserId`. A row another DELETE has removed, or a reset has inserted
again since, is skipped. Transactions can so come to wait for each other in a
circle; `DeadlockDetected` is PostgreSQL's detector, which aborts one of them.
`InsertFails` is the INSERT of the new token raising. Either way the transaction
is rolled back and the resolver raises.
`save` SELECTs the row again: the object loaded by `find_by_token` is no longer
referenced and SQLAlchemy's identity map is weak. An UPDATE of a row that has
gone matches no row and fails the flush. A failed flush rolls the transaction
back and frees its locks; leaving the scope then closes the session without an
error. An exception of the mailer or of Redis ends the resolver, becomes a
GraphQL error and lets the transaction commit. An audit flush can really fail:
`ip_address` is an INET column and receives `request.client.host` unchecked.
The FOREIGN KEY locks (KEY SHARE) do not conflict with the UPDATE of
`hashed_password` and are left out. A request starts whether or not the finite
set `Tokens` still has a value for it; when none is left its INSERT can only
fail or the request be aborted.
`Stage` maps a token to `ResetTokenLife`: new without a row or an INSERT, issued
while its request is under way, active while its row is fresh, spent afterwards.
`Change` there may find a token spent: overlapping resets use one token twice
(`reset_twice`).

### RateLimiter
`ttl` is written as Redis answers it (-2 absent, -1 no expiry). A request is the
sequence of keys it is checked against: the rules of its operation in table
order, an email rule left out when there is no email. The regular expressions
that find the operation are abstracted to the choice of that sequence.
`Incremented` stops one above the limit, since only the comparison is used.
`passed` and `span` are history. A `span` is a stretch of a window's length that
`Tick` may begin to watch for a key at any time, with the requests that passed
in it; as any stretch may be the watched one, `BurstBound` is about all of them.

### Idempotency
`Hash` is the part of the request that `request_hash` covers, the operation's
variables. It is any function of the request, so two requests may share it: in
the run two of three requests have their arguments in the document and no
variables. A mutation succeeds with a new side effect, answers `success=False`,
or raises.
`by`, `done` and `shaken` are history: the request an effect was executed for,
the effects of a key since its record expired, and the keys two attempts of
which overlapped, or one of which died, since then. A key stays in `shaken`
when its record expires under a running attempt: that attempt can still execute
a second time in the record's next life. (An earlier form forgot it there. The
proof of `OnceIfSerial` did not go through, and TLC confirmed with three
attempts that the property was then false.)

### AuthService
A users row is the number of its password (`pw[u]`, 0 without a row), so that
"opened with an older password" is a comparison of numbers; `tx[r]` is the
request's transaction: the password a login has verified (`saw`), the row
written and not committed (`new`). Reading the row and verifying the password
are one step, because bcrypt runs synchronously after the SELECT; the session
is opened at the next await. A registration's INSERT waits for another
transaction that has inserted the same email and fails when that one commits;
the `IntegrityError` is not caught by the resolver. `resetPassword` holds the
lock on the users row while it runs TokenStore's `ListSessions`, `WipeIndex`,
`RevokeRead` and `Revoke`; when Redis fails it is answered with an error and
still commits. Tokens are left to `PasswordReset`: any user with an account may
reset. Each grouping action (`LoginMutation`, ...) is one resolver. `me`
changes nothing and is the operator `Me`. `cred`, `welcomed` and `unsettled`
are history. A success counts as answered when the transaction has committed.
`CalmSpec` in `MCAuthService` leaves out failures and the requests that do not
touch the password, to show a race alone.

### ResetRetry
The actions are conjunctions of the actions of the two modules: the extension
looks the key up (`Lookup`), a miss runs the handler (`Handle`, `Statement`,
`Mail`, `Audit`), the record is stored when the resolver has returned
(`Record`) and only then the scope commits (`Commit`). `Die` may come anywhere,
also between record and commit. The body of a request is its email and how it
is passed, as a variable or in the document; `VariablesOf` is what the hash
sees of it. The effect is the token mailed. `Raise` is a statement that raises:
the DELETE that PostgreSQL aborts in a circle, or the INSERT. `TokenLeft` is a
bound of this model: an attempt starts when `Tokens` has a value for it. With it
the run's two tokens leave no room for a circle, so the run takes `Raise` through
the INSERT; circles are in run `reset`, and `Raise` in a circle is in the proof.
`lost` and `replaced` are history. When the SETEX fails the attempt is over and
its key is shaken; what its transaction deletes counts as replaced.

## Runs

Bounds: two overlapping requests are enough for every race between two reads
and writes; two sessions and two users make "somebody else's" meaningful; three
pairs allow a rotation after a rotation; TTLs of one to three ticks let keys expire
between any two steps, and unequal access and refresh TTLs occur.
Deadlock is checked in every run: time can always pass.

| Run | Question | Instance |
|---|---|---|
| `store` | safety of the store, a token names the owner of its session, refinement of `RefreshLineage` | 2 users, 2 sessions, 3 pairs, 2 requests, TTL 1/2; 135 154 states |
| `store_live` | every picked session ends | 1 user, 2 sessions, 3 pairs, 2 requests, TTL 1/1; 336 236 states |
| `limiter` | limit, burst, Retry-After, end of a window | 2 keys, limits 1 and 2, windows 2 and 3, 2 requests; 251 953 states |
| `reset` | change and consumption are one; nothing revived; no two writers of a token row; who can wait in a circle; refinement of `ResetTokenLife`; one active token and one use when nothing overlaps | 1 user, 2 tokens, 2 requesters, 2 resetters; 362 665 states |
| `idempotency` | records and answers belong to their key and variables; one effect per quiet key | 2 keys, 3 bodies with 2 hashes, 2 effects, 2 attempts, TTL 1; 1 237 910 states |
| `auth` | one registration per email; a new password ends older sessions | 1 user, 2 sessions, 3 pairs, 2 requests, 3 passwords, TTL 1/1; 630 111 states |
| `retry` | a cached success stands for a mailed link that no retry takes away | 1 user, 2 keys, 2 tokens, 2 requesters, 1 resetter; 1 145 403 states |

Some rules hold only while nothing overlaps. They are stated with a history
variable that remembers the overlap, so that everything else may still
interleave: `raced` (requests of one user, resets with one token), `shaken`
(attempts with one key), `unsettled` (a login during a revocation, or a
revocation that stopped half way), `wiped` (sessions a DEL took off the index),
`lost` (tokens whose transaction was rolled back after the record). Each of them
is set no earlier than the event that breaks the rule. What happens then is the
subject of `reset_twice` and `auth_relogin`, and of the list without a run below.
The finite sets `Sids`, `Pairs`, `Tokens` and `Effects` bound how many sessions,
rotations, reset tokens and executions a behaviour has, `MaxPassword` how many
passwords.

In `auth` one user is enough: rows and locks of different users never meet, and
three passwords allow a second reset. Who a bearer is taken for needs two users
with overlapping requests: `BearerIsOwner` is checked in `store`, and
`MeAnswersOwner` proves the same of the `me` query, which reads both stores.

In `reset` one user is enough for the same reason. A circle takes two DELETEs of
two rows each. A user has two rows after two overlapping requests, which two
tokens allow; the two requests that then meet in the circle start without a
token left, and need none before their INSERT. In `retry` two tokens let a
second request, of the same or another key, replace the first one's token.

Symmetry is used for model values in runs without liveness properties.

Fairness. `TokenStore!ReliableSpec` drops `Fail` and gives each coroutine weak
fairness: asyncio resumes a coroutine whose reply has arrived. New requests and
time are never forced. `RateLimiter!FairSpec` only says that time passes. No
liveness is claimed of the database's locks.

Every property has a mutant: an operator above the original one in the module,
changed as a plausible bug would change it, under which the property fails.

### Disagreements with the documentation
Runs that expect a violation show what the code does where a comment or
document says otherwise:
- `store_revoked`: "Access token can be revoked instantly" (`README.md`). A rotation that
  has read the hash before the revocation sets a new pair afterwards.
  `RenewalsStopAtEnd` and `LiveTokenUsable` bound the damage: the pair cannot be
  renewed, because the hash has no `user_id`.
- `limiter_no_expiry`: a key can exist without expiry after all: it expires between SET NX
  and INCR. It then refuses for ever once the limit is reached.
- `reset_twice`: overlapping resets use one token twice.
- `reset_lost`: a failed audit record undoes a reset that answers success.
- `auth_relogin`: "Force re-login: revoke all active sessions after
  password change" (`reset_password.py`). The sessions are revoked before the
  new password is committed, and a login with the old one in between keeps its
  session. The same happens to a login that verified the password before the
  reset and opens its session after it.

Seen while modelling, without a run of their own:
- A login between the SMEMBERS and the DEL of `revoke_all_user_sessions` is
  left dangling: neither revoked nor in the set (`IndexComplete` exempts it
  through `wiped`).
- Two overlapping requests leave two active tokens, because neither DELETE sees
  the other's INSERT ("only one pending reset token per user at any time", the
  repository's interface). `OneActiveToken`, which exempts users whose requests
  overlapped, holds and is proved.
- "A different body with the same key results in an IDEMPOTENCY_CONFLICT"
  (`idempotency.py`). The hash covers the variables, not the query document: a
  different request with its arguments in the document is answered from the
  record. `ReplayMatches` is what the code does guarantee.
- "Retry must not send a second email" (requirements). Nothing reserves the key
  between the GET and the SETEX, so a retry that overlaps its first attempt
  executes again.
- When Redis fails during a reset, the password changes and the sessions stay;
  after the DEL they are in no set, and a second reset does not find them either.
- A failed audit flush, or a worker that dies after the SETEX, leaves a record
  that answers success for 24 hours about a token that was never committed.

## Proofs

For any sets of users, sessions, tokens and requests, and any positive TTLs,
limits and windows, from the assumptions named in the modules only
(`TTLAssumption`, `NoneAssumption`, `RoleAssumption`, `RuleAssumption`,
`HashAssumption`, `BodyAssumption`, `MaxPasswordAssumption`):

- `TokenStoreProofs`: type correctness and every invariant of run `store`
  (`NeverForks`, `OneAccess`, `TokenUsable`, `IndexListsAll`, `OnlyOwn`,
  `BearerNamed`), the action property `StopAtEnd`, and `Refinement` of `RefreshLineage`.
  The invariants are not inductive alone. That no rotation forks needs what a
  coroutine knows between its awaits (`RotationKnows`: the redeemed token is
  gone and the pair it read is the only one that can be usable). That renewals
  stop needs `UserUntilEnd`: a hash has its `user_id` exactly until the session
  ends, because only `create_session` writes that field. Index completeness
  needs `IndexOutlives`. `Inv` conjoins these; each action has a lemma that it
  keeps `Inv`. For the refinement, login and `Rotate` map to `Hand`, every step
  that removes refresh keys to `Drop`, the rest to stuttering.
- `RateLimiterProofs`: types, `LimitEnforced`, `RetryBounded`, `BurstBounded`.
  The limit needs `PassedCounted`: what passed since the key was created is at
  most the counter, also for counters that INCR created. The burst needs
  `SpansCounted`: either the key in use has counted everything that passed in
  the watched stretch, or one key expired since the stretch began; then the
  stretch counts at most one limit more, and the key in use outlives it, since a
  stretch is no longer than a window. A stretch therefore meets two keys at most.
- `PasswordResetProofs`: types, `ConsumedForGood`, `OnePending`, `UsedOnce`,
  `NoWriteConflict`, `OnlyRacesDeadlock` and the action property `Unrevivable`.
  `Inv` says what each handler knows at its awaits (`Located`): past its UPDATE,
  a reset has written its token's row or the row is no longer usable. That the
  re-INSERT of a deleted row meets nobody needs `PwExclusive` (the users row
  lets one reset of a user through) and that a DELETE in progress still shows
  its rows. That a token is used once, or is the only one, is carried by
  `OneReset` and `OneRequest`, of which `Covers` is the core: a request that is
  alone holds every usable row of its user, or will. `Unborn` keeps a token that
  is not committed unknown to all others. `OnlyRacesDeadlock`: nobody waits for
  a reset before it has written the users row; past that, resets wait for it and
  it waits for DELETEs only, and a DELETE waits for a reset only when that one
  has written its token and waits for nothing. So a circle is made of DELETEs,
  and those that want the same row are of one user. `LifeRefined` is the
  refinement of `ResetTokenLife`: the INSERT is `Issue`, the commit of a request
  `Activate` (its token replaces those it deletes), a rollback or a dead commit
  of a request `Forget`, the commit of a reset `Change`, the rest stuttering.
  `Change` needs both halves of `Inv`: by `Unborn` the token is not an
  uncommitted one, and by `Located` its row is written or no longer fresh.
- `IdempotencyProofs`: types, `RecordsAreBacked`, `OncePerRecord` and
  `AnswersMatch`, for any `Hash`. `Known` says that a response in an attempt's
  hands was executed for its key and hash; `Quiet` that a key which was not
  shaken has one running attempt at most, none while there is a record, and no
  effect before it.
- `AuthServiceProofs` builds on `TokenStoreProofs`. `ImplementsTokenStore` is
  `AuthSpec => Spec`: whatever the service does, Redis sees steps of
  `TokenStore`, so all theorems above hold of it. `OneAccount` needs that the
  users row, or the unique email, has one writer (`OneWriter`) and that an
  uncommitted password is the next one (`HandlersKnow`); `MeAnswersOwner` needs
  `OwnersRegistered`, that Redis has sessions of accounts only.
  `ReloginForced` is the longest: for a user who is not `unsettled`, a login
  under way has seen the current password and no reset is past its SMEMBERS
  (`LoginsCurrent`); a reset past it still lists every session that has not
  ended (`ResetCoversAll`); and a session that was taken off the index belongs
  to a reset that is still at work (`WipedAreListed`). The last one is why the
  SMEMBERS of the next reset misses nothing: by `IndexComplete` a session is in
  the index or was taken off it, and the reset that did so still holds the
  users row.
- `ResetRetryProofs` instantiates the two components' proofs. R and I, whose
  actions the composition conjoins, and RP and IP, which bring the theorems, are
  one set of definitions each under two names; the `Same...` lemmas say so.
  `ImplementsPasswordReset` and `ImplementsIdempotency` need each other's
  invariant (the body executed is an email, the effect recorded an issued token),
  so both are carried together (`Components`). `LinksKept` adds `Link`: where
  an attempt is tells where its transaction is (`Nested`); a record that names a
  token not yet committed was stored by the attempt that will commit it
  (`StoredByOwn`); a request never holds the lock of the token its own key's
  record names (`OwnKeySpared`). The last one is the heart: while the key is not
  shaken, an attempt that runs its DELETE has no record beside it (`Quiet`), and a
  record stored later names a token that no DELETE can have seen (`Unborn`).
  `RetryNamesEmail` combines both components: the response belongs to a request
  with the same variables (`ReplayMatches`), a client that passes its email as a
  variable shares them only with requests for that email, and a token recorded
  for a request was issued to the email it names (`Emails`). For emails in the
  document it does not hold, and the theorem does not say so. `OneMailPerKey` and
  `OnePendingOnRetry` are theorems of the components read in the composition.

All inductive invariants were checked with TLC before they were proved.

Only model-checked: the liveness properties (`PickedGetsEnded`, `WindowEnds`);
the prover does not do fairness.

## Not modelled
- `Email`, `PlainPassword`: pure validation, character by character; nothing
  depends on state. Requests carry valid, normalised values.
- `_extract_operation` and `_get_mutation_field_name`: parsing. `RateLimiter`
  and `Idempotency` take its result as input.
- The contents of `auth_events`: nothing reads them. That writing them can
  fail, and what that does, is modelled.
- JWT signing, hashing, logging, migrations, wiring of the container, DTOs.
- Redis and PostgreSQL lose no committed data; Redis expiry is exact to a tick.
