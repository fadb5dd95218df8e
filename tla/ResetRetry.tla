----------------------------- MODULE ResetRetry -----------------------------
(***************************************************************************)
(* requestPasswordReset sent with an Idempotency-Key and retried: the      *)
(* idempotency extension (Idempotency) around the handler and its          *)
(* transaction (PasswordReset), as get_context and the schema nest them    *)
(* (main.py, schema.py, container.py).                                     *)
(*                                                                         *)
(* The request scope is entered before the extension and left after it:    *)
(* the record is stored when the resolver has answered, while the          *)
(* transaction is still open.  The key's record holds the token that was   *)
(* mailed.  A request names an email, as a variable of its operation or    *)
(* written into the document, where request_hash does not see it.          *)
(***************************************************************************)
EXTENDS Naturals, FiniteSets

CONSTANTS
    Users, Tokens, Requesters, Resetters, TokenTTL,  \* see PasswordReset
    Keys, RecordTTL, Refused,                        \* see Idempotency
    Bodies,       \* requests: the email and how it is passed
    NoVariables,  \* the variables of a request that has none
    None

ASSUME BodyAssumption == Bodies \subseteq [email : Users, inline : BOOLEAN]
ASSUME TTLAssumption == TokenTTL \in Nat \ {0} /\ RecordTTL \in Nat \ {0}
ASSUME NoneAssumption ==
    /\ None \notin Users \cup Tokens \cup Keys \cup Bodies
                     \cup {Refused, NoVariables}
    /\ Refused \notin Tokens
    /\ NoVariables \notin Users
ASSUME RoleAssumption == Requesters \cap Resetters = {}

VARIABLES
    row, user, left, mailed, tx, uses, answered, raced,  \* see PasswordReset
    cache, att, by, done, shaken,                        \* see Idempotency
    lost,      \* history: tokens rolled back under a success
    replaced   \* history: tokens deleted by a request with another key, or by
               \* one that was answered with an error when Redis failed

R == INSTANCE PasswordReset

(* json.dumps(variables): the email, when it is a variable. *)
VariablesOf(b) == IF b.inline THEN NoVariables ELSE b.email

I == INSTANCE Idempotency WITH
        Variables <- Users \cup {NoVariables},
        Hash <- [b \in Bodies |-> VariablesOf(b)],
        Effects <- Tokens, Attempts <- Requesters

request == <<row, user, left, mailed, tx, uses, answered, raced>>
record == <<cache, att, by, done, shaken>>
vars == <<request, record, lost, replaced>>

Init ==
    /\ R!Init
    /\ I!Init
    /\ lost = {}
    /\ replaced = {}

-----------------------------------------------------------------------------
(* The scope is opened, the extension looks the key up. *)
Lookup(a, k, b) ==
    /\ tx[a] = R!Idle
    /\ I!Begin(a, k, b)
    /\ UNCHANGED <<request, lost, replaced>>

(* Bound of the model: Tokens has one left for the request. *)
TokenLeft ==
    Cardinality({q \in Requesters : tx[q].pc \in {"delete", "insert"}})
        < Cardinality({t \in Tokens : user[t] = None})

(* A miss: the handler runs. *)
Handle(a) ==
    /\ att[a].pc = "execute"
    /\ TokenLeft
    /\ R!RequestReset(a, att[a].body.email)
    /\ UNCHANGED <<record, lost, replaced>>

(* The handler's statements up to the mail. *)
Statement(a) ==
    /\ \/ \E t \in Tokens : R!DeleteRow(a, t) \/ R!InsertToken(a, t)
       \/ R!DeleteAllByUserId(a)
    /\ UNCHANGED <<record, lost, replaced>>

(* A statement raises, and so does the resolver: the DELETE is the victim of a
   deadlock, or the INSERT fails. *)
Raise(a) ==
    /\ R!DeadlockDetected(a) \/ R!InsertFails(a)
    /\ I!ExecuteErrors(a)
    /\ UNCHANGED <<lost, replaced>>

(* The mail is the side effect; when it fails the resolver raises. *)
Mail(a) ==
    /\ R!SendResetEmail(a)
    /\ IF tx'[a].ok THEN I!Execute(a, tx[a].tok) ELSE I!ExecuteErrors(a)
    /\ UNCHANGED <<lost, replaced>>

(* A failed flush rolls back; the resolver still answers success. *)
Audit(a) ==
    /\ R!RecordAudit(a)
    /\ lost' = IF tx'[a].dead THEN lost \cup {tx[a].tok} ELSE lost
    /\ UNCHANGED <<record, replaced>>

(* The resolver has returned: the extension stores the record, or Redis fails
   and the answer is an error. *)
Record(a) ==
    /\ tx[a].pc = "commit"
    /\ I!Store(a) \/ I!Crash(a)
    /\ UNCHANGED <<request, lost, replaced>>

(* Rows deleted by the transaction of a on behalf of another key; when the
   SETEX failed a has no key any more, and its own key is shaken. *)
Replaces(a) == {t \in tx[a].locks : by[t].key # att[a].key}

Closed(a) ==
    \/ att[a].pc = "idle" /\ UNCHANGED record
    \/ I!Answer(a)

(* The scope is left: commit, or close a dead transaction. *)
Commit(a) ==
    /\ R!Commit(a)
    /\ Closed(a)
    /\ replaced' = replaced \cup Replaces(a)
    /\ UNCHANGED lost

(* A replay or a conflict is answered; nothing was written. *)
Answer(a) ==
    /\ tx[a] = R!Idle
    /\ I!Answer(a)
    /\ UNCHANGED <<request, lost, replaced>>

(* The worker dies, or PostgreSQL is lost before or at the commit. *)
Die(a) ==
    /\ \/ tx[a] = R!Idle /\ UNCHANGED request /\ I!Crash(a)
       \/ R!Abort(a) /\ (I!Crash(a) \/ Closed(a))
    /\ lost' = IF tx[a] # R!Idle /\ att[a].pc = "answered"
               THEN lost \cup (Tokens \cap {tx[a].tok}) ELSE lost
    /\ UNCHANGED replaced

(* resetPassword requests use the mailed tokens meanwhile. *)
Reset(p) ==
    /\ (\E t \in Tokens : R!FindByToken(p, t)) \/ R!Advance(p) \/ R!Abort(p)
    /\ UNCHANGED <<record, lost, replaced>>

(* Reset tokens expire long before records do; both clocks run apart. *)
TokenTick == R!Tick /\ UNCHANGED <<record, lost, replaced>>
RecordTick == I!Tick /\ UNCHANGED <<request, lost, replaced>>

Next ==
    \/ \E a \in Requesters, k \in Keys, b \in Bodies : Lookup(a, k, b)
    \/ \E a \in Requesters :
          \/ Handle(a) \/ Statement(a) \/ Raise(a) \/ Mail(a) \/ Audit(a)
          \/ Record(a) \/ Commit(a) \/ Answer(a) \/ Die(a)
    \/ \E p \in Resetters : Reset(p)
    \/ TokenTick
    \/ RecordTick

Spec == Init /\ [][Next]_vars

-----------------------------------------------------------------------------
(* Properties. *)

(* A token some open transaction is about to commit. *)
InFlight(t) == \E a \in Requesters : tx[a].tok = t

(* "If this email is registered, a reset link has been sent": as long as a
   record answers retries with success, its link was mailed, and its token is
   kept until it is used or a request with another key replaces it: no retry
   with the key deletes it.  The exceptions are tokens whose transaction was
   rolled back after the record was stored, and keys an attempt of which
   overlapped another or died. *)
LinkKept ==
    \A k \in Keys \ shaken :
        LET t == cache[k].resp
        IN  cache[k].ttl > 0 /\ t \in Tokens =>
               /\ t \in mailed
               /\ \/ row[t] # "absent"
                  \/ InFlight(t)
                  \/ t \in lost \cup replaced

(* A client that passes its email as a variable is answered, by the handler or
   by a record, only about a token made for that email, however requests
   for other emails with its key overlap its own. *)
AnswerNamesEmail ==
    \A a \in Requesters :
        att[a].resp \in Tokens /\ ~att[a].body.inline =>
            user[att[a].resp] = att[a].body.email

=============================================================================
