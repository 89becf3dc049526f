------------------------------ MODULE Sessions ------------------------------
(***************************************************************************)
(* Logins, token rotation, logout and the list of active sessions:         *)
(* app/service/auth_service.py, app/core/security.py, the revocation list  *)
(* of app/core/token_blacklist.py with its circuit breaker, the session    *)
(* registry of app/core/session_registry.py and their routes in            *)
(* app/api/auth_routes.py.                                                 *)
(*                                                                         *)
(* A pair is one access and one refresh token minted together.  Requests   *)
(* are coroutines of one web process: every Redis command and every        *)
(* Neo4j statement is a step of its own, and any Redis command may fail.   *)
(***************************************************************************)
EXTENDS Integers

CONSTANTS
    Users, Pairs, Requests,
    NoPair,
    OwnerOf,       \* the user a pair is minted for
    AccessLife,    \* ACCESS_TOKEN_EXPIRE_MINUTES, in ticks
    RefreshLife,   \* REFRESH_TOKEN_EXPIRE_DAYS, in ticks
    KillLife,      \* the hour for which a killed session stays on the list
    Cooldown,      \* _CB_COOLDOWN_SEC, in ticks
    MaxTime,       \* bound: ticks in one behaviour
    MaxRequests,   \* bound: requests and suspensions in one behaviour
    MaxFaults      \* bound: failing Redis commands in one behaviour

ASSUME ConstantsAssumption ==
    /\ OwnerOf \in [Pairs -> Users]
    /\ NoPair \notin Pairs
    /\ {AccessLife, RefreshLife, KillLife, Cooldown} \subseteq Nat \ {0}
    /\ {MaxTime, MaxRequests, MaxFaults} \subseteq Nat
    /\ KillLife >= AccessLife

VARIABLES
    now,           \* seconds since the machine started (time.monotonic)
    failAt,        \* _last_failure_at: 0.0 at the start and after a success
    iat,           \* when a pair was minted, or Unminted
    held,          \* pairs that were returned to a client
    black,         \* revoked_jti:<jti>: when the key expires, 0 if it was never set
    hash,          \* session:<jti>: when the key expires, 0 if there is none
    zset,          \* user_sessions:<email>: the score (exp) of the jti, 0 if absent
    user,          \* what the checks read of the User node
    req,           \* the requests in flight
    started,       \* how many requests and suspensions came so far
    faults,
    ended,         \* history: tokens whose revocation was stored
    recorded,      \* history: pairs whose session was recorded to the end
    dismissed      \* history: pairs whose removal from the registry was begun

redis   == <<black, hash, zset>>
history == <<ended, recorded, dismissed>>
vars    == <<now, failAt, iat, held, redis, user, req, started, faults, history>>

Unminted == -1
Tokens   == Pairs \X {"access", "refresh"}

(* A key that was written and never got its EXPIREAT outlives every token. *)
Horizon == MaxTime + AccessLife + RefreshLife + KillLife
Forever == Horizon + 1

Life(kind) == IF kind = "access" THEN AccessLife ELSE RefreshLife
Exp(t)     == iat[t[1]] + Life(t[2])
Expired(t) == now >= Exp(t)

Access(p)  == <<p, "access">>
Refresh(p) == <<p, "refresh">>

CbOpen     == now - failAt < Cooldown
InBlack(t) == now < black[t]
HasHash(p) == now < hash[p]

NoReq == [pc |-> "idle", op |-> "none", who |-> "none", tok |-> NoPair,
          tgt |-> NoPair, seen |-> "no", late |-> FALSE, cut |-> FALSE,
          hit |-> FALSE, todo |-> {}]

Ops == {"none", "login", "oauth", "refresh", "me", "list", "kill", "logout",
        "logoutboth", "leave"}

Pcs == {"idle", "check", "user", "mint", "hset", "expireat", "zadd", "revoke",
        "revokerefresh", "hget", "del", "zrem", "owner", "purge", "range",
        "visit", "forget", "drop"}

TypeOK ==
    /\ now \in 0 .. MaxTime /\ failAt \in 0 .. MaxTime /\ faults \in 0 .. MaxFaults
    /\ started \in 0 .. MaxRequests
    /\ iat \in [Pairs -> {Unminted} \cup (0 .. MaxTime)]
    /\ held \subseteq Pairs /\ recorded \subseteq Pairs /\ dismissed \subseteq Pairs
    /\ ended \subseteq Tokens
    /\ black \in [Tokens -> 0 .. Horizon]
    /\ hash \in [Pairs -> 0 .. Forever] /\ zset \in [Pairs -> 0 .. Horizon]
    /\ user \in [Users -> [exists : BOOLEAN, suspended : BOOLEAN, suspAt : 0 .. MaxTime]]
    /\ req \in [Requests -> [pc : Pcs, op : Ops, who : Users \cup {"none"},
                             tok : Pairs \cup {NoPair}, tgt : Pairs \cup {NoPair},
                             seen : {"no", "live", "blind"}, late : BOOLEAN,
                             cut : BOOLEAN, hit : BOOLEAN, todo : SUBSET Pairs]]

Init ==
    /\ now = 0 /\ failAt = 0 /\ faults = 0 /\ started = 0
    /\ iat = [p \in Pairs |-> Unminted]
    /\ held = {} /\ ended = {} /\ recorded = {} /\ dismissed = {}
    /\ black = [t \in Tokens |-> 0]
    /\ hash = [p \in Pairs |-> 0] /\ zset = [p \in Pairs |-> 0]
    /\ user = [u \in Users |-> [exists |-> TRUE, suspended |-> FALSE, suspAt |-> 0]]
    /\ req = [r \in Requests |-> NoReq]

-----------------------------------------------------------------------------
(* Steps of a request.                                                     *)

Goto(r, l)  == req' = [req EXCEPT ![r].pc = l]
Finish(r)   == req' = [req EXCEPT ![r] = NoReq]
(* The answer carries the new pair to the client.                          *)
Deliver(r)  == Finish(r) /\ held' = held \cup {req[r].tgt}

RedisOk    == UNCHANGED faults
RedisFails == faults < MaxFaults /\ faults' = faults + 1

MarkSuccess == failAt' = 0
MarkFailure == failAt' = now

(* The token a request presents.                                           *)
Token(r) == IF req[r].op = "refresh" THEN Refresh(req[r].tok) ELSE Access(req[r].tok)

(* One more request; the bound stops the clients.                          *)
NewRequest(r) ==
    /\ req[r].pc = "idle" /\ started < MaxRequests
    /\ started' = started + 1

(* A request with a token: decode_token refuses an expired one at once.    *)
(* late and cut note what was known of the token when the request came.    *)
Present(r, op, p, q) ==
    /\ NewRequest(r) /\ p \in held
    /\ LET t == IF op = "refresh" THEN Refresh(p) ELSE Access(p) IN
       /\ ~ Expired(t)
       /\ req' = [req EXCEPT ![r] = [NoReq EXCEPT
                    !.pc = IF op \in {"logout", "logoutboth"} THEN "revoke" ELSE "check",
                    !.op = op, !.who = OwnerOf[p], !.tok = p, !.tgt = q,
                    !.late = t \in ended,
                    !.cut = iat[p] < user[OwnerOf[p]].suspAt]]
    /\ UNCHANGED <<now, failAt, iat, held, redis, user, faults, history>>

(* No token yet.                                                           *)
Arrive(r, u, op) ==
    /\ NewRequest(r)
    /\ req' = [req EXCEPT ![r] = [NoReq EXCEPT !.pc = "user", !.op = op, !.who = u]]
    /\ UNCHANGED <<now, failAt, iat, held, redis, user, faults, history>>

(* POST /auth/login, and an OAuth callback once it has found the account   *)
(* of its provider (Accounts has how).                                     *)
StartLogin(r, u) == Arrive(r, u, "login")
OauthFound(r, u) == user[u].exists /\ Arrive(r, u, "oauth")

(* GET /me/sessions, DELETE /me/sessions/{jti}, GET /me, DELETE /me,       *)
(* POST /auth/refresh and POST /auth/logout.  A jti can be named once it   *)
(* was listed.                                                             *)
StartMe(r, p)      == Present(r, "me", p, NoPair)
StartList(r, p)    == Present(r, "list", p, NoPair)
StartLeave(r, p)   == Present(r, "leave", p, p)
StartRefresh(r, p) == Present(r, "refresh", p, NoPair)
StartLogout(r, p)  == Present(r, "logout", p, p) \/ Present(r, "logoutboth", p, p)
StartKill(r, p)    ==
    \E q \in Pairs : /\ q \in held \/ zset[q] # 0
                     /\ Present(r, "kill", p, q)

(* is_revoked: skipped while the breaker is open, and False when Redis     *)
(* does not answer.                                                        *)
IsRevoked(r) ==
    /\ req[r].pc = "check"
    /\ \/ /\ CbOpen
          /\ req' = [req EXCEPT ![r].pc = "user", ![r].seen = "blind"]
          /\ UNCHANGED failAt /\ RedisOk
       \/ /\ ~ CbOpen /\ InBlack(Token(r))
          /\ Finish(r) /\ MarkSuccess /\ RedisOk
       \/ /\ ~ CbOpen /\ ~ InBlack(Token(r))
          /\ req' = [req EXCEPT ![r].pc = "user", ![r].seen = "live"]
          /\ MarkSuccess /\ RedisOk
       \/ /\ ~ CbOpen
          /\ req' = [req EXCEPT ![r].pc = "user", ![r].seen = "blind"]
          /\ MarkFailure /\ RedisFails
    /\ UNCHANGED <<started, now, iat, held, redis, user, history>>

(* A mutant: only the present state of the account counts.                 *)
EnforcedNow(r) == user[req[r].who].exists /\ ~ user[req[r].who].suspended

(* A login by password: the account is there and not suspended.            *)
MayLogin(u) == u.exists /\ ~ u.suspended

(* An OAuth callback only refuses a suspended account: one that has been   *)
(* deleted since it was found gets its tokens.                             *)
MayCallBack(u) == ~ (u.exists /\ u.suspended)

(* _enforce_not_suspended and its twin in get_current_user, which compares *)
(* the token's iat as well.                                                *)
Enforced(r) ==
    LET u == user[req[r].who] IN
    CASE req[r].op = "login" -> MayLogin(u)
      [] req[r].op = "oauth" -> MayCallBack(u)
      [] OTHER               -> MayLogin(u) /\ iat[req[r].tok] >= u.suspAt

AfterUser(op) ==
    CASE op \in {"login", "oauth"} -> "mint"
      [] op = "refresh" -> "revoke"
      [] op = "list"    -> "purge"
      [] op = "kill"    -> "owner"
      [] op = "leave"   -> "drop"
      [] OTHER          -> "idle"

(* get_user_by_email, with what the callers check of the node.             *)
ReadUser(r) ==
    /\ req[r].pc = "user"
    /\ IF Enforced(r) /\ AfterUser(req[r].op) # "idle"
       THEN Goto(r, AfterUser(req[r].op))
       ELSE Finish(r)
    /\ UNCHANGED <<started, now, failAt, iat, held, redis, user, faults, history>>

(* create_access_token and create_refresh_token.  touch_last_active writes *)
(* nothing that is read here.                                              *)
Fresh(u) == {p \in Pairs : OwnerOf[p] = u /\ iat[p] = Unminted}
NextPair(r) == CHOOSE p \in Fresh(req[r].who) : TRUE
Minted(r) ==
    /\ req[r].pc = "mint" /\ Fresh(req[r].who) # {}
    /\ iat' = [iat EXCEPT ![NextPair(r)] = now]
    /\ UNCHANGED <<started, now, failAt, redis, user, faults, history>>

(* login and refresh_access_token: the session is recorded next.           *)
Mint(r) ==
    /\ req[r].op # "oauth" /\ Minted(r)
    /\ req' = [req EXCEPT ![r].pc = "hset", ![r].tgt = NextPair(r)]
    /\ UNCHANGED held

(* The OAuth callbacks redirect with their tokens and record no session.   *)
OauthTokens(r) ==
    /\ req[r].op = "oauth" /\ Minted(r)
    /\ Finish(r) /\ held' = held \cup {NextPair(r)}

(* record_session: HSET, EXPIREAT, ZADD; a failure is logged and the       *)
(* answer goes out all the same.                                           *)
RecordHash(r) ==
    /\ req[r].pc = "hset"
    /\ \/ /\ RedisOk /\ hash' = [hash EXCEPT ![req[r].tgt] = Forever]
          /\ Goto(r, "expireat") /\ UNCHANGED held
       \/ RedisFails /\ Deliver(r) /\ UNCHANGED hash
    /\ UNCHANGED <<started, now, failAt, iat, black, zset, user, history>>

RecordExpiry(r) ==
    /\ req[r].pc = "expireat"
    /\ LET p == req[r].tgt IN
       \/ /\ RedisOk /\ hash' = [hash EXCEPT ![p] = IF HasHash(p) THEN Exp(Access(p)) ELSE 0]
          /\ Goto(r, "zadd") /\ UNCHANGED held
       \/ RedisFails /\ Deliver(r) /\ UNCHANGED hash
    /\ UNCHANGED <<started, now, failAt, iat, black, zset, user, history>>

RecordIndex(r) ==
    /\ req[r].pc = "zadd"
    /\ LET p == req[r].tgt IN
       \/ /\ RedisOk /\ zset' = [zset EXCEPT ![p] = Exp(Access(p))]
          /\ recorded' = recorded \cup {p}
       \/ RedisFails /\ UNCHANGED <<zset, recorded>>
    /\ Deliver(r)
    /\ UNCHANGED <<started, now, failAt, iat, black, hash, user, ended, dismissed>>

(* A mutant: the index entry is written before the hash it points to.      *)
RecordIndexFirst(r) ==
    /\ LET p == req[r].tgt IN
       \/ /\ req[r].pc = "hset" /\ zset' = [zset EXCEPT ![p] = Exp(Access(p))]
          /\ Goto(r, "expireat") /\ UNCHANGED <<hash, held, recorded>>
       \/ /\ req[r].pc = "expireat" /\ hash' = [hash EXCEPT ![p] = Exp(Access(p))]
          /\ recorded' = recorded \cup {p}
          /\ Deliver(r) /\ UNCHANGED zset
    /\ UNCHANGED <<started, now, failAt, iat, black, user, faults, ended, dismissed>>

RecordSession(r) == RecordHash(r) \/ RecordExpiry(r) \/ RecordIndex(r)

-----------------------------------------------------------------------------
(* Revocation.                                                             *)

(* SET with ex = max(1, exp - now).                                        *)
KeyUntil(exp) == IF exp - now > 1 THEN exp ELSE now + 1

AfterRevoke(op) ==
    CASE op = "refresh"    -> "mint"
      [] op = "logoutboth" -> "revokerefresh"
      [] OTHER             -> "hget"

(* A mutant: a killed session stays on the list for a second only.         *)
RevokedBriefly(r, t) == KeyUntil(IF req[r].op = "kill" THEN now + 1 ELSE Exp(t))

(* A kill does not know the token's exp and takes an hour from now.        *)
RevokedUntil(r, t) == KeyUntil(IF req[r].op = "kill" THEN now + KillLife ELSE Exp(t))

(* The removal of the session follows the revocation, whatever became of   *)
(* the latter.                                                             *)
Dismiss(r, l) ==
    dismissed' = IF l = "hget" THEN dismissed \cup {req[r].tgt} ELSE dismissed

(* revoke_if_new, and revoke for a kill: nothing is stored while the       *)
(* breaker is open; an error ends a kill with a 500 and is otherwise       *)
(* swallowed.                                                              *)
RevokeToken(r, t, l) ==
    /\ \/ /\ CbOpen
          /\ RedisOk /\ UNCHANGED <<failAt, black, ended>>
          /\ Goto(r, l) /\ Dismiss(r, l)
       \/ /\ ~ CbOpen
          /\ RedisOk /\ MarkSuccess
          /\ black' = [black EXCEPT ![t] = RevokedUntil(r, t)]
          /\ ended' = ended \cup {t}
          /\ Goto(r, l) /\ Dismiss(r, l)
       \/ /\ ~ CbOpen
          /\ RedisFails /\ UNCHANGED <<black, ended>>
          /\ IF req[r].op = "kill"
             THEN Finish(r) /\ UNCHANGED <<failAt, dismissed>>
             ELSE Goto(r, l) /\ MarkFailure /\ Dismiss(r, l)
    /\ UNCHANGED <<started, now, iat, held, hash, zset, user, recorded>>

Revoke(r) ==
    /\ req[r].pc = "revoke"
    /\ RevokeToken(r, IF req[r].op = "kill" THEN Access(req[r].tgt) ELSE Token(r),
                   AfterRevoke(req[r].op))

(* The refresh token in the body of a logout is decoded leniently, so an   *)
(* expired one is revoked as well.                                         *)
RevokeRefresh(r) ==
    /\ req[r].pc = "revokerefresh"
    /\ RevokeToken(r, Refresh(req[r].tok), "hget")

(* get_session_email: no answer from Redis reads like no session; somebody *)
(* else's session is a 404.                                                *)
SessionOwner(r) ==
    /\ req[r].pc = "owner"
    /\ \/ /\ RedisOk
          /\ IF HasHash(req[r].tgt) /\ OwnerOf[req[r].tgt] = req[r].who
             THEN Goto(r, "revoke") ELSE Finish(r)
       \/ RedisFails /\ Finish(r)
    /\ UNCHANGED <<started, now, failAt, iat, held, redis, user, history>>

(* unregister_session: HGET email, DEL, and ZREM when an email was found.  *)
Unregister(r) ==
    /\ LET p == req[r].tgt IN
       \/ /\ req[r].pc = "hget" /\ RedisOk
          /\ req' = [req EXCEPT ![r].pc = "del", ![r].hit = HasHash(p)]
          /\ UNCHANGED <<hash, zset>>
       \/ /\ req[r].pc = "del" /\ RedisOk
          /\ hash' = [hash EXCEPT ![p] = 0] /\ UNCHANGED zset
          /\ IF req[r].hit THEN Goto(r, "zrem") ELSE Finish(r)
       \/ /\ req[r].pc = "zrem" /\ RedisOk
          /\ zset' = [zset EXCEPT ![p] = 0] /\ UNCHANGED hash
          /\ Finish(r)
       \/ /\ req[r].pc \in {"hget", "del", "zrem"} /\ RedisFails
          /\ Finish(r) /\ UNCHANGED <<hash, zset>>
    /\ UNCHANGED <<started, now, failAt, iat, held, black, user, history>>

(* list_sessions: ZREMRANGEBYSCORE, ZRANGE, and for every jti HGETALL and, *)
(* if its hash is gone, ZREM.                                              *)
ListSessions(r) ==
    /\ \/ /\ req[r].pc = "purge" /\ RedisOk
          /\ zset' = [p \in Pairs |-> IF OwnerOf[p] = req[r].who /\ zset[p] <= now
                                      THEN 0 ELSE zset[p]]
          /\ Goto(r, "range")
       \/ /\ req[r].pc = "range" /\ RedisOk /\ UNCHANGED zset
          /\ req' = [req EXCEPT ![r].pc = "visit",
                        ![r].todo = {p \in Pairs : OwnerOf[p] = req[r].who /\ zset[p] # 0}]
       \/ /\ req[r].pc = "visit" /\ RedisOk /\ UNCHANGED zset
          /\ \E p \in req[r].todo :
                req' = [req EXCEPT ![r].todo = @ \ {p},
                          ![r].tgt = IF HasHash(p) THEN NoPair ELSE p,
                          ![r].pc = IF HasHash(p) THEN "visit" ELSE "forget"]
       \/ /\ req[r].pc = "forget" /\ RedisOk
          /\ zset' = [zset EXCEPT ![req[r].tgt] = 0]
          /\ req' = [req EXCEPT ![r].pc = "visit", ![r].tgt = NoPair]
       \/ /\ req[r].pc = "visit" /\ req[r].todo = {}
          /\ RedisOk /\ Finish(r) /\ UNCHANGED zset
       \/ /\ req[r].pc \in {"purge", "range", "visit", "forget"}
          /\ RedisFails /\ Finish(r) /\ UNCHANGED zset
    /\ UNCHANGED <<started, now, failAt, iat, held, black, hash, user, history>>

(* DELETE /me: once the User node is gone the route calls logout(token),   *)
(* which decodes the access token strictly.                                *)
DropUser(r) ==
    /\ req[r].pc = "drop"
    /\ user' = [user EXCEPT ![req[r].who].exists = FALSE]
    /\ IF Expired(Token(r)) THEN Finish(r) ELSE Goto(r, "revoke")
    /\ UNCHANGED <<started, now, failAt, iat, held, redis, faults, history>>

-----------------------------------------------------------------------------
(* The administration suspends an account and lifts the suspension;        *)
(* suspended_at keeps the date.                                            *)
Suspend(u) ==
    /\ user[u].exists /\ ~ user[u].suspended /\ now > 0
    /\ started < MaxRequests /\ started' = started + 1
    /\ user' = [user EXCEPT ![u].suspended = TRUE, ![u].suspAt = now]
    /\ UNCHANGED <<now, failAt, iat, held, redis, req, faults, history>>

Unsuspend(u) ==
    /\ user[u].exists /\ user[u].suspended
    /\ user' = [user EXCEPT ![u].suspended = FALSE]
    /\ UNCHANGED <<started, now, failAt, iat, held, redis, req, faults, history>>

Tick ==
    /\ now < MaxTime
    /\ now' = now + 1
    /\ UNCHANGED <<started, failAt, iat, held, redis, user, req, faults, history>>

Start(r) ==
    \/ \E u \in Users : StartLogin(r, u) \/ OauthFound(r, u)
    \/ \E p \in Pairs : \/ StartMe(r, p) \/ StartList(r, p) \/ StartLeave(r, p)
                        \/ StartRefresh(r, p) \/ StartLogout(r, p) \/ StartKill(r, p)

Proceed(r) ==
    \/ IsRevoked(r) \/ ReadUser(r) \/ Mint(r) \/ OauthTokens(r) \/ RecordSession(r) \/ Revoke(r)
    \/ RevokeRefresh(r) \/ SessionOwner(r) \/ Unregister(r) \/ ListSessions(r)
    \/ DropUser(r)

Next ==
    \/ \E r \in Requests : Start(r) \/ Proceed(r)
    \/ \E u \in Users : Suspend(u) \/ Unsuspend(u)
    \/ Tick

Spec == Init /\ [][Next]_vars

-----------------------------------------------------------------------------
(* Once the revocation of a token is stored (logout, rotation of a refresh *)
(* token, kill of a session, account deletion), a request that comes later *)
(* with that token never passes is_revoked on an answer of Redis: it       *)
(* passes only when the breaker is open, Redis fails or the token expired  *)
(* between its decoding and the look-up.  The key must not expire before   *)
(* the token does, a kill's hour included, and a repeated revocation must  *)
(* not shorten it.                                                         *)
RevokedIsDead ==
    \A r \in Requests :
        req[r].late /\ req[r].seen = "live" => Expired(Token(r))

(* A session that was recorded completely is listed (index entry and hash) *)
(* as long as its access token lives and nobody dismisses it: neither      *)
(* another session's logout or kill nor the clean-up in list_sessions,     *)
(* which drops entries whose hash it does not find, may take it away.      *)
LiveSessionListed ==
    \A p \in recorded : ~ Expired(Access(p)) /\ p \notin dismissed
                            => HasHash(p) /\ zset[p] > now

(* A token that was minted before its account's suspension gets no further *)
(* than the read of the User node, also after the suspension was lifted,   *)
(* unless the request came before the suspension; and a session is revoked *)
(* or removed only on behalf of its own user.                              *)
CutOffStaysOut ==
    \A r \in Requests :
        /\ req[r].cut /\ req[r].op \notin {"logout", "logoutboth"}
               => req[r].pc \in {"check", "user"}
        /\ req[r].pc \in {"revoke", "revokerefresh", "hget", "del", "zrem"}
               /\ req[r].tgt # NoPair => OwnerOf[req[r].tgt] = req[r].who

=============================================================================
