--------------------------- MODULE SessionsProofs ---------------------------
(***************************************************************************)
(* Proofs about Sessions for any users, tokens, lifetimes and number of    *)
(* failing Redis commands.  The argument: time only passes and what is     *)
(* noted of tokens only grows, so what a request learned of its token or   *)
(* of a session still holds at its later steps.                            *)
(***************************************************************************)
EXTENDS Sessions, TLAPS

Reqs == [pc : Pcs, op : Ops, who : Users \cup {"none"},
         tok : Pairs \cup {NoPair}, tgt : Pairs \cup {NoPair},
         seen : {"no", "live", "blind"}, late : BOOLEAN,
         cut : BOOLEAN, hit : BOOLEAN, todo : SUBSET Pairs]

Bearing   == {"refresh", "me", "list", "kill", "logout", "logoutboth", "leave"}
Recording == {"hset", "expireat", "zadd"}
Removing  == {"hget", "del", "zrem"}

(* Where a request of each kind can be, and whose pairs it names.          *)
Fits(q) ==
    /\ q.op = "none" => q = NoReq
    /\ q.op # "none" => q.who \in Users /\ q.pc # "idle"
    /\ q.op \in Bearing => q.tok \in Pairs /\ q.who = OwnerOf[q.tok]
    /\ q.op \notin Bearing => ~ q.late /\ ~ q.cut /\ q.tok = NoPair
    /\ q.op = "login" => q.pc \in {"user", "mint"} \cup Recording
    /\ q.op = "oauth" => q.pc \in {"user", "mint"}
    /\ q.op = "refresh" => q.pc \in {"check", "user", "revoke", "mint"} \cup Recording
    /\ q.op = "refresh" /\ q.pc = "revoke" => q.tgt = NoPair
    /\ q.op = "refresh" /\ q.pc \in {"check", "user"} => q.tgt = NoPair
    /\ q.op = "me" => q.pc \in {"check", "user"}
    /\ q.op = "list" => q.pc \in {"check", "user", "purge", "range", "visit", "forget"}
    /\ q.op = "kill" =>
          /\ q.pc \in {"check", "user", "owner", "revoke"} \cup Removing
          /\ q.tgt \in Pairs
          /\ q.pc \in {"revoke"} \cup Removing => OwnerOf[q.tgt] = q.who
    /\ q.op \in {"leave", "logout", "logoutboth"} => q.tgt = q.tok
    /\ q.op = "leave" => q.pc \in {"check", "user", "drop", "revoke"} \cup Removing
    /\ q.op \in {"logout", "logoutboth"} => q.pc \in {"revoke", "revokerefresh"} \cup Removing
    /\ q.pc \in Recording \cup {"forget"} => q.tgt \in Pairs

Shape == \A r \in Requests : Fits(req[r])

-----------------------------------------------------------------------------
(* Times.                                                                  *)

LEMMA TimesTyped ==
  /\ Horizon \in Nat /\ Forever = Horizon + 1
  /\ MaxTime <= Horizon /\ MaxTime + 1 <= Horizon
  /\ MaxTime + AccessLife <= Horizon
  /\ MaxTime + RefreshLife <= Horizon
  /\ MaxTime + KillLife <= Horizon
BY ConstantsAssumption DEF Horizon, Forever

LEMMA ExpTyped ==
  ASSUME TypeOK, NEW t \in Tokens
  PROVE  Exp(t) \in 0 .. Horizon
<1>1. t[1] \in Pairs /\ t[2] \in {"access", "refresh"}
  BY DEF Tokens
<1>2. iat[t[1]] \in Int /\ -1 <= iat[t[1]] /\ iat[t[1]] <= MaxTime
  BY <1>1, ConstantsAssumption DEF TypeOK, Unminted
<1>3. Life(t[2]) \in Nat \ {0} /\ MaxTime + Life(t[2]) <= Horizon
  BY <1>1, TimesTyped, ConstantsAssumption DEF Life
<1> QED
  BY <1>2, <1>3, TimesTyped, ConstantsAssumption DEF Exp

LEMMA RevokedUntilTyped ==
  ASSUME TypeOK, NEW r \in Requests, NEW t \in Tokens
  PROVE  RevokedUntil(r, t) \in 0 .. Horizon
<1>1. now \in Nat /\ now <= MaxTime
  BY ConstantsAssumption DEF TypeOK
<1>2. now + KillLife \in 0 .. Horizon /\ now + 1 \in 0 .. Horizon
  BY <1>1, TimesTyped, ConstantsAssumption
<1> QED
  BY <1>2, ExpTyped DEF RevokedUntil, KeyUntil

-----------------------------------------------------------------------------
(* Steps of a request.                                                     *)

LEMMA IdleFits == NoReq \in Reqs /\ Fits(NoReq)
<1>1. NoReq \in Reqs
  BY DEF NoReq, Reqs, Pcs, Ops
<1>2. Fits(NoReq)
  BY DEF NoReq, Fits, Bearing, Recording, Removing
<1> QED
  BY <1>1, <1>2

LEMMA MoveEffect ==
  ASSUME TypeOK, Shape, NEW r \in Requests, NEW q \in Reqs, Fits(q),
         req' = [req EXCEPT ![r] = q]
  PROVE  /\ req' \in [Requests -> Reqs] /\ Shape'
         /\ req'[r] = q
         /\ \A x \in Requests \ {r} : req'[x] = req[x]
<1>1. req \in [Requests -> Reqs]
  BY DEF TypeOK, Reqs
<1>2. req' \in [Requests -> Reqs] /\ req'[r] = q
  BY <1>1
<1>3. \A x \in Requests \ {r} : req'[x] = req[x]
  BY <1>1
<1>4. \A x \in Requests : Fits(req'[x])
  BY <1>2, <1>3 DEF Shape
<1> QED
  BY <1>2, <1>3, <1>4 DEF Shape, Fits

LEMMA FinishEffect ==
  ASSUME TypeOK, Shape, NEW r \in Requests, Finish(r)
  PROVE  /\ req' \in [Requests -> Reqs] /\ Shape'
         /\ req'[r] = NoReq
         /\ \A x \in Requests \ {r} : req'[x] = req[x]
BY IdleFits, MoveEffect DEF Finish

(* The ways a request starts.                                              *)
Named(op, p, q) ==
    \/ op \in {"me", "list", "refresh"} /\ q = NoPair
    \/ op \in {"leave", "logout", "logoutboth"} /\ q = p
    \/ op = "kill" /\ q \in Pairs /\ (q \in held \/ zset[q] # 0)

LEMMA StartCases ==
  ASSUME NEW r \in Requests, Start(r)
  PROVE  \/ \E u \in Users, op \in {"login", "oauth"} : Arrive(r, u, op)
         \/ \E op \in Bearing, p \in Pairs, q \in Pairs \cup {NoPair} :
               Named(op, p, q) /\ Present(r, op, p, q)
<1>1. CASE \E u \in Users : StartLogin(r, u) \/ OauthFound(r, u)
  BY <1>1 DEF StartLogin, OauthFound
<1>2. ASSUME NEW p \in Pairs, StartMe(r, p) \/ StartList(r, p) \/ StartRefresh(r, p)
      PROVE  \E op \in Bearing, q \in Pairs \cup {NoPair} :
                Named(op, p, q) /\ Present(r, op, p, q)
  BY <1>2 DEF StartMe, StartList, StartRefresh, Named, Bearing
<1>3. ASSUME NEW p \in Pairs, StartLeave(r, p) \/ StartLogout(r, p)
      PROVE  \E op \in Bearing, q \in Pairs \cup {NoPair} :
                Named(op, p, q) /\ Present(r, op, p, q)
  BY <1>3 DEF StartLeave, StartLogout, Named, Bearing
<1>4. ASSUME NEW p \in Pairs, StartKill(r, p)
      PROVE  \E op \in Bearing, q \in Pairs \cup {NoPair} :
                Named(op, p, q) /\ Present(r, op, p, q)
  BY <1>4 DEF StartKill, Named, Bearing
<1> QED
  BY <1>1, <1>2, <1>3, <1>4 DEF Start

(* A request as it comes.                                                  *)
Arrived(u, op) == [NoReq EXCEPT !.pc = "user", !.op = op, !.who = u]

Presented(op, p, q, late, cut) ==
    [NoReq EXCEPT !.pc = IF op \in {"logout", "logoutboth"} THEN "revoke" ELSE "check",
                  !.op = op, !.who = OwnerOf[p], !.tok = p, !.tgt = q,
                  !.late = late, !.cut = cut]

TokenOf(op, p) == IF op = "refresh" THEN Refresh(p) ELSE Access(p)

LEMMA ArriveEffect ==
  ASSUME TypeOK, Shape, NEW r \in Requests, NEW u \in Users, NEW op \in {"login", "oauth"},
         Arrive(r, u, op)
  PROVE  /\ req' \in [Requests -> Reqs] /\ Shape'
         /\ req'[r] = Arrived(u, op)
         /\ \A x \in Requests \ {r} : req'[x] = req[x]
<1>1. Arrived(u, op) \in Reqs
  BY DEF Arrived, NoReq, Reqs, Pcs, Ops
<1>2. Fits(Arrived(u, op))
  BY DEF Arrived, NoReq, Fits, Bearing, Recording, Removing
<1>3. req' = [req EXCEPT ![r] = Arrived(u, op)]
  BY DEF Arrive, Arrived
<1> QED
  BY <1>1, <1>2, <1>3, MoveEffect

LEMMA PresentEffect ==
  ASSUME TypeOK, Shape, NEW r \in Requests, NEW op \in Bearing, NEW p \in Pairs,
         NEW q \in Pairs \cup {NoPair}, Named(op, p, q), Present(r, op, p, q)
  PROVE  /\ req' \in [Requests -> Reqs] /\ Shape'
         /\ req'[r] = Presented(op, p, q, TokenOf(op, p) \in ended,
                                iat[p] < user[OwnerOf[p]].suspAt)
         /\ \A x \in Requests \ {r} : req'[x] = req[x]
<1>1. \A late, cut \in BOOLEAN :
         Presented(op, p, q, late, cut) \in Reqs /\ Fits(Presented(op, p, q, late, cut))
  <2> SUFFICES ASSUME NEW late \in BOOLEAN, NEW cut \in BOOLEAN
               PROVE  /\ Presented(op, p, q, late, cut) \in Reqs
                      /\ Fits(Presented(op, p, q, late, cut))
    OBVIOUS
  <2>1. OwnerOf[p] \in Users
    BY ConstantsAssumption
  <2>2. Presented(op, p, q, late, cut) \in Reqs
    <3> DEFINE l == IF op \in {"logout", "logoutboth"} THEN "revoke" ELSE "check"
               n == [NoReq EXCEPT !.pc = l, !.op = op, !.who = OwnerOf[p], !.tok = p, !.tgt = q]
    <3>1. l \in Pcs /\ op \in Ops
      BY DEF Pcs, Ops, Bearing
    <3>2. Presented(op, p, q, late, cut) = [n EXCEPT !.late = late, !.cut = cut]
      BY DEF Presented
    <3> HIDE DEF l
    <3>3. n \in Reqs
      BY <2>1, <3>1, IdleFits DEF Reqs
    <3> HIDE DEF n
    <3> QED
      BY <3>2, <3>3 DEF Reqs
  <2>3. Fits(Presented(op, p, q, late, cut))
    BY <2>1 DEF Presented, NoReq, Fits, Bearing, Recording, Removing, Named
  <2> QED
    BY <2>2, <2>3
<1>2. /\ (TokenOf(op, p) \in ended) \in BOOLEAN
      /\ (iat[p] < user[OwnerOf[p]].suspAt) \in BOOLEAN
  OBVIOUS
<1>3. req' = [req EXCEPT ![r] = Presented(op, p, q, TokenOf(op, p) \in ended,
                                          iat[p] < user[OwnerOf[p]].suspAt)]
  BY DEF Present, Presented, TokenOf
<1> QED
  BY <1>1, <1>2, <1>3, MoveEffect

LEMMA PresentFields ==
  ASSUME TypeOK, Shape, NEW r \in Requests, NEW op \in Bearing, NEW p \in Pairs,
         NEW q \in Pairs \cup {NoPair}, Named(op, p, q), Present(r, op, p, q)
  PROVE  /\ req'[r].pc = IF op \in {"logout", "logoutboth"} THEN "revoke" ELSE "check"
         /\ req'[r].op = op /\ req'[r].who = OwnerOf[p] /\ req'[r].tok = p
         /\ req'[r].tgt = q /\ req'[r].seen = "no" /\ req'[r].todo = {}
         /\ req'[r].late => TokenOf(op, p) \in ended
         /\ req'[r].cut => iat[p] < user[OwnerOf[p]].suspAt
<1>1. req'[r] = Presented(op, p, q, TokenOf(op, p) \in ended,
                          iat[p] < user[OwnerOf[p]].suspAt)
  BY PresentEffect
<1>2. /\ req'[r].pc = IF op \in {"logout", "logoutboth"} THEN "revoke" ELSE "check"
      /\ req'[r].op = op /\ req'[r].who = OwnerOf[p] /\ req'[r].tok = p
      /\ req'[r].tgt = q /\ req'[r].seen = "no" /\ req'[r].todo = {}
  BY <1>1 DEF Presented, NoReq
<1>3. req'[r].late => TokenOf(op, p) \in ended
  BY <1>1, Zenon DEF Presented, NoReq
<1>4. req'[r].cut => iat[p] < user[OwnerOf[p]].suspAt
  BY <1>1, Zenon DEF Presented, NoReq
<1> QED
  BY <1>2, <1>3, <1>4

LEMMA ArriveFields ==
  ASSUME TypeOK, Shape, NEW r \in Requests, NEW u \in Users, NEW op \in {"login", "oauth"},
         Arrive(r, u, op)
  PROVE  /\ req'[r].pc = "user" /\ req'[r].op = op /\ req'[r].who = u
         /\ req'[r].tok = NoPair /\ req'[r].tgt = NoPair /\ req'[r].todo = {}
         /\ ~ req'[r].late /\ ~ req'[r].cut
<1>1. req'[r] = Arrived(u, op)
  BY ArriveEffect
<1>2. /\ req'[r].pc = "user" /\ req'[r].op = op /\ req'[r].who = u
      /\ req'[r].tok = NoPair /\ req'[r].tgt = NoPair /\ req'[r].todo = {}
  BY <1>1 DEF Arrived, NoReq
<1>3. ~ req'[r].late
  BY <1>1 DEF Arrived, NoReq
<1>4. ~ req'[r].cut
  BY <1>1 DEF Arrived, NoReq
<1> QED
  BY <1>2, <1>3, <1>4

(* What every further step of a request does to the table of requests.     *)
Onward(r) ==
    /\ req' \in [Requests -> Reqs] /\ Shape'
    /\ \A x \in Requests \ {r} : req'[x] = req[x]
    /\ \/ req'[r] = NoReq
       \/ /\ req'[r].op = req[r].op /\ req'[r].who = req[r].who
          /\ req'[r].tok = req[r].tok
          /\ req'[r].late = req[r].late /\ req'[r].cut = req[r].cut

LEMMA FinishOnward ==
  ASSUME TypeOK, Shape, NEW r \in Requests, Finish(r)
  PROVE  Onward(r)
BY FinishEffect DEF Onward

LEMMA MoveOnward ==
  ASSUME TypeOK, Shape, NEW r \in Requests, NEW q \in Reqs, Fits(q),
         q.op = req[r].op, q.who = req[r].who, q.tok = req[r].tok,
         q.late = req[r].late, q.cut = req[r].cut,
         req' = [req EXCEPT ![r] = q]
  PROVE  Onward(r)
<1>1. /\ req' \in [Requests -> Reqs] /\ Shape'
      /\ req'[r] = q
      /\ \A x \in Requests \ {r} : req'[x] = req[x]
  BY MoveEffect
<1> QED
  BY <1>1 DEF Onward

LEMMA GotoOnward ==
  ASSUME TypeOK, Shape, NEW r \in Requests, NEW l \in Pcs, Goto(r, l),
         Fits([req[r] EXCEPT !.pc = l])
  PROVE  Onward(r)
<1>1. req' = [req EXCEPT ![r] = [req[r] EXCEPT !.pc = l]]
  BY DEF Goto
<1>2. req[r] \in Reqs
  BY DEF TypeOK, Reqs
<1>3. [req[r] EXCEPT !.pc = l] \in Reqs
  BY <1>2 DEF Reqs
<1>4. /\ [req[r] EXCEPT !.pc = l].op = req[r].op
      /\ [req[r] EXCEPT !.pc = l].who = req[r].who
      /\ [req[r] EXCEPT !.pc = l].tok = req[r].tok
      /\ [req[r] EXCEPT !.pc = l].late = req[r].late
      /\ [req[r] EXCEPT !.pc = l].cut = req[r].cut
  BY <1>2 DEF Reqs
<1> QED
  BY <1>1, <1>3, <1>4, MoveOnward

(* Where a request may go from where it is.                                *)
LEMMA GotoFits ==
  ASSUME NEW q \in Reqs, Fits(q), NEW l \in Pcs, q.op # "none",
         \/ /\ q.pc = "user" /\ l = AfterUser(q.op) /\ l # "idle"
         \/ q.pc = "hset" /\ l = "expireat"
         \/ q.pc = "expireat" /\ l = "zadd"
         \/ q.pc = "revoke" /\ l = AfterRevoke(q.op)
         \/ q.pc = "revokerefresh" /\ l = "hget"
         \/ q.pc = "owner" /\ l = "revoke" /\ OwnerOf[q.tgt] = q.who
         \/ q.pc = "del" /\ l = "zrem"
         \/ q.pc = "purge" /\ l = "range"
         \/ q.pc = "drop" /\ l = "revoke"
  PROVE  Fits([q EXCEPT !.pc = l])
<1> DEFINE n == [q EXCEPT !.pc = l]
<1>1. /\ n.pc = l /\ n.op = q.op /\ n.who = q.who /\ n.tok = q.tok /\ n.tgt = q.tgt
      /\ n.late = q.late /\ n.cut = q.cut
  BY DEF Reqs
<1>2. q.op \in Ops /\ n.op # "none" /\ l # "idle"
  BY <1>1 DEF Reqs, AfterRevoke
<1> HIDE DEF n
<1>3. Fits(n)
  BY <1>1, <1>2 DEF Fits, AfterUser, AfterRevoke, Bearing, Recording, Removing, Ops
<1> QED
  BY <1>3 DEF n

LEMMA ReqTyped ==
  ASSUME TypeOK, Shape, NEW r \in Requests
  PROVE  /\ req[r] \in Reqs /\ Fits(req[r])
         /\ req[r].pc # "idle" => req[r].op # "none"
<1>1. req[r] \in Reqs /\ Fits(req[r])
  BY DEF TypeOK, Reqs, Shape
<1> QED
  BY <1>1 DEF Fits, NoReq

-----------------------------------------------------------------------------
(* Each step keeps the types and the shape of the requests.                *)

LEMMA IsRevokedOnward ==
  ASSUME TypeOK, Shape, NEW r \in Requests, IsRevoked(r)
  PROVE  Onward(r) /\ TypeOK'
<1>1. req[r] \in Reqs /\ Fits(req[r]) /\ req[r].pc = "check" /\ req[r].op # "none"
  BY ReqTyped DEF IsRevoked
<1>2. ASSUME NEW s \in {"live", "blind"}, req' = [req EXCEPT ![r].pc = "user", ![r].seen = s]
      PROVE  Onward(r)
  <2> DEFINE n == [req[r] EXCEPT !.pc = "user", !.seen = s]
  <2>1. req' = [req EXCEPT ![r] = n]
    BY <1>2
  <2>2. n \in Reqs
    BY <1>1 DEF Reqs, Pcs
  <2>3. /\ n.pc = "user" /\ n.op = req[r].op /\ n.who = req[r].who /\ n.tok = req[r].tok
        /\ n.tgt = req[r].tgt /\ n.late = req[r].late /\ n.cut = req[r].cut
    BY <1>1 DEF Reqs
  <2> HIDE DEF n
  <2>4. Fits(n)
    BY <1>1, <2>3 DEF Fits, Bearing, Recording, Removing
  <2> QED
    BY <2>1, <2>2, <2>3, <2>4, MoveOnward
<1>3. Onward(r)
  BY <1>2, FinishOnward DEF IsRevoked
<1>4. failAt' \in 0 .. MaxTime /\ faults' \in 0 .. MaxFaults
  BY ConstantsAssumption
     DEF IsRevoked, TypeOK, RedisOk, RedisFails, MarkSuccess, MarkFailure
<1> QED
  BY <1>3, <1>4 DEF IsRevoked, TypeOK, Onward, Reqs, redis, history

LEMMA ReadUserOnward ==
  ASSUME TypeOK, Shape, NEW r \in Requests, ReadUser(r)
  PROVE  Onward(r) /\ TypeOK'
<1>1. req[r] \in Reqs /\ Fits(req[r]) /\ req[r].pc = "user" /\ req[r].op # "none"
  BY ReqTyped DEF ReadUser
<1>2. AfterUser(req[r].op) \in Pcs
  BY DEF AfterUser, Pcs
<1>3. Onward(r)
  BY <1>1, <1>2, FinishOnward, GotoOnward, GotoFits DEF ReadUser
<1> QED
  BY <1>3 DEF ReadUser, TypeOK, Onward, Reqs, redis, history

LEMMA NextPairFresh ==
  ASSUME NEW r \in Requests, Minted(r)
  PROVE  /\ NextPair(r) \in Pairs /\ iat[NextPair(r)] = Unminted
         /\ OwnerOf[NextPair(r)] = req[r].who
<1>1. NextPair(r) \in Fresh(req[r].who)
  BY DEF Minted, NextPair
<1> QED
  BY <1>1 DEF Fresh

LEMMA MintOnward ==
  ASSUME TypeOK, Shape, NEW r \in Requests, Mint(r)
  PROVE  Onward(r) /\ TypeOK'
<1>1. req[r] \in Reqs /\ Fits(req[r]) /\ req[r].pc = "mint" /\ req[r].op # "none"
  BY ReqTyped DEF Mint, Minted
<1>2. NextPair(r) \in Pairs
  BY NextPairFresh DEF Mint
<1> DEFINE n == [req[r] EXCEPT !.pc = "hset", !.tgt = NextPair(r)]
<1>3. req' = [req EXCEPT ![r] = n]
  BY DEF Mint
<1>4. n \in Reqs
  BY <1>1, <1>2 DEF Reqs, Pcs
<1>5. /\ n.pc = "hset" /\ n.op = req[r].op /\ n.who = req[r].who /\ n.tok = req[r].tok
      /\ n.tgt = NextPair(r) /\ n.late = req[r].late /\ n.cut = req[r].cut
  BY <1>1 DEF Reqs
<1> HIDE DEF n
<1>6. req[r].op \in {"login", "refresh"}
  BY <1>1 DEF Fits, Recording, Removing, Mint, Reqs, Ops
<1>7. Fits(n)
  BY <1>1, <1>2, <1>5, <1>6 DEF Fits, Bearing, Recording, Removing
<1>8. Onward(r)
  BY <1>3, <1>4, <1>5, <1>7, MoveOnward
<1>9. iat' \in [Pairs -> {Unminted} \cup (0 .. MaxTime)]
  BY DEF Mint, Minted, TypeOK
<1> QED
  BY <1>8, <1>9 DEF Mint, Minted, TypeOK, Onward, Reqs, redis, history

LEMMA OauthTokensOnward ==
  ASSUME TypeOK, Shape, NEW r \in Requests, OauthTokens(r)
  PROVE  Onward(r) /\ TypeOK'
<1>1. NextPair(r) \in Pairs
  BY NextPairFresh DEF OauthTokens
<1>2. Onward(r)
  BY FinishOnward DEF OauthTokens
<1>3. iat' \in [Pairs -> {Unminted} \cup (0 .. MaxTime)]
  BY DEF OauthTokens, Minted, TypeOK
<1>4. held' \subseteq Pairs
  BY <1>1 DEF OauthTokens, TypeOK
<1> QED
  BY <1>2, <1>3, <1>4 DEF OauthTokens, Minted, TypeOK, Onward, Reqs, redis, history

LEMMA RecordHashOnward ==
  ASSUME TypeOK, Shape, NEW r \in Requests, RecordHash(r)
  PROVE  Onward(r) /\ TypeOK'
<1>1. req[r] \in Reqs /\ Fits(req[r]) /\ req[r].pc = "hset" /\ req[r].op # "none"
  BY ReqTyped DEF RecordHash
<1>2. req[r].tgt \in Pairs
  BY <1>1 DEF Fits, Recording
<1>3. "expireat" \in Pcs
  BY DEF Pcs
<1>4. Onward(r)
  BY <1>1, <1>3, FinishOnward, GotoOnward, GotoFits DEF RecordHash, Deliver
<1>5. hash' \in [Pairs -> 0 .. Forever]
  BY TimesTyped DEF RecordHash, TypeOK
<1>6. held' \subseteq Pairs /\ faults' \in 0 .. MaxFaults
  BY <1>2, ConstantsAssumption DEF RecordHash, Deliver, RedisOk, RedisFails, TypeOK
<1> QED
  BY <1>4, <1>5, <1>6 DEF RecordHash, TypeOK, Onward, Reqs, history

LEMMA RecordExpiryOnward ==
  ASSUME TypeOK, Shape, NEW r \in Requests, RecordExpiry(r)
  PROVE  Onward(r) /\ TypeOK'
<1>1. req[r] \in Reqs /\ Fits(req[r]) /\ req[r].pc = "expireat" /\ req[r].op # "none"
  BY ReqTyped DEF RecordExpiry
<1>2. req[r].tgt \in Pairs
  BY <1>1 DEF Fits, Recording
<1>3. "zadd" \in Pcs
  BY DEF Pcs
<1>4. Onward(r)
  BY <1>1, <1>3, FinishOnward, GotoOnward, GotoFits DEF RecordExpiry, Deliver
<1>5. Exp(Access(req[r].tgt)) \in 0 .. Forever
  BY <1>2, ExpTyped, TimesTyped DEF Access, Tokens
<1>6. hash' \in [Pairs -> 0 .. Forever]
  BY <1>5, TimesTyped DEF RecordExpiry, TypeOK
<1>7. held' \subseteq Pairs /\ faults' \in 0 .. MaxFaults
  BY <1>2, ConstantsAssumption DEF RecordExpiry, Deliver, RedisOk, RedisFails, TypeOK
<1> QED
  BY <1>4, <1>6, <1>7 DEF RecordExpiry, TypeOK, Onward, Reqs, history

LEMMA RecordIndexOnward ==
  ASSUME TypeOK, Shape, NEW r \in Requests, RecordIndex(r)
  PROVE  Onward(r) /\ TypeOK'
<1>1. req[r] \in Reqs /\ Fits(req[r]) /\ req[r].pc = "zadd" /\ req[r].op # "none"
  BY ReqTyped DEF RecordIndex
<1>2. req[r].tgt \in Pairs
  BY <1>1 DEF Fits, Recording
<1>3. Onward(r)
  BY FinishOnward DEF RecordIndex, Deliver
<1>4. Exp(Access(req[r].tgt)) \in 0 .. Horizon
  BY <1>2, ExpTyped DEF Access, Tokens
<1>5. zset' \in [Pairs -> 0 .. Horizon]
  BY <1>4 DEF RecordIndex, TypeOK
<1>6. held' \subseteq Pairs /\ recorded' \subseteq Pairs /\ faults' \in 0 .. MaxFaults
  BY <1>2, ConstantsAssumption DEF RecordIndex, Deliver, RedisOk, RedisFails, TypeOK
<1> QED
  BY <1>3, <1>5, <1>6 DEF RecordIndex, TypeOK, Onward, Reqs

LEMMA RevokeTokenOnward ==
  ASSUME TypeOK, Shape, NEW r \in Requests, NEW t \in Tokens, NEW l \in Pcs,
         RevokeToken(r, t, l), req[r].op # "none",
         l = "hget" => req[r].tgt \in Pairs,
         \/ req[r].pc = "revoke" /\ l = AfterRevoke(req[r].op)
         \/ req[r].pc = "revokerefresh" /\ l = "hget"
  PROVE  Onward(r) /\ TypeOK'
<1>1. req[r] \in Reqs /\ Fits(req[r])
  BY ReqTyped
<1>2. Fits([req[r] EXCEPT !.pc = l])
  BY <1>1, GotoFits
<1>3. Onward(r)
  BY <1>2, FinishOnward, GotoOnward DEF RevokeToken
<1>4. black' \in [Tokens -> 0 .. Horizon] /\ ended' \subseteq Tokens
  BY RevokedUntilTyped DEF RevokeToken, TypeOK
<1>5. failAt' \in 0 .. MaxTime /\ faults' \in 0 .. MaxFaults
  BY ConstantsAssumption
     DEF RevokeToken, TypeOK, RedisOk, RedisFails, MarkSuccess, MarkFailure
<1>6. dismissed' \subseteq Pairs
  BY DEF RevokeToken, TypeOK, Dismiss
<1> QED
  BY <1>3, <1>4, <1>5, <1>6 DEF RevokeToken, TypeOK, Onward, Reqs

(* The token that is revoked.                                              *)
LEMMA RevokeIsRevokeToken ==
  ASSUME TypeOK, Shape, NEW r \in Requests, Revoke(r) \/ RevokeRefresh(r)
  PROVE  \E t \in Tokens, l \in Pcs :
            /\ RevokeToken(r, t, l) /\ req[r].op # "none"
            /\ l = "hget" => req[r].tgt \in Pairs
            /\ \/ req[r].pc = "revoke" /\ l = AfterRevoke(req[r].op)
               \/ req[r].pc = "revokerefresh" /\ l = "hget"
            /\ t[1] \in {req[r].tok, req[r].tgt}
            /\ req[r].op = "kill" => t[2] = "access"
<1>1. req[r] \in Reqs /\ Fits(req[r]) /\ req[r].op # "none"
  BY ReqTyped DEF Revoke, RevokeRefresh
<1>2. \A p \in Pairs : Access(p) \in Tokens /\ Refresh(p) \in Tokens
  BY DEF Access, Refresh, Tokens
<1>3. CASE Revoke(r)
  <2>1. req[r].op \in {"refresh", "kill", "leave", "logout", "logoutboth"}
    BY <1>1, <1>3 DEF Revoke, Fits, Recording, Removing, Reqs, Ops
  <2>2. req[r].tok \in Pairs /\ (req[r].op # "refresh" => req[r].tgt \in Pairs)
    BY <1>1, <2>1 DEF Fits, Bearing
  <2>3. AfterRevoke(req[r].op) \in Pcs
    BY <2>1 DEF AfterRevoke, Pcs
  <2>4. AfterRevoke(req[r].op) = "hget" => req[r].tgt \in Pairs
    BY <2>2 DEF AfterRevoke
  <2> DEFINE t == IF req[r].op = "kill" THEN Access(req[r].tgt) ELSE Token(r)
  <2>5. t \in Tokens /\ t[1] \in {req[r].tok, req[r].tgt} /\ (req[r].op = "kill" => t[2] = "access")
    BY <1>2, <2>2 DEF Token, Access, Refresh
  <2>6. RevokeToken(r, t, AfterRevoke(req[r].op)) /\ req[r].pc = "revoke"
    BY <1>3 DEF Revoke
  <2> QED
    BY <1>1, <2>3, <2>4, <2>5, <2>6
<1>4. CASE RevokeRefresh(r)
  <2>1. req[r].op \in {"logout", "logoutboth"}
    BY <1>1, <1>4 DEF RevokeRefresh, Fits, Recording, Removing, Reqs, Ops
  <2>2. req[r].tok \in Pairs /\ req[r].tgt \in Pairs
    BY <1>1, <2>1 DEF Fits, Bearing
  <2>3. "hget" \in Pcs
    BY DEF Pcs
  <2>4. Refresh(req[r].tok) \in Tokens /\ Refresh(req[r].tok)[1] = req[r].tok
    BY <1>2, <2>2 DEF Refresh
  <2>5. RevokeToken(r, Refresh(req[r].tok), "hget") /\ req[r].pc = "revokerefresh"
    BY <1>4 DEF RevokeRefresh
  <2> QED
    BY <1>1, <2>1, <2>2, <2>3, <2>4, <2>5
<1> QED
  BY <1>3, <1>4

LEMMA SessionOwnerOnward ==
  ASSUME TypeOK, Shape, NEW r \in Requests, SessionOwner(r)
  PROVE  Onward(r) /\ TypeOK'
<1>1. req[r] \in Reqs /\ Fits(req[r]) /\ req[r].pc = "owner" /\ req[r].op # "none"
  BY ReqTyped DEF SessionOwner
<1>2. "revoke" \in Pcs
  BY DEF Pcs
<1>3. Onward(r)
  BY <1>1, <1>2, FinishOnward, GotoOnward, GotoFits DEF SessionOwner
<1>4. faults' \in 0 .. MaxFaults
  BY ConstantsAssumption DEF SessionOwner, RedisOk, RedisFails, TypeOK
<1> QED
  BY <1>3, <1>4 DEF SessionOwner, TypeOK, Onward, Reqs, redis, history

LEMMA UnregisterOnward ==
  ASSUME TypeOK, Shape, NEW r \in Requests, Unregister(r)
  PROVE  Onward(r) /\ TypeOK'
<1>1. /\ req[r] \in Reqs /\ Fits(req[r])
      /\ req[r].pc \in {"hget", "del", "zrem"} /\ req[r].op # "none"
  BY ReqTyped DEF Unregister
<1>2. "zrem" \in Pcs
  BY DEF Pcs
<1>3. ASSUME req[r].pc = "hget",
             req' = [req EXCEPT ![r].pc = "del", ![r].hit = HasHash(req[r].tgt)]
      PROVE  Onward(r)
  <2> DEFINE n == [req[r] EXCEPT !.pc = "del", !.hit = HasHash(req[r].tgt)]
  <2>1. req' = [req EXCEPT ![r] = n]
    BY <1>3
  <2>2. HasHash(req[r].tgt) \in BOOLEAN
    BY DEF HasHash
  <2>3. n \in Reqs
    BY <1>1, <2>2 DEF Reqs, Pcs
  <2>4. /\ n.pc = "del" /\ n.op = req[r].op /\ n.who = req[r].who /\ n.tok = req[r].tok
        /\ n.tgt = req[r].tgt /\ n.late = req[r].late /\ n.cut = req[r].cut
    BY <1>1 DEF Reqs
  <2> HIDE DEF n
  <2>5. Fits(n)
    BY <1>1, <1>3, <2>4 DEF Fits, Bearing, Recording, Removing
  <2> QED
    BY <2>1, <2>3, <2>4, <2>5, MoveOnward
<1>4. Onward(r)
  BY <1>1, <1>2, <1>3, FinishOnward, GotoOnward, GotoFits DEF Unregister
<1>5. hash' \in [Pairs -> 0 .. Forever] /\ zset' \in [Pairs -> 0 .. Horizon]
  BY TimesTyped DEF Unregister, TypeOK
<1>6. faults' \in 0 .. MaxFaults
  BY ConstantsAssumption DEF Unregister, RedisOk, RedisFails, TypeOK
<1> QED
  BY <1>4, <1>5, <1>6 DEF Unregister, TypeOK, Onward, Reqs, history

LEMMA ListSessionsOnward ==
  ASSUME TypeOK, Shape, NEW r \in Requests, ListSessions(r)
  PROVE  Onward(r) /\ TypeOK'
<1>1. /\ req[r] \in Reqs /\ Fits(req[r])
      /\ req[r].pc \in {"purge", "range", "visit", "forget"} /\ req[r].op # "none"
  BY ReqTyped DEF ListSessions
<1>2. req[r].op = "list"
  BY <1>1 DEF Fits, Recording, Removing, Reqs, Ops
<1>3. ASSUME NEW l \in {"range", "visit", "forget"}, NEW g \in Pairs \cup {NoPair},
             NEW s \in SUBSET Pairs, l = "forget" => g \in Pairs,
             req' = [req EXCEPT ![r] = [req[r] EXCEPT !.pc = l, !.tgt = g, !.todo = s]]
      PROVE  Onward(r)
  <2> DEFINE n == [req[r] EXCEPT !.pc = l, !.tgt = g, !.todo = s]
  <2>1. n \in Reqs
    BY <1>1 DEF Reqs, Pcs
  <2>2. /\ n.pc = l /\ n.op = req[r].op /\ n.who = req[r].who /\ n.tok = req[r].tok
        /\ n.tgt = g /\ n.late = req[r].late /\ n.cut = req[r].cut
    BY <1>1 DEF Reqs
  <2>3. req' = [req EXCEPT ![r] = n]
    BY <1>3
  <2> HIDE DEF n
  <2>4. Fits(n)
    BY <1>1, <1>2, <1>3, <2>2 DEF Fits, Bearing, Recording, Removing
  <2> QED
    BY <2>1, <2>2, <2>3, <2>4, MoveOnward
<1>4. req[r].tgt \in Pairs \cup {NoPair} /\ req[r].todo \in SUBSET Pairs
  BY <1>1 DEF Reqs
<1>5. ASSUME req[r].pc = "purge", Goto(r, "range") PROVE Onward(r)
  <2>1. "range" \in Pcs
    BY DEF Pcs
  <2> QED
    BY <1>1, <1>5, <2>1, GotoOnward, GotoFits
<1>6. ASSUME NEW s \in SUBSET Pairs, req' = [req EXCEPT ![r].pc = "visit", ![r].todo = s]
      PROVE  Onward(r)
  <2>1. req' = [req EXCEPT ![r] = [req[r] EXCEPT !.pc = "visit", !.tgt = req[r].tgt, !.todo = s]]
    BY <1>1, <1>6 DEF Reqs
  <2> QED
    BY <1>3, <1>4, <2>1
<1>7. ASSUME NEW p \in req[r].todo,
             req' = [req EXCEPT ![r].todo = @ \ {p},
                       ![r].tgt = IF HasHash(p) THEN NoPair ELSE p,
                       ![r].pc = IF HasHash(p) THEN "visit" ELSE "forget"]
      PROVE  Onward(r)
  <2> DEFINE g == IF HasHash(p) THEN NoPair ELSE p
             l == IF HasHash(p) THEN "visit" ELSE "forget"
             s == req[r].todo \ {p}
  <2>1. req' = [req EXCEPT ![r] = [req[r] EXCEPT !.pc = l, !.tgt = g, !.todo = s]]
    BY <1>1, <1>7 DEF Reqs
  <2>2. /\ l \in {"range", "visit", "forget"} /\ g \in Pairs \cup {NoPair}
        /\ (l = "forget" => g \in Pairs) /\ s \in SUBSET Pairs
    BY <1>4
  <2> HIDE DEF g, l, s
  <2> QED
    BY <1>3, <2>1, <2>2
<1>8. ASSUME req' = [req EXCEPT ![r].pc = "visit", ![r].tgt = NoPair]
      PROVE  Onward(r)
  <2>1. req' = [req EXCEPT ![r] = [req[r] EXCEPT !.pc = "visit", !.tgt = NoPair,
                                                !.todo = req[r].todo]]
    BY <1>1, <1>8 DEF Reqs
  <2> QED
    BY <1>3, <1>4, <2>1
<1>9. {p \in Pairs : OwnerOf[p] = req[r].who /\ zset[p] # 0} \in SUBSET Pairs
  OBVIOUS
<1>10. Onward(r)
  BY <1>5, <1>6, <1>7, <1>8, <1>9, FinishOnward DEF ListSessions
<1>11. zset' \in [Pairs -> 0 .. Horizon]
  <2>1. \/ zset' = [p \in Pairs |-> IF OwnerOf[p] = req[r].who /\ zset[p] <= now
                                   THEN 0 ELSE zset[p]]
        \/ zset' = [zset EXCEPT ![req[r].tgt] = 0]
        \/ UNCHANGED zset
    BY Zenon DEF ListSessions
  <2> QED
    BY <2>1, TimesTyped DEF TypeOK
<1>12. faults' \in 0 .. MaxFaults
  <2>1. RedisOk \/ RedisFails
    BY Zenon DEF ListSessions
  <2> QED
    BY <2>1, ConstantsAssumption DEF RedisOk, RedisFails, TypeOK
<1> QED
  BY <1>10, <1>11, <1>12 DEF ListSessions, TypeOK, Onward, Reqs, history

LEMMA DropUserOnward ==
  ASSUME TypeOK, Shape, NEW r \in Requests, DropUser(r)
  PROVE  Onward(r) /\ TypeOK'
<1>1. req[r] \in Reqs /\ Fits(req[r]) /\ req[r].pc = "drop" /\ req[r].op # "none"
  BY ReqTyped DEF DropUser
<1>2. "revoke" \in Pcs
  BY DEF Pcs
<1>3. Onward(r)
  BY <1>1, <1>2, FinishOnward, GotoOnward, GotoFits DEF DropUser
<1>4. user' \in [Users -> [exists : BOOLEAN, suspended : BOOLEAN, suspAt : 0 .. MaxTime]]
  <2>1. user[req[r].who] \in [exists : BOOLEAN, suspended : BOOLEAN, suspAt : 0 .. MaxTime]
    BY <1>1 DEF TypeOK, Fits
  <2>2. [user[req[r].who] EXCEPT !.exists = FALSE]
           \in [exists : BOOLEAN, suspended : BOOLEAN, suspAt : 0 .. MaxTime]
    BY <2>1
  <2>3. user' = [user EXCEPT ![req[r].who] = [user[req[r].who] EXCEPT !.exists = FALSE]]
    BY DEF DropUser
  <2> QED
    BY <2>2, <2>3 DEF TypeOK
<1> QED
  BY <1>3, <1>4 DEF DropUser, TypeOK, Onward, Reqs, redis, history

(* No step of the system breaks the types or leaves a request where its    *)
(* route cannot be.                                                        *)
LEMMA ProceedOnward ==
  ASSUME TypeOK, Shape, NEW r \in Requests, Proceed(r)
  PROVE  Onward(r) /\ TypeOK'
<1>1. CASE RecordSession(r)
  BY <1>1, RecordHashOnward, RecordExpiryOnward, RecordIndexOnward DEF RecordSession
<1>2. CASE Revoke(r) \/ RevokeRefresh(r)
  BY <1>2, RevokeIsRevokeToken, RevokeTokenOnward
<1> QED
  BY <1>1, <1>2, IsRevokedOnward, ReadUserOnward, MintOnward, OauthTokensOnward,
     SessionOwnerOnward, UnregisterOnward, ListSessionsOnward, DropUserOnward DEF Proceed

LEMMA ShapeStep ==
  ASSUME TypeOK, Shape, [Next]_vars
  PROVE  TypeOK' /\ Shape'
<1>1. ASSUME NEW r \in Requests, NEW u \in Users, NEW op \in {"login", "oauth"},
             Arrive(r, u, op)
      PROVE  TypeOK' /\ Shape'
  <2>1. req' \in [Requests -> Reqs] /\ Shape'
    BY <1>1, ArriveEffect
  <2>2. started' \in 0 .. MaxRequests
    BY <1>1, ConstantsAssumption DEF Arrive, NewRequest, TypeOK
  <2> QED
    BY <1>1, <2>1, <2>2 DEF Arrive, TypeOK, Reqs, redis, history
<1>2. ASSUME NEW r \in Requests, NEW op \in Bearing, NEW p \in Pairs,
             NEW q \in Pairs \cup {NoPair}, Named(op, p, q), Present(r, op, p, q)
      PROVE  TypeOK' /\ Shape'
  <2>1. req' \in [Requests -> Reqs] /\ Shape'
    BY <1>2, PresentEffect
  <2>2. started' \in 0 .. MaxRequests
    BY <1>2, ConstantsAssumption DEF Present, NewRequest, TypeOK
  <2>3. UNCHANGED <<now, failAt, iat, held, redis, user, faults, history>>
    BY <1>2 DEF Present
  <2> QED
    BY <2>1, <2>2, <2>3 DEF TypeOK, Reqs, redis, history
<1>3. ASSUME NEW r \in Requests, Start(r) PROVE TypeOK' /\ Shape'
  BY <1>1, <1>2, <1>3, StartCases
<1>4. ASSUME NEW r \in Requests, Proceed(r) PROVE TypeOK' /\ Shape'
  BY <1>4, ProceedOnward DEF Onward
<1>5. UNCHANGED req => Shape'
  BY DEF Shape, Fits
<1>6. ASSUME NEW u \in Users, Suspend(u) PROVE TypeOK' /\ Shape'
  <2>1. user' \in [Users -> [exists : BOOLEAN, suspended : BOOLEAN, suspAt : 0 .. MaxTime]]
    <3>1. user[u] \in [exists : BOOLEAN, suspended : BOOLEAN, suspAt : 0 .. MaxTime]
      BY DEF TypeOK
    <3>2. [user[u] EXCEPT !.suspended = TRUE, !.suspAt = now]
             \in [exists : BOOLEAN, suspended : BOOLEAN, suspAt : 0 .. MaxTime]
      BY <3>1 DEF TypeOK
    <3>3. user' = [user EXCEPT ![u] = [user[u] EXCEPT !.suspended = TRUE, !.suspAt = now]]
      BY <1>6 DEF Suspend
    <3> QED
      BY <3>2, <3>3 DEF TypeOK
  <2>2. started' \in 0 .. MaxRequests
    BY <1>6, ConstantsAssumption DEF Suspend, TypeOK
  <2> QED
    BY <1>5, <1>6, <2>1, <2>2 DEF Suspend, TypeOK, redis, history
<1>7. ASSUME NEW u \in Users, Unsuspend(u) PROVE TypeOK' /\ Shape'
  <2>1. user' \in [Users -> [exists : BOOLEAN, suspended : BOOLEAN, suspAt : 0 .. MaxTime]]
    <3>1. user[u] \in [exists : BOOLEAN, suspended : BOOLEAN, suspAt : 0 .. MaxTime]
      BY DEF TypeOK
    <3>2. [user[u] EXCEPT !.suspended = FALSE]
             \in [exists : BOOLEAN, suspended : BOOLEAN, suspAt : 0 .. MaxTime]
      BY <3>1
    <3>3. user' = [user EXCEPT ![u] = [user[u] EXCEPT !.suspended = FALSE]]
      BY <1>7 DEF Unsuspend
    <3> QED
      BY <3>2, <3>3 DEF TypeOK
  <2> QED
    BY <1>5, <1>7, <2>1 DEF Unsuspend, TypeOK, redis, history
<1>8. CASE Tick
  BY <1>5, <1>8, ConstantsAssumption DEF Tick, TypeOK, redis, history
<1>9. CASE UNCHANGED vars
  BY <1>5, <1>9 DEF vars, TypeOK, redis, history
<1> QED
  BY <1>3, <1>4, <1>6, <1>7, <1>8, <1>9 DEF Next

LEMMA ShapeHolds == Spec => [](TypeOK /\ Shape)
<1>1. Init => TypeOK /\ Shape
  <2> SUFFICES ASSUME Init PROVE TypeOK /\ Shape
    OBVIOUS
  <2>1. req \in [Requests -> Reqs] /\ Shape
    BY IdleFits DEF Init, Shape
  <2>2. \A t \in Tokens : black[t] \in 0 .. Horizon
    BY TimesTyped DEF Init
  <2>3. user \in [Users -> [exists : BOOLEAN, suspended : BOOLEAN, suspAt : 0 .. MaxTime]]
    BY ConstantsAssumption DEF Init
  <2> QED
    BY <2>1, <2>3, TimesTyped, ConstantsAssumption DEF Init, TypeOK, Reqs
<1>2. TypeOK /\ Shape /\ [Next]_vars => (TypeOK /\ Shape)'
  BY ShapeStep
<1> QED
  BY <1>1, <1>2, PTL DEF Spec

(* Every time, key and request keeps its type; no Redis key is set to      *)
(* expire after the horizon, and only pairs that exist are delivered,      *)
(* recorded or dismissed.                                                  *)
THEOREM TypeCorrect == Spec => []TypeOK
BY ShapeHolds, PTL

-----------------------------------------------------------------------------
(* What only grows: time, the dates of suspensions and the history.  A     *)
(* pair is minted once.                                                    *)
IsMinted(p) == iat[p] # Unminted

Grows ==
    /\ now <= now'
    /\ \A p \in Pairs : IsMinted(p) => iat'[p] = iat[p]
    /\ ended \subseteq ended' /\ recorded \subseteq recorded' /\ dismissed \subseteq dismissed'
    /\ \A u \in Users : user[u].suspAt <= user'[u].suspAt

(* Suspensions were stored in the past.                                    *)
SuspInv == \A u \in Users : user[u].suspAt <= now

LEMMA GrowsStep ==
  ASSUME TypeOK, Shape, SuspInv, [Next]_vars
  PROVE  Grows
<1> USE DEF Grows
<1>1. now \in Int /\ now' \in Int /\ \A u \in Users : user[u].suspAt \in Int
  BY ConstantsAssumption, ShapeStep DEF TypeOK
<1>2. UNCHANGED <<now, iat, user, history>> => Grows
  BY <1>1 DEF history
<1>3. ASSUME NEW r \in Requests, Start(r) PROVE Grows
  BY <1>2, <1>3, StartCases, Zenon DEF Arrive, Present
<1>4. ASSUME NEW r \in Requests, Minted(r) PROVE Grows
  <2>1. \A p \in Pairs : IsMinted(p) => iat'[p] = iat[p]
    BY <1>4, NextPairFresh DEF Minted, IsMinted, TypeOK
  <2> QED
    BY <1>1, <1>4, <2>1 DEF Minted, history
<1>5. ASSUME NEW r \in Requests, RecordIndex(r) PROVE Grows
  BY <1>1, <1>5 DEF RecordIndex
<1>6. ASSUME NEW r \in Requests, NEW t, NEW l, RevokeToken(r, t, l) PROVE Grows
  <2>1. UNCHANGED <<now, iat, user, recorded>>
    BY <1>6 DEF RevokeToken
  <2>2. ended \subseteq ended' /\ dismissed \subseteq dismissed'
    BY <1>6 DEF RevokeToken, Dismiss
  <2> QED
    BY <1>1, <2>1, <2>2
<1>7. ASSUME NEW r \in Requests, DropUser(r) PROVE Grows
  BY <1>1, <1>7 DEF DropUser, history, TypeOK
<1>8. ASSUME NEW r \in Requests, Proceed(r) PROVE Grows
  <2>1. CASE RecordHash(r) \/ RecordExpiry(r)
    BY <1>2, <2>1, Zenon DEF RecordHash, RecordExpiry
  <2>2. CASE IsRevoked(r) \/ ReadUser(r) \/ SessionOwner(r)
    BY <1>2, <2>2, Zenon DEF IsRevoked, ReadUser, SessionOwner
  <2>3. CASE Unregister(r)
    BY <1>2, <2>3, Zenon DEF Unregister
  <2>4. CASE ListSessions(r)
    BY <1>2, <2>4, Zenon DEF ListSessions
  <2> QED
    BY <1>4, <1>5, <1>6, <1>7, <1>8, <2>1, <2>2, <2>3, <2>4
       DEF Proceed, RecordSession, Mint, OauthTokens, Revoke, RevokeRefresh
<1>9. ASSUME NEW u \in Users, Suspend(u) PROVE Grows
  <2>1. UNCHANGED <<now, iat, history>>
    BY <1>9 DEF Suspend
  <2>2. \A v \in Users : user[v].suspAt <= user'[v].suspAt
    BY <1>1, <1>9 DEF Suspend, SuspInv, TypeOK
  <2> QED
    BY <1>1, <2>1, <2>2 DEF history
<1>10. ASSUME NEW u \in Users, Unsuspend(u) PROVE Grows
  BY <1>1, <1>10 DEF Unsuspend, TypeOK, history
<1>11. CASE Tick
  BY <1>1, <1>11 DEF Tick, history
<1>12. CASE UNCHANGED vars
  BY <1>2, <1>12 DEF vars
<1> QED
  BY <1>3, <1>8, <1>9, <1>10, <1>11, <1>12 DEF Next

LEMMA SuspInvStep ==
  ASSUME TypeOK, Shape, SuspInv, [Next]_vars
  PROVE  SuspInv'
<1>1. now <= now' /\ now \in Int /\ now' \in Int
  BY GrowsStep, ShapeStep, ConstantsAssumption DEF Grows, TypeOK
<1>2. \A u \in Users : user[u].suspAt \in Int
  BY ConstantsAssumption DEF TypeOK
<1>3. UNCHANGED user => SuspInv'
  BY <1>1, <1>2 DEF SuspInv
<1>4. ASSUME NEW u \in Users, Suspend(u) PROVE SuspInv'
  BY <1>2, <1>4 DEF Suspend, SuspInv, TypeOK
<1>5. ASSUME NEW u \in Users, Unsuspend(u) PROVE SuspInv'
  BY <1>1, <1>2, <1>5 DEF Unsuspend, SuspInv, TypeOK
<1>6. ASSUME NEW r \in Requests, DropUser(r) PROVE SuspInv'
  BY <1>1, <1>2, <1>6 DEF DropUser, SuspInv, TypeOK
<1>7. ASSUME NEW r \in Requests, Start(r) PROVE UNCHANGED user
  BY <1>7, StartCases, Zenon DEF Arrive, Present
<1>8. ASSUME NEW r \in Requests, Proceed(r), ~ DropUser(r) PROVE UNCHANGED user
  <2>1. CASE RecordSession(r)
    BY <2>1, Zenon DEF RecordSession, RecordHash, RecordExpiry, RecordIndex
  <2>2. CASE IsRevoked(r) \/ ReadUser(r) \/ SessionOwner(r) \/ Mint(r) \/ OauthTokens(r)
    BY <2>2, Zenon DEF IsRevoked, ReadUser, SessionOwner, Mint, OauthTokens, Minted
  <2>3. CASE Unregister(r) \/ ListSessions(r)
    BY <2>3, Zenon DEF Unregister, ListSessions
  <2>4. CASE Revoke(r) \/ RevokeRefresh(r)
    BY <2>4, Zenon DEF Revoke, RevokeRefresh, RevokeToken
  <2> QED
    BY <1>8, <2>1, <2>2, <2>3, <2>4 DEF Proceed
<1>9. CASE Tick \/ UNCHANGED vars
  BY <1>3, <1>9 DEF Tick, vars
<1> QED
  BY <1>3, <1>4, <1>5, <1>6, <1>7, <1>8, <1>9 DEF Next

-----------------------------------------------------------------------------
(* The fields of a request after each step that does not finish it.        *)

Kept(r) == req'[r].tgt = req[r].tgt /\ req'[r].todo = req[r].todo /\ req'[r].seen = req[r].seen

LEMMA GotoFields ==
  ASSUME TypeOK, NEW r \in Requests, NEW l, Goto(r, l)
  PROVE  req'[r].pc = l /\ Kept(r)
<1>1. req[r] \in Reqs /\ req'[r] = [req[r] EXCEPT !.pc = l]
  BY DEF TypeOK, Reqs, Goto
<1> QED
  BY <1>1 DEF Reqs, Kept

LEMMA FinishFields ==
  ASSUME TypeOK, NEW r \in Requests, Finish(r)
  PROVE  req'[r] = NoReq
BY DEF TypeOK, Finish

LEMMA IsRevokedFields ==
  ASSUME TypeOK, NEW r \in Requests, IsRevoked(r), req'[r] # NoReq
  PROVE  /\ req[r].pc = "check" /\ req'[r].pc = "user"
         /\ req'[r].tgt = req[r].tgt /\ req'[r].todo = req[r].todo
         /\ req'[r].seen = "live" => ~ InBlack(Token(r))
<1>1. req[r] \in Reqs /\ req[r].pc = "check"
  BY DEF TypeOK, Reqs, IsRevoked
<1>2. ASSUME NEW s, req' = [req EXCEPT ![r].pc = "user", ![r].seen = s]
      PROVE  /\ req'[r].pc = "user" /\ req'[r].tgt = req[r].tgt
             /\ req'[r].todo = req[r].todo /\ req'[r].seen = s
  <2>1. req'[r] = [req[r] EXCEPT !.pc = "user", !.seen = s]
    BY <1>2 DEF TypeOK
  <2> QED
    BY <1>1, <2>1 DEF Reqs
<1>3. \/ req' = [req EXCEPT ![r].pc = "user", ![r].seen = "blind"]
      \/ ~ InBlack(Token(r)) /\ req' = [req EXCEPT ![r].pc = "user", ![r].seen = "live"]
  BY FinishFields, Zenon DEF IsRevoked
<1> QED
  BY <1>1, <1>2, <1>3

LEMMA ReadUserFields ==
  ASSUME TypeOK, NEW r \in Requests, ReadUser(r), req'[r] # NoReq
  PROVE  /\ req[r].pc = "user" /\ Enforced(r)
         /\ req'[r].pc = AfterUser(req[r].op) /\ Kept(r)
BY FinishFields, GotoFields DEF ReadUser

LEMMA MintFields ==
  ASSUME TypeOK, NEW r \in Requests, Mint(r)
  PROVE  /\ req[r].pc = "mint" /\ req'[r].pc = "hset" /\ req'[r].tgt = NextPair(r)
         /\ req'[r].todo = req[r].todo /\ req'[r].seen = req[r].seen
<1>1. req[r] \in Reqs /\ req'[r] = [req[r] EXCEPT !.pc = "hset", !.tgt = NextPair(r)]
  BY DEF TypeOK, Reqs, Mint
<1>2. req[r].pc = "mint"
  BY DEF Mint, Minted
<1> QED
  BY <1>1, <1>2 DEF Reqs

LEMMA RecordFields ==
  ASSUME TypeOK, NEW r \in Requests, RecordSession(r), req'[r] # NoReq
  PROVE  /\ Kept(r)
         /\ \/ RecordHash(r) /\ RedisOk /\ req'[r].pc = "expireat"
            \/ RecordExpiry(r) /\ RedisOk /\ req[r].pc = "expireat" /\ req'[r].pc = "zadd"
<1>1. CASE RecordHash(r)
  BY <1>1, FinishFields, GotoFields DEF RecordHash, Deliver
<1>2. CASE RecordExpiry(r)
  BY <1>2, FinishFields, GotoFields DEF RecordExpiry, Deliver
<1>3. ~ RecordIndex(r)
  BY FinishFields DEF RecordIndex, Deliver
<1> QED
  BY <1>1, <1>2, <1>3 DEF RecordSession

LEMMA RevokeFields ==
  ASSUME TypeOK, NEW r \in Requests, NEW t, NEW l, RevokeToken(r, t, l), req'[r] # NoReq
  PROVE  /\ req'[r].pc = l /\ Kept(r)
         /\ l = "hget" => req[r].tgt \in dismissed'
<1>1. Goto(r, l) /\ Dismiss(r, l)
  BY FinishFields DEF RevokeToken
<1> QED
  BY <1>1, GotoFields DEF Dismiss

LEMMA SessionOwnerFields ==
  ASSUME TypeOK, NEW r \in Requests, SessionOwner(r), req'[r] # NoReq
  PROVE  req[r].pc = "owner" /\ req'[r].pc = "revoke" /\ Kept(r)
BY FinishFields, GotoFields DEF SessionOwner

LEMMA UnregisterFields ==
  ASSUME TypeOK, NEW r \in Requests, Unregister(r), req'[r] # NoReq
  PROVE  /\ req[r].pc \in Removing /\ req'[r].pc \in {"del", "zrem"} /\ Kept(r)
<1>1. CASE req' = [req EXCEPT ![r].pc = "del", ![r].hit = HasHash(req[r].tgt)]
  <2>1. req[r] \in Reqs
    BY DEF TypeOK, Reqs
  <2>2. req'[r] = [req[r] EXCEPT !.pc = "del", !.hit = HasHash(req[r].tgt)]
    BY <1>1 DEF TypeOK
  <2>3. req'[r].pc = "del" /\ Kept(r)
    BY <2>1, <2>2 DEF Reqs, Kept
  <2> QED
    BY <2>3 DEF Unregister, Removing
<1> QED
  BY <1>1, FinishFields, GotoFields DEF Unregister, Removing

LEMMA ListFields ==
  ASSUME TypeOK, NEW r \in Requests, ListSessions(r), req'[r] # NoReq
  PROVE  /\ req[r].pc \in {"purge", "range", "visit", "forget"}
         /\ req'[r].pc \in {"range", "visit", "forget"}
         /\ req'[r].seen = req[r].seen
         /\ \A p \in req'[r].todo : p \in req[r].todo \/ (p \in Pairs /\ zset[p] # 0)
         /\ req'[r].tgt \in {req[r].tgt, NoPair} \cup req[r].todo
         /\ req'[r].pc = "forget" => req'[r].tgt \in req[r].todo /\ ~ HasHash(req'[r].tgt)
<1>1. req[r] \in Reqs /\ req[r].pc \in {"purge", "range", "visit", "forget"}
  BY DEF TypeOK, Reqs, ListSessions
<1>2. CASE Goto(r, "range")
  BY <1>1, <1>2, GotoFields DEF Kept
<1>3. CASE req' = [req EXCEPT ![r].pc = "visit",
                     ![r].todo = {p \in Pairs : OwnerOf[p] = req[r].who /\ zset[p] # 0}]
  <2> DEFINE s == {p \in Pairs : OwnerOf[p] = req[r].who /\ zset[p] # 0}
  <2>1. req'[r] = [req[r] EXCEPT !.pc = "visit", !.todo = s]
    BY <1>3 DEF TypeOK
  <2>2. req'[r].pc = "visit" /\ req'[r].todo = s /\ req'[r].tgt = req[r].tgt
        /\ req'[r].seen = req[r].seen
    BY <1>1, <2>1 DEF Reqs
  <2> QED
    BY <1>1, <2>2
<1>4. ASSUME NEW p \in req[r].todo,
             req' = [req EXCEPT ![r].todo = @ \ {p},
                       ![r].tgt = IF HasHash(p) THEN NoPair ELSE p,
                       ![r].pc = IF HasHash(p) THEN "visit" ELSE "forget"]
      PROVE  /\ req'[r].pc = IF HasHash(p) THEN "visit" ELSE "forget"
             /\ req'[r].todo = req[r].todo \ {p}
             /\ req'[r].tgt = IF HasHash(p) THEN NoPair ELSE p
             /\ req'[r].seen = req[r].seen
  <2>1. req'[r] = [req[r] EXCEPT !.todo = req[r].todo \ {p},
                                 !.tgt = IF HasHash(p) THEN NoPair ELSE p,
                                 !.pc = IF HasHash(p) THEN "visit" ELSE "forget"]
    BY <1>4 DEF TypeOK
  <2> QED
    BY <1>1, <2>1 DEF Reqs
<1>5. CASE req' = [req EXCEPT ![r].pc = "visit", ![r].tgt = NoPair]
  <2>1. req'[r] = [req[r] EXCEPT !.pc = "visit", !.tgt = NoPair]
    BY <1>5 DEF TypeOK
  <2>2. req'[r].pc = "visit" /\ req'[r].todo = req[r].todo /\ req'[r].tgt = NoPair
        /\ req'[r].seen = req[r].seen
    BY <1>1, <2>1 DEF Reqs
  <2> QED
    BY <1>1, <2>2
<1>6. CASE \E p \in req[r].todo :
               req' = [req EXCEPT ![r].todo = @ \ {p},
                         ![r].tgt = IF HasHash(p) THEN NoPair ELSE p,
                         ![r].pc = IF HasHash(p) THEN "visit" ELSE "forget"]
  BY <1>1, <1>4, <1>6
<1> QED
  BY <1>2, <1>3, <1>5, <1>6, FinishFields, Zenon DEF ListSessions

LEMMA DropUserFields ==
  ASSUME TypeOK, NEW r \in Requests, DropUser(r), req'[r] # NoReq
  PROVE  req[r].pc = "drop" /\ req'[r].pc = "revoke" /\ Kept(r)
BY FinishFields, GotoFields DEF DropUser

(* Only is_revoked looks a token up; only a new pair and list_sessions     *)
(* change what a request is about.                                         *)
LEMMA SeenKept ==
  ASSUME TypeOK, Shape, NEW r \in Requests, Proceed(r), req'[r] # NoReq, ~ IsRevoked(r)
  PROVE  req'[r].seen = req[r].seen /\ (Mint(r) \/ ListSessions(r) \/ Kept(r))
<1>1. ~ OauthTokens(r)
  BY FinishFields DEF OauthTokens
<1>2. CASE Revoke(r) \/ RevokeRefresh(r)
  BY <1>2, RevokeFields DEF Revoke, RevokeRefresh, Kept
<1>3. CASE RecordSession(r)
  BY <1>3, RecordFields DEF Kept
<1>4. CASE ReadUser(r) \/ SessionOwner(r) \/ Unregister(r) \/ DropUser(r)
  BY <1>4, ReadUserFields, SessionOwnerFields, UnregisterFields, DropUserFields DEF Kept
<1>5. CASE Mint(r) \/ ListSessions(r)
  BY <1>5, MintFields, ListFields
<1> QED
  BY <1>1, <1>2, <1>3, <1>4, <1>5 DEF Proceed

-----------------------------------------------------------------------------
(* Pairs that are held, recorded, indexed or named by a request have been  *)
(* minted, in the past.                                                    *)
Sound(q) ==
    /\ q.tok # NoPair => IsMinted(q.tok)
    /\ q.tgt # NoPair => IsMinted(q.tgt)
    /\ q.todo \subseteq recorded

MintInv ==
    /\ \A p \in held \cup recorded : IsMinted(p)
    /\ \A p \in Pairs : iat[p] <= now
    /\ \A p \in Pairs : zset[p] # 0 => p \in recorded
    /\ \A r \in Requests : Sound(req[r])

LEMMA SoundStep ==
  ASSUME TypeOK, Shape, SuspInv, MintInv, [Next]_vars, NEW x \in Requests
  PROVE  Sound(req[x])'
<1>1. Grows
  BY GrowsStep
<1>2. \A p \in Pairs : IsMinted(p) => IsMinted(p)'
  BY <1>1 DEF Grows, IsMinted, Unminted
<1>3. recorded \subseteq recorded' /\ recorded \subseteq Pairs
  BY <1>1 DEF Grows, TypeOK
<1>4. ASSUME req'[x] = req[x] PROVE Sound(req[x])'
  <2>1. req[x] \in Reqs /\ Sound(req[x])
    BY DEF TypeOK, Reqs, MintInv
  <2> QED
    BY <1>2, <1>3, <1>4, <2>1 DEF Reqs, Sound, IsMinted
<1>5. req[x].tok \in Pairs \cup {NoPair} /\ req[x].tgt \in Pairs \cup {NoPair}
  BY DEF TypeOK
<1>6. ASSUME req'[x] = NoReq PROVE Sound(req[x])'
  BY <1>6 DEF Sound, NoReq
<1>7. ASSUME Start(x) PROVE Sound(req[x])'
  <2>1. ASSUME NEW u \in Users, NEW op \in {"login", "oauth"}, Arrive(x, u, op)
        PROVE  Sound(req[x])'
    BY <2>1, ArriveFields DEF Sound
  <2>2. ASSUME NEW op \in Bearing, NEW p \in Pairs, NEW q \in Pairs \cup {NoPair},
               Named(op, p, q), Present(x, op, p, q)
        PROVE  Sound(req[x])'
    <3>1. req'[x].tok = p /\ req'[x].tgt = q /\ req'[x].todo = {}
      BY <2>2, PresentFields
    <3>2. IsMinted(p) /\ (q # NoPair => IsMinted(q))
      BY <2>2 DEF Present, Named, MintInv
    <3> QED
      BY <1>2, <3>1, <3>2 DEF Sound, IsMinted
  <2> QED
    BY <1>7, <2>1, <2>2, StartCases
<1>8. ASSUME Proceed(x), req'[x] # NoReq PROVE Sound(req[x])'
  <2>1. req'[x].tok = req[x].tok /\ Sound(req[x])
    BY <1>8, ProceedOnward DEF Onward, MintInv
  <2>2. req'[x].tok # NoPair => iat'[req'[x].tok] # Unminted
    BY <1>2, <1>5, <2>1 DEF Sound, IsMinted
  <2>3. CASE Mint(x)
    <3>1. NextPair(x) \in Pairs /\ iat'[NextPair(x)] = now
      BY <2>3, NextPairFresh DEF Mint, Minted, TypeOK
    <3>2. iat'[NextPair(x)] # Unminted
      BY <3>1, ConstantsAssumption DEF Unminted, TypeOK
    <3> QED
      BY <1>3, <2>1, <2>2, <2>3, <3>2, MintFields DEF Sound, IsMinted
  <2>4. CASE ListSessions(x)
    <3>1. req'[x].todo \subseteq recorded
      BY <1>8, <2>1, <2>4, ListFields DEF MintInv, Sound
    <3>2. req'[x].tgt \in {req[x].tgt, NoPair} \cup req[x].todo
      BY <1>8, <2>4, ListFields
    <3>3. req'[x].tgt # NoPair => req'[x].tgt \in Pairs /\ IsMinted(req'[x].tgt)
      BY <1>3, <1>5, <2>1, <3>2 DEF MintInv, Sound
    <3> QED
      BY <1>2, <1>3, <2>2, <3>1, <3>3 DEF Sound, IsMinted
  <2>5. CASE Kept(x)
    BY <1>2, <1>3, <1>5, <2>1, <2>2, <2>5 DEF Sound, Kept, IsMinted
  <2>6. CASE IsRevoked(x)
    BY <1>2, <1>3, <1>5, <1>8, <2>1, <2>2, <2>6, IsRevokedFields DEF Sound, IsMinted
  <2> QED
    BY <1>8, <2>3, <2>4, <2>5, <2>6, SeenKept
<1>9. ASSUME NEW r \in Requests, Start(r) \/ Proceed(r), x # r PROVE req'[x] = req[x]
  BY <1>9, StartCases, ArriveEffect, PresentEffect, ProceedOnward DEF Onward
<1>10. ASSUME ~ (\E r \in Requests : Start(r) \/ Proceed(r)) PROVE req'[x] = req[x]
  BY <1>10, Zenon DEF Next, Suspend, Unsuspend, Tick, vars
<1> QED
  BY <1>4, <1>6, <1>7, <1>8, <1>9, <1>10

LEMMA MintInvStep ==
  ASSUME TypeOK, Shape, SuspInv, MintInv, [Next]_vars
  PROVE  MintInv'
<1>1. Grows
  BY GrowsStep
<1>2. \A p \in Pairs : IsMinted(p) => IsMinted(p)'
  BY <1>1 DEF Grows, IsMinted, Unminted
<1>3. TypeOK'
  BY ShapeStep
<1>4. now \in Int /\ now' \in Int /\ now <= now' /\ \A p \in Pairs : iat[p] \in Int /\ iat[p] <= now
  BY <1>1, <1>3, ConstantsAssumption DEF Grows, TypeOK, MintInv, Unminted
<1>5. \A p \in Pairs : iat'[p] <= now'
  <2>1. UNCHANGED iat \/ \E r \in Requests : Minted(r)
    <3>1. ASSUME NEW r \in Requests, Start(r) PROVE UNCHANGED iat
      BY <3>1, StartCases, Zenon DEF Arrive, Present
    <3>2. ASSUME NEW r \in Requests, Proceed(r), ~ Minted(r) PROVE UNCHANGED iat
      <4>1. CASE RecordSession(r)
        BY <4>1, Zenon DEF RecordSession, RecordHash, RecordExpiry, RecordIndex
      <4>2. CASE IsRevoked(r) \/ ReadUser(r) \/ SessionOwner(r) \/ DropUser(r)
        BY <4>2, Zenon DEF IsRevoked, ReadUser, SessionOwner, DropUser
      <4>3. CASE Unregister(r) \/ ListSessions(r)
        BY <4>3, Zenon DEF Unregister, ListSessions
      <4>4. CASE Revoke(r) \/ RevokeRefresh(r)
        BY <4>4, Zenon DEF Revoke, RevokeRefresh, RevokeToken
      <4> QED
        BY <3>2, <4>1, <4>2, <4>3, <4>4 DEF Proceed, Mint, OauthTokens
    <3>3. ASSUME NEW u \in Users, Suspend(u) \/ Unsuspend(u) PROVE UNCHANGED iat
      BY <3>3 DEF Suspend, Unsuspend
    <3>4. CASE Tick \/ UNCHANGED vars
      BY <3>4 DEF Tick, vars
    <3> QED
      BY <3>1, <3>2, <3>3, <3>4 DEF Next
  <2>2. ASSUME NEW r \in Requests, Minted(r), NEW p \in Pairs PROVE iat'[p] <= now'
    <3>1. iat' = [iat EXCEPT ![NextPair(r)] = now]
      BY <2>2 DEF Minted
    <3>2. iat'[p] = now \/ iat'[p] = iat[p]
      BY <3>1 DEF TypeOK
    <3> QED
      BY <1>4, <3>2
  <2> QED
    BY <1>4, <2>1, <2>2
<1>6. /\ \A p \in held' \cup recorded' : IsMinted(p)'
      /\ \A p \in Pairs : zset'[p] # 0 => p \in recorded'
  <2> DEFINE Good == /\ \A p \in held' \cup recorded' : IsMinted(p)'
                     /\ \A p \in Pairs : zset'[p] # 0 => p \in recorded'
  <2>1. held \subseteq Pairs /\ recorded \subseteq Pairs
    BY DEF TypeOK
  <2>2. UNCHANGED <<held, recorded, zset>> => Good
    BY <1>2, <2>1 DEF MintInv
  <2>3. ASSUME NEW r \in Requests, Start(r) PROVE Good
    BY <2>2, <2>3, StartCases, Zenon DEF Arrive, Present, redis, history
  <2>4. ASSUME NEW r \in Requests, Mint(r) PROVE Good
    BY <2>2, <2>4 DEF Mint, Minted, redis, history
  <2>5. ASSUME NEW r \in Requests, OauthTokens(r) PROVE Good
    <3>1. NextPair(r) \in Pairs /\ iat'[NextPair(r)] = now
      BY <2>5, NextPairFresh DEF OauthTokens, Minted, TypeOK
    <3>2. iat'[NextPair(r)] # Unminted
      BY <3>1, ConstantsAssumption DEF Unminted, TypeOK
    <3>3. held' = held \cup {NextPair(r)} /\ UNCHANGED <<recorded, zset>>
      BY <2>5 DEF OauthTokens, Minted, redis, history
    <3> QED
      BY <1>2, <2>1, <3>2, <3>3 DEF MintInv, IsMinted
  <2>6. ASSUME NEW r \in Requests, RecordSession(r) PROVE Good
    <3>1. req[r].tgt \in Pairs /\ IsMinted(req[r].tgt)
      BY <2>6, ReqTyped, ConstantsAssumption
         DEF RecordSession, RecordHash, RecordExpiry, RecordIndex, Fits, Recording, MintInv, Sound
    <3>2. held' \subseteq held \cup {req[r].tgt} /\ recorded' \subseteq recorded \cup {req[r].tgt}
      BY <2>6 DEF RecordSession, RecordHash, RecordExpiry, RecordIndex, Deliver, history
    <3>3. \A p \in Pairs : zset'[p] # 0 => p \in recorded'
      <4>1. CASE UNCHANGED <<zset, recorded>>
        BY <4>1 DEF MintInv
      <4>2. CASE /\ zset' = [zset EXCEPT ![req[r].tgt] = Exp(Access(req[r].tgt))]
                 /\ recorded' = recorded \cup {req[r].tgt}
        BY <3>1, <4>2 DEF MintInv, TypeOK
      <4> QED
        BY <2>6, <4>1, <4>2 DEF RecordSession, RecordHash, RecordExpiry, RecordIndex, history
    <3> QED
      BY <1>2, <2>1, <3>1, <3>2, <3>3 DEF MintInv
  <2>7. ASSUME NEW r \in Requests, NEW t, NEW l, RevokeToken(r, t, l) PROVE Good
    BY <2>2, <2>7 DEF RevokeToken
  <2>8. ASSUME UNCHANGED <<held, recorded>>,
               \A p \in Pairs : zset'[p] = 0 \/ zset'[p] = zset[p]
        PROVE  Good
    BY <1>2, <2>1, <2>8 DEF MintInv
  <2>9. ASSUME NEW r \in Requests, Unregister(r) PROVE Good
    <3>1. zset' = [zset EXCEPT ![req[r].tgt] = 0] \/ UNCHANGED zset
      BY <2>9, Zenon DEF Unregister
    <3>2. UNCHANGED <<held, recorded>>
      BY <2>9 DEF Unregister, history
    <3> QED
      BY <2>8, <3>1, <3>2 DEF TypeOK
  <2>10. ASSUME NEW r \in Requests, ListSessions(r) PROVE Good
    <3>1. \/ zset' = [p \in Pairs |-> IF OwnerOf[p] = req[r].who /\ zset[p] <= now
                                     THEN 0 ELSE zset[p]]
          \/ zset' = [zset EXCEPT ![req[r].tgt] = 0]
          \/ UNCHANGED zset
      BY <2>10, Zenon DEF ListSessions
    <3>2. UNCHANGED <<held, recorded>>
      BY <2>10, Zenon DEF ListSessions, history
    <3>3. \A p \in Pairs : zset'[p] = 0 \/ zset'[p] = zset[p]
      BY <3>1 DEF TypeOK
    <3> QED
      BY <2>8, <3>2, <3>3
  <2>11. ASSUME NEW r \in Requests, IsRevoked(r) \/ ReadUser(r) \/ SessionOwner(r) \/ DropUser(r)
         PROVE  UNCHANGED <<held, recorded, zset>>
    BY <2>11, Zenon DEF IsRevoked, ReadUser, SessionOwner, DropUser, redis, history
  <2>12. ASSUME NEW u \in Users, Suspend(u) \/ Unsuspend(u) PROVE Good
    BY <2>2, <2>12 DEF Suspend, Unsuspend, redis, history
  <2>13. ASSUME Tick \/ UNCHANGED vars PROVE Good
    BY <2>2, <2>13 DEF Tick, vars, redis, history
  <2>14. ASSUME NEW r \in Requests, Proceed(r) PROVE Good
    <3> HIDE DEF Good
    <3> QED
      BY <2>2, <2>4, <2>5, <2>6, <2>7, <2>9, <2>10, <2>11, <2>14
         DEF Proceed, Revoke, RevokeRefresh
  <2> HIDE DEF Good
  <2>15. Good
    BY <2>3, <2>12, <2>13, <2>14 DEF Next
  <2> QED
    BY <2>15 DEF Good
<1>7. \A r \in Requests : Sound(req[r])'
  BY SoundStep
<1> QED
  BY <1>5, <1>6, <1>7 DEF MintInv, IsMinted, Sound

(* The facts that all the properties rest on.                              *)
BaseInv == TypeOK /\ Shape /\ SuspInv /\ MintInv

LEMMA BaseHolds == Spec => []BaseInv
<1>1. Init => SuspInv /\ MintInv
  <2> SUFFICES ASSUME Init PROVE SuspInv /\ MintInv
    OBVIOUS
  <2>1. SuspInv
    <3> SUFFICES ASSUME NEW u \in Users PROVE user[u].suspAt <= now
      BY DEF SuspInv
    <3>1. now = 0 /\ user[u].suspAt = 0
      BY DEF Init
    <3> QED
      BY <3>1
  <2>2. \A r \in Requests : Sound(req[r])
    BY DEF Init, Sound, NoReq
  <2> QED
    BY <2>1, <2>2 DEF Init, MintInv, Unminted
<1>2. TypeOK /\ Shape /\ SuspInv /\ MintInv /\ [Next]_vars => (SuspInv /\ MintInv)'
  BY SuspInvStep, MintInvStep
<1> QED
  BY <1>1, <1>2, ShapeHolds, PTL DEF Spec, BaseInv

-----------------------------------------------------------------------------
(* Times of minted pairs do not change, so what has expired stays expired. *)
LEMMA ExpKept ==
  ASSUME BaseInv, [Next]_vars, NEW t \in Tokens, IsMinted(t[1])
  PROVE  Exp(t)' = Exp(t) /\ Exp(t) \in Int /\ (Expired(t) => Expired(t)')
<1>1. Grows /\ TypeOK /\ TypeOK'
  BY GrowsStep, ShapeStep DEF BaseInv
<1>2. iat'[t[1]] = iat[t[1]]
  BY <1>1 DEF Grows, Tokens
<1>3. Exp(t)' = Exp(t)
  BY <1>2 DEF Exp, Life
<1>4. Exp(t) \in Int
  BY <1>1, ExpTyped, TimesTyped
<1>5. now \in Int /\ now' \in Int /\ now <= now'
  BY <1>1, ConstantsAssumption DEF Grows, TypeOK
<1> QED
  BY <1>3, <1>4, <1>5 DEF Expired

(* Every step is that of one request or of none.                           *)
LEMMA OneRequest ==
  ASSUME BaseInv, [Next]_vars, NEW x \in Requests
  PROVE  \/ req'[x] = req[x] \/ Start(x)
         \/ Proceed(x) /\ Onward(x)
<1>1. ASSUME NEW r \in Requests, Start(r) \/ Proceed(r), x # r PROVE req'[x] = req[x]
  BY <1>1, StartCases, ArriveEffect, PresentEffect, ProceedOnward DEF Onward, BaseInv
<1>2. ASSUME ~ (\E r \in Requests : Start(r) \/ Proceed(r)) PROVE req'[x] = req[x]
  BY <1>2, Zenon DEF Next, Suspend, Unsuspend, Tick, vars
<1> QED
  BY <1>1, <1>2, ProceedOnward DEF BaseInv

-----------------------------------------------------------------------------
(* Revocation.  The key of a revoked token lasts as long as the token, and *)
(* a request that came after the revocation names a revoked token.         *)
EndedInv == \A t \in ended : IsMinted(t[1]) /\ black[t] >= Exp(t)

LateFits(q) ==
    q.late => /\ TokenOf(q.op, q.tok) \in ended
              /\ q.seen = "live" => Expired(TokenOf(q.op, q.tok))

LateInv == \A r \in Requests : LateFits(req[r])

LEMMA RevokedUntilCovers ==
  ASSUME BaseInv, NEW r \in Requests, NEW t \in Tokens, req[r].op = "kill" => t[2] = "access"
  PROVE  RevokedUntil(r, t) >= Exp(t)
<1>1. Exp(t) \in Int /\ now \in Int /\ iat[t[1]] \in Int /\ iat[t[1]] <= now
  BY ExpTyped, TimesTyped, ConstantsAssumption
     DEF BaseInv, TypeOK, MintInv, Tokens, Unminted
<1>2. CASE req[r].op = "kill"
  <2>1. Exp(t) = iat[t[1]] + AccessLife
    BY <1>2 DEF Exp, Life
  <2>2. now + KillLife >= Exp(t)
    BY <1>1, <2>1, ConstantsAssumption
  <2> QED
    BY <1>1, <1>2, <2>2, ConstantsAssumption DEF RevokedUntil, KeyUntil
<1>3. CASE req[r].op # "kill"
  BY <1>1, <1>3 DEF RevokedUntil, KeyUntil
<1> QED
  BY <1>2, <1>3

LEMMA EndedInvStep ==
  ASSUME BaseInv, EndedInv, [Next]_vars
  PROVE  EndedInv'
<1>1. ended \subseteq Tokens
  BY DEF BaseInv, TypeOK
<1>2. \A t \in ended : Exp(t)' = Exp(t) /\ IsMinted(t[1])'
  <2> SUFFICES ASSUME NEW t \in ended PROVE Exp(t)' = Exp(t) /\ IsMinted(t[1])'
    OBVIOUS
  <2>1. t \in Tokens /\ IsMinted(t[1]) /\ t[1] \in Pairs
    BY <1>1 DEF EndedInv, Tokens
  <2>2. iat'[t[1]] = iat[t[1]]
    BY <2>1, GrowsStep DEF Grows, BaseInv
  <2> QED
    BY <2>1, <2>2, ExpKept DEF IsMinted
<1>3. UNCHANGED <<black, ended>> => EndedInv'
  BY <1>2 DEF EndedInv
<1>4. ASSUME NEW r \in Requests, Revoke(r) \/ RevokeRefresh(r) PROVE EndedInv'
  <2>1. PICK t \in Tokens, l \in Pcs :
           /\ RevokeToken(r, t, l)
           /\ t[1] \in {req[r].tok, req[r].tgt}
           /\ req[r].op = "kill" => t[2] = "access"
    BY <1>4, RevokeIsRevokeToken DEF BaseInv
  <2>2. t[1] \in Pairs /\ IsMinted(t[1])
    BY <2>1, ConstantsAssumption DEF BaseInv, MintInv, Sound, Tokens
  <2>3. Exp(t)' = Exp(t) /\ IsMinted(t[1])'
    BY <2>2, ExpKept, GrowsStep DEF Grows, BaseInv, IsMinted
  <2>4. CASE UNCHANGED <<black, ended>>
    BY <1>3, <2>4
  <2>5. CASE black' = [black EXCEPT ![t] = RevokedUntil(r, t)] /\ ended' = ended \cup {t}
    <3>1. black'[t] = RevokedUntil(r, t) /\ \A u \in Tokens \ {t} : black'[u] = black[u]
      BY <2>5 DEF BaseInv, TypeOK
    <3>2. RevokedUntil(r, t) >= Exp(t)
      BY <2>1, RevokedUntilCovers
    <3> QED
      BY <1>1, <1>2, <2>3, <2>5, <3>1, <3>2 DEF EndedInv
  <2> QED
    BY <2>1, <2>4, <2>5, Zenon DEF RevokeToken
<1>5. ASSUME NEW r \in Requests, Start(r) PROVE UNCHANGED <<black, ended>>
  BY <1>5, StartCases, Zenon DEF Arrive, Present, redis, history
<1>6. ASSUME NEW r \in Requests, Proceed(r), ~ Revoke(r), ~ RevokeRefresh(r)
      PROVE  UNCHANGED <<black, ended>>
  <2>1. CASE RecordSession(r)
    BY <2>1, Zenon DEF RecordSession, RecordHash, RecordExpiry, RecordIndex, history
  <2>2. CASE IsRevoked(r) \/ ReadUser(r) \/ SessionOwner(r) \/ DropUser(r)
    BY <2>2, Zenon DEF IsRevoked, ReadUser, SessionOwner, DropUser, redis, history
  <2>3. CASE Mint(r) \/ OauthTokens(r)
    BY <2>3, Zenon DEF Mint, OauthTokens, Minted, redis, history
  <2>4. CASE Unregister(r) \/ ListSessions(r)
    BY <2>4, Zenon DEF Unregister, ListSessions, history
  <2> QED
    BY <1>6, <2>1, <2>2, <2>3, <2>4 DEF Proceed
<1>7. ASSUME NEW u \in Users, Suspend(u) \/ Unsuspend(u) PROVE UNCHANGED <<black, ended>>
  BY <1>7 DEF Suspend, Unsuspend, redis, history
<1>8. ASSUME Tick \/ UNCHANGED vars PROVE UNCHANGED <<black, ended>>
  BY <1>8 DEF Tick, vars, redis, history
<1> QED
  BY <1>3, <1>4, <1>5, <1>6, <1>7, <1>8 DEF Next

LEMMA LateInvStep ==
  ASSUME BaseInv, EndedInv, LateInv, [Next]_vars
  PROVE  LateInv'
<1> SUFFICES ASSUME NEW x \in Requests, req'[x].late
             PROVE  /\ TokenOf(req'[x].op, req'[x].tok) \in ended'
                    /\ req'[x].seen = "live" =>
                          now' >= iat'[TokenOf(req'[x].op, req'[x].tok)[1]]
                                     + Life(TokenOf(req'[x].op, req'[x].tok)[2])
  BY DEF LateInv, LateFits, Expired, Exp, TokenOf, Access, Refresh, Life
<1> DEFINE t == TokenOf(req[x].op, req[x].tok)
<1>1. req[x].late => t \in ended /\ t \in Tokens /\ IsMinted(t[1])
  BY DEF LateInv, LateFits, EndedInv, BaseInv, TypeOK
<1>2. ended \subseteq ended'
  BY GrowsStep DEF Grows, BaseInv
<1>3. ASSUME NEW s \in Tokens, IsMinted(s[1]), Expired(s)
      PROVE  now' >= iat'[s[1]] + Life(s[2])
  BY <1>3, ExpKept DEF Expired, Exp
<1>4. CASE req'[x] = req[x]
  BY <1>1, <1>2, <1>3, <1>4 DEF LateInv, LateFits
<1>5. CASE req'[x] = NoReq
  BY <1>5 DEF NoReq
<1>6. CASE Start(x)
  <2>1. ASSUME NEW u \in Users, NEW op \in {"login", "oauth"}, Arrive(x, u, op)
        PROVE  FALSE
    BY <2>1, ArriveFields DEF BaseInv
  <2>2. PICK op \in Bearing, p \in Pairs, q \in Pairs \cup {NoPair} :
               Named(op, p, q) /\ Present(x, op, p, q)
    BY <1>6, <2>1, StartCases
  <2>3. /\ req'[x].op = op /\ req'[x].tok = p /\ req'[x].seen = "no"
        /\ TokenOf(op, p) \in ended
    BY <2>2, PresentFields DEF BaseInv
  <2> QED
    BY <1>2, <2>3
<1>7. CASE Proceed(x) /\ Onward(x) /\ req'[x] # NoReq
  <2>1. req'[x].op = req[x].op /\ req'[x].tok = req[x].tok /\ req[x].late
    BY <1>7 DEF Onward
  <2>2. t \in ended /\ (req[x].seen = "live" => Expired(t))
    BY <2>1 DEF LateInv, LateFits
  <2>3. ASSUME req'[x].seen = "live" PROVE Expired(t)
    <3>1. CASE IsRevoked(x)
      <4>1. ~ InBlack(t)
        BY <1>7, <2>3, <3>1, IsRevokedFields DEF Token, TokenOf, BaseInv
      <4>2. black[t] \in Int /\ now \in Int /\ Exp(t) \in Int
        BY <1>1, <2>1, ExpTyped, TimesTyped, ConstantsAssumption DEF BaseInv, TypeOK
      <4>3. black[t] >= Exp(t)
        BY <2>2 DEF EndedInv
      <4> QED
        BY <4>1, <4>2, <4>3 DEF InBlack, Expired
    <3>2. CASE ~ IsRevoked(x)
      BY <1>7, <2>2, <2>3, <3>2, SeenKept DEF BaseInv
    <3> QED
      BY <3>1, <3>2
  <2>4. TokenOf(req'[x].op, req'[x].tok) = t /\ t \in Tokens /\ IsMinted(t[1])
    BY <1>1, <2>1
  <2> HIDE DEF t
  <2> QED
    BY <1>2, <1>3, <2>2, <2>3, <2>4
<1> QED
  BY <1>4, <1>5, <1>6, <1>7, OneRequest

(* Once the revocation of a token is stored, no later request with it      *)
(* passes is_revoked on an answer of Redis before the token has expired.   *)
THEOREM RevokedStaysDead == Spec => []RevokedIsDead
<1>1. Init => EndedInv /\ LateInv
  <2> SUFFICES ASSUME Init PROVE EndedInv /\ LateInv
    OBVIOUS
  <2>1. \A r \in Requests : req[r].late = FALSE
    BY DEF Init, NoReq
  <2> QED
    BY <2>1 DEF Init, EndedInv, LateInv, LateFits
<1>2. BaseInv /\ EndedInv /\ LateInv /\ [Next]_vars => (EndedInv /\ LateInv)'
  BY EndedInvStep, LateInvStep
<1>3. LateInv => RevokedIsDead
  BY DEF LateInv, LateFits, RevokedIsDead, Token, TokenOf
<1> QED
  BY <1>1, <1>2, <1>3, BaseHolds, PTL DEF Spec

-----------------------------------------------------------------------------
(* Suspension.  A request whose token was cut off when it came stays       *)
(* before the read of the User node: the date of the suspension is kept    *)
(* when it is lifted, and a later suspension has a later date.             *)
CutFits(q) ==
    q.cut => /\ q.op \in Bearing /\ iat[q.tok] < user[q.who].suspAt
             /\ q.op \notin {"logout", "logoutboth"} => q.pc \in {"check", "user"}

CutInv == \A r \in Requests : CutFits(req[r])

LEMMA CutInvStep ==
  ASSUME BaseInv, CutInv, [Next]_vars
  PROVE  CutInv'
<1> SUFFICES ASSUME NEW x \in Requests, req'[x].cut
             PROVE  /\ req'[x].op \in Bearing
                    /\ iat'[req'[x].tok] < user'[req'[x].who].suspAt
                    /\ req'[x].op \notin {"logout", "logoutboth"}
                          => req'[x].pc \in {"check", "user"}
  BY DEF CutInv, CutFits, Bearing
<1>1. Grows /\ TypeOK /\ TypeOK'
  BY GrowsStep, ShapeStep DEF BaseInv
<1>2. ASSUME NEW p \in Pairs, IsMinted(p), NEW u \in Users, iat[p] < user[u].suspAt
      PROVE  iat'[p] < user'[u].suspAt
  <2>1. iat'[p] = iat[p] /\ user[u].suspAt <= user'[u].suspAt
    BY <1>1, <1>2 DEF Grows
  <2>2. iat[p] \in Int /\ user[u].suspAt \in Int /\ user'[u].suspAt \in Int
    BY <1>1, ConstantsAssumption DEF TypeOK, Unminted
  <2> QED
    BY <1>2, <2>1, <2>2
<1>3. ASSUME req[x].cut
      PROVE  /\ req[x].op \in Bearing /\ req[x].tok \in Pairs /\ req[x].who \in Users
             /\ iat[req[x].tok] < user[req[x].who].suspAt
             /\ iat'[req[x].tok] < user'[req[x].who].suspAt
             /\ req[x].op \notin {"logout", "logoutboth"} => req[x].pc \in {"check", "user"}
  <2>1. /\ req[x].op \in Bearing /\ iat[req[x].tok] < user[req[x].who].suspAt
        /\ req[x].op \notin {"logout", "logoutboth"} => req[x].pc \in {"check", "user"}
    BY <1>3 DEF CutInv, CutFits
  <2>2. req[x].tok \in Pairs /\ req[x].who \in Users
    BY <2>1, ReqTyped DEF BaseInv, Fits, Bearing
  <2>3. IsMinted(req[x].tok)
    BY <2>2, ConstantsAssumption DEF BaseInv, MintInv, Sound
  <2> QED
    BY <1>2, <2>1, <2>2, <2>3
<1>4. CASE req'[x] = req[x]
  BY <1>3, <1>4
<1>5. CASE req'[x] = NoReq
  BY <1>5 DEF NoReq
<1>6. CASE Start(x)
  <2>1. ASSUME NEW u \in Users, NEW op \in {"login", "oauth"}, Arrive(x, u, op)
        PROVE  FALSE
    BY <2>1, ArriveFields DEF BaseInv
  <2>2. PICK op \in Bearing, p \in Pairs, q \in Pairs \cup {NoPair} :
               Named(op, p, q) /\ Present(x, op, p, q)
    BY <1>6, <2>1, StartCases
  <2>3. /\ req'[x].pc = IF op \in {"logout", "logoutboth"} THEN "revoke" ELSE "check"
        /\ req'[x].op = op /\ req'[x].who = OwnerOf[p] /\ req'[x].tok = p
        /\ iat[p] < user[OwnerOf[p]].suspAt
    BY <2>2, PresentFields DEF BaseInv
  <2>4. OwnerOf[p] \in Users /\ IsMinted(p)
    BY <2>2, ConstantsAssumption DEF Present, BaseInv, MintInv
  <2>5. iat'[p] < user'[OwnerOf[p]].suspAt
    BY <1>2, <2>3, <2>4
  <2> QED
    BY <2>3, <2>5
<1>7. CASE Proceed(x) /\ Onward(x) /\ req'[x] # NoReq
  <2>1. /\ req'[x].op = req[x].op /\ req'[x].tok = req[x].tok /\ req'[x].who = req[x].who
        /\ req[x].cut
    BY <1>7 DEF Onward
  <2>2. ASSUME req[x].op \notin {"logout", "logoutboth"} PROVE req'[x].pc \in {"check", "user"}
    <3>1. req[x].pc \in {"check", "user"}
      BY <1>3, <2>1, <2>2
    <3>2. CASE IsRevoked(x)
      BY <1>1, <1>7, <3>2, IsRevokedFields
    <3>3. ~ ReadUser(x)
      <4> SUFFICES ASSUME ReadUser(x) PROVE FALSE
        OBVIOUS
      <4>1. Enforced(x)
        BY <1>1, <1>7, ReadUserFields
      <4>2. req[x].op \notin {"login", "oauth"}
        BY <1>3, <2>1 DEF Bearing
      <4>3. iat[req[x].tok] >= user[req[x].who].suspAt
        BY <4>1, <4>2 DEF Enforced
      <4>4. iat[req[x].tok] \in Int /\ user[req[x].who].suspAt \in Int
        BY <1>1, <1>3, <2>1, ConstantsAssumption DEF TypeOK, Unminted
      <4> QED
        BY <1>3, <2>1, <4>3, <4>4
    <3>4. ~ RecordSession(x)
      BY <3>1 DEF RecordSession, RecordHash, RecordExpiry, RecordIndex
    <3>5. ~ (Mint(x) \/ OauthTokens(x) \/ Revoke(x) \/ RevokeRefresh(x)
              \/ SessionOwner(x) \/ DropUser(x))
      BY <3>1 DEF Mint, OauthTokens, Minted, Revoke, RevokeRefresh, SessionOwner, DropUser
    <3>6. ~ Unregister(x) /\ ~ ListSessions(x)
      BY <3>1 DEF Unregister, ListSessions
    <3> QED
      BY <1>7, <3>2, <3>3, <3>4, <3>5, <3>6 DEF Proceed
  <2> QED
    BY <1>3, <2>1, <2>2
<1> QED
  BY <1>4, <1>5, <1>6, <1>7, OneRequest

(* A token from before a suspension gets no further than the read of the   *)
(* User node, and a session is revoked or removed only for its own user.   *)
THEOREM CutOffNeverPasses == Spec => []CutOffStaysOut
<1>1. Init => CutInv
  <2> SUFFICES ASSUME Init, NEW r \in Requests PROVE CutFits(req[r])
    BY DEF CutInv
  <2>1. ~ req[r].cut
    BY DEF Init, NoReq
  <2> QED
    BY <2>1 DEF CutFits
<1>2. BaseInv /\ CutInv /\ [Next]_vars => CutInv'
  BY CutInvStep
<1>3. BaseInv /\ CutInv => CutOffStaysOut
  <2> SUFFICES ASSUME BaseInv, CutInv, NEW r \in Requests
               PROVE  /\ req[r].cut /\ req[r].op \notin {"logout", "logoutboth"}
                            => req[r].pc \in {"check", "user"}
                      /\ req[r].pc \in {"revoke", "revokerefresh", "hget", "del", "zrem"}
                            /\ req[r].tgt # NoPair => OwnerOf[req[r].tgt] = req[r].who
    BY DEF CutOffStaysOut
  <2>1. req[r].cut /\ req[r].op \notin {"logout", "logoutboth"} => req[r].pc \in {"check", "user"}
    BY DEF CutInv, CutFits
  <2>2. ASSUME req[r].pc \in {"revoke", "revokerefresh", "hget", "del", "zrem"}, req[r].tgt # NoPair
        PROVE  OwnerOf[req[r].tgt] = req[r].who
    <3>1. req[r] \in Reqs /\ Fits(req[r]) /\ req[r].op # "none"
      BY <2>2, ReqTyped DEF BaseInv
    <3>2. req[r].op \in {"kill", "leave", "logout", "logoutboth"}
      BY <2>2, <3>1 DEF Fits, Recording, Removing, Reqs, Ops
    <3> QED
      BY <2>2, <3>1, <3>2 DEF Fits, Removing, Bearing
  <2> QED
    BY <2>1, <2>2
<1> QED
  BY <1>1, <1>2, <1>3, BaseHolds, PTL DEF Spec

-----------------------------------------------------------------------------
(* The list of sessions.  What is recorded stays in the hash and in the    *)
(* index until the access token expires or somebody dismisses the session; *)
(* who removes an entry knows that one of both has happened.               *)
Gone(p)      == Expired(Access(p)) \/ p \in dismissed
HashSafe(p)  == Gone(p) \/ hash[p] >= Exp(Access(p))
IndexSafe(p) == Gone(p) \/ zset[p] = Exp(Access(p))

ListFits(q) ==
    /\ q.pc \in Removing => q.tgt \in dismissed
    /\ q.pc = "forget" => Gone(q.tgt)
    /\ q.pc \in {"expireat", "zadd"} => HashSafe(q.tgt)

ListInv ==
    /\ \A p \in recorded : HashSafe(p) /\ IndexSafe(p)
    /\ \A r \in Requests : ListFits(req[r])

(* A request names a pair at these places.                                 *)
LEMMA TargetMinted ==
  ASSUME BaseInv, NEW r \in Requests,
         req[r].pc \in {"revoke", "revokerefresh", "forget"} \cup Recording \cup Removing,
         req[r].op # "refresh" \/ req[r].pc # "revoke"
  PROVE  req[r].tgt \in Pairs /\ IsMinted(req[r].tgt)
<1>1. req[r] \in Reqs /\ Fits(req[r]) /\ req[r].op # "none"
  BY ReqTyped DEF BaseInv, Recording, Removing
<1>2. req[r].tgt \in Pairs
  BY <1>1 DEF Fits, Bearing, Recording, Removing, Reqs, Ops
<1> QED
  BY <1>2, ConstantsAssumption DEF BaseInv, MintInv, Sound

LEMMA TimesKept ==
  ASSUME BaseInv, [Next]_vars, NEW p \in Pairs, IsMinted(p)
  PROVE  /\ now \in Int /\ now' \in Int /\ now <= now'
         /\ Exp(Access(p)) \in Int /\ Exp(Access(p)) <= Forever /\ Forever \in Int
         /\ hash[p] \in Int /\ hash'[p] \in Int /\ zset[p] \in Int
         /\ Exp(Access(p))' = Exp(Access(p))
         /\ Gone(p) => Gone(p)'
<1>1. Grows /\ TypeOK /\ TypeOK'
  BY GrowsStep, ShapeStep DEF BaseInv
<1>2. Access(p) \in Tokens /\ Access(p)[1] = p
  BY DEF Access, Tokens
<1>3. /\ Exp(Access(p))' = Exp(Access(p)) /\ Exp(Access(p)) \in Int
      /\ Expired(Access(p)) => Expired(Access(p))'
  BY <1>2, ExpKept DEF Access
<1>4. Exp(Access(p)) <= Forever /\ Forever \in Int
  BY <1>1, <1>2, ExpTyped, TimesTyped
<1>5. now \in Int /\ now' \in Int /\ now <= now'
  BY <1>1, ConstantsAssumption DEF Grows, TypeOK
<1>6. hash[p] \in Int /\ hash'[p] \in Int /\ zset[p] \in Int
  BY <1>1, TimesTyped DEF TypeOK
<1>7. Gone(p) => Gone(p)'
  BY <1>1, <1>3 DEF Gone, Grows
<1> QED
  BY <1>3, <1>4, <1>5, <1>6, <1>7

(* The writers of the registry.                                            *)
LEMMA RegistryWriters ==
  ASSUME [Next]_vars
  PROVE  /\ \/ UNCHANGED hash
            \/ \E r \in Requests : RecordHash(r) \/ RecordExpiry(r) \/ Unregister(r)
         /\ \/ UNCHANGED zset
            \/ \E r \in Requests : RecordIndex(r) \/ Unregister(r) \/ ListSessions(r)
<1>1. ASSUME NEW r \in Requests, Start(r) PROVE UNCHANGED <<hash, zset>>
  BY <1>1, StartCases, Zenon DEF Arrive, Present, redis
<1>2. ASSUME NEW r \in Requests, RecordHash(r) \/ RecordExpiry(r) PROVE UNCHANGED zset
  BY <1>2, Zenon DEF RecordHash, RecordExpiry
<1>3. ASSUME NEW r \in Requests, RecordIndex(r) \/ ListSessions(r) PROVE UNCHANGED hash
  BY <1>3, Zenon DEF RecordIndex, ListSessions
<1>4. ASSUME NEW r \in Requests,
             IsRevoked(r) \/ ReadUser(r) \/ SessionOwner(r) \/ DropUser(r)
                \/ Mint(r) \/ OauthTokens(r) \/ Revoke(r) \/ RevokeRefresh(r)
      PROVE  UNCHANGED <<hash, zset>>
  BY <1>4, Zenon DEF IsRevoked, ReadUser, SessionOwner, DropUser, Mint, OauthTokens, Minted,
                     Revoke, RevokeRefresh, RevokeToken, redis
<1>5. ASSUME NEW u \in Users, Suspend(u) \/ Unsuspend(u) PROVE UNCHANGED <<hash, zset>>
  BY <1>5 DEF Suspend, Unsuspend, redis
<1>6. ASSUME Tick \/ UNCHANGED vars PROVE UNCHANGED <<hash, zset>>
  BY <1>6 DEF Tick, vars, redis
<1> QED
  BY <1>1, <1>2, <1>3, <1>4, <1>5, <1>6 DEF Next, Proceed, RecordSession

LEMMA HashKept ==
  ASSUME BaseInv, ListInv, [Next]_vars, NEW p \in Pairs, IsMinted(p), HashSafe(p)
  PROVE  HashSafe(p)'
<1>1. /\ now \in Int /\ now' \in Int /\ now <= now'
      /\ Exp(Access(p)) \in Int /\ Exp(Access(p)) <= Forever /\ Forever \in Int
      /\ hash[p] \in Int /\ hash'[p] \in Int
      /\ Exp(Access(p))' = Exp(Access(p))
      /\ Gone(p) => Gone(p)'
  BY TimesKept
<1>2. CASE Gone(p)
  BY <1>1, <1>2 DEF HashSafe
<1>3. SUFFICES ASSUME ~ Gone(p), hash[p] >= Exp(Access(p)), now < Exp(Access(p))
               PROVE  hash'[p] >= Exp(Access(p)) \/ Gone(p)'
  <2>1. ~ Gone(p) => now < Exp(Access(p))
    BY <1>1 DEF Gone, Expired
  <2> QED
    BY <1>1, <1>2, <2>1 DEF HashSafe
<1>4. hash \in [Pairs -> 0 .. Forever]
  BY DEF BaseInv, TypeOK
<1>5. ASSUME NEW r \in Requests, RecordHash(r) PROVE hash'[p] >= Exp(Access(p))
  <2>1. hash' = [hash EXCEPT ![req[r].tgt] = Forever] \/ UNCHANGED hash
    BY <1>5, Zenon DEF RecordHash
  <2> QED
    BY <1>1, <1>3, <1>4, <2>1
<1>6. ASSUME NEW r \in Requests, RecordExpiry(r) PROVE hash'[p] >= Exp(Access(p))
  <2>1. \/ hash' = [hash EXCEPT ![req[r].tgt] =
                      IF HasHash(req[r].tgt) THEN Exp(Access(req[r].tgt)) ELSE 0]
        \/ UNCHANGED hash
    BY <1>6, Zenon DEF RecordExpiry
  <2>2. HasHash(p)
    BY <1>1, <1>3 DEF HasHash
  <2> QED
    BY <1>1, <1>3, <1>4, <2>1, <2>2
<1>7. ASSUME NEW r \in Requests, Unregister(r) PROVE hash'[p] >= Exp(Access(p)) \/ Gone(p)'
  <2>1. \/ req[r].pc = "del" /\ hash' = [hash EXCEPT ![req[r].tgt] = 0]
        \/ UNCHANGED hash
    BY <1>7, Zenon DEF Unregister
  <2>2. req[r].pc = "del" => req[r].tgt \in dismissed
    BY DEF ListInv, ListFits, Removing
  <2>3. p # req[r].tgt \/ UNCHANGED hash
    BY <1>3, <2>1, <2>2 DEF Gone
  <2> QED
    BY <1>1, <1>3, <1>4, <2>1, <2>3
<1> QED
  BY <1>3, <1>5, <1>6, <1>7, RegistryWriters

LEMMA IndexKept ==
  ASSUME BaseInv, ListInv, [Next]_vars, NEW p \in Pairs, IsMinted(p), IndexSafe(p)
  PROVE  IndexSafe(p)'
<1>1. /\ now \in Int /\ Exp(Access(p)) \in Int /\ zset[p] \in Int
      /\ Exp(Access(p))' = Exp(Access(p))
      /\ Gone(p) => Gone(p)'
  BY TimesKept
<1>2. CASE Gone(p)
  BY <1>1, <1>2 DEF IndexSafe
<1>3. SUFFICES ASSUME ~ Gone(p), zset[p] = Exp(Access(p)), now < Exp(Access(p))
               PROVE  zset'[p] = Exp(Access(p))
  <2>1. ~ Gone(p) => now < Exp(Access(p))
    BY <1>1 DEF Gone, Expired
  <2> QED
    BY <1>1, <1>2, <2>1 DEF IndexSafe
<1>4. zset \in [Pairs -> 0 .. Horizon]
  BY DEF BaseInv, TypeOK
<1>5. ASSUME NEW r \in Requests, RecordIndex(r) PROVE zset'[p] = Exp(Access(p))
  <2>1. zset' = [zset EXCEPT ![req[r].tgt] = Exp(Access(req[r].tgt))] \/ UNCHANGED zset
    BY <1>5, Zenon DEF RecordIndex
  <2> QED
    BY <1>3, <1>4, <2>1
<1>6. ASSUME NEW r \in Requests, Unregister(r) PROVE zset'[p] = Exp(Access(p))
  <2>1. \/ req[r].pc = "zrem" /\ zset' = [zset EXCEPT ![req[r].tgt] = 0]
        \/ UNCHANGED zset
    BY <1>6, Zenon DEF Unregister
  <2>2. req[r].pc = "zrem" => req[r].tgt \in dismissed
    BY DEF ListInv, ListFits, Removing
  <2>3. p # req[r].tgt \/ UNCHANGED zset
    BY <1>3, <2>1, <2>2 DEF Gone
  <2> QED
    BY <1>3, <1>4, <2>1, <2>3
<1>7. ASSUME NEW r \in Requests, ListSessions(r) PROVE zset'[p] = Exp(Access(p))
  <2>1. \/ zset' = [x \in Pairs |-> IF OwnerOf[x] = req[r].who /\ zset[x] <= now
                                   THEN 0 ELSE zset[x]]
        \/ req[r].pc = "forget" /\ zset' = [zset EXCEPT ![req[r].tgt] = 0]
        \/ UNCHANGED zset
    BY <1>7, Zenon DEF ListSessions
  <2>2. req[r].pc = "forget" => req[r].tgt # p
    BY <1>3 DEF ListInv, ListFits
  <2>3. ~ (zset[p] <= now)
    BY <1>1, <1>3
  <2> QED
    BY <1>3, <1>4, <2>1, <2>2, <2>3
<1> QED
  BY <1>3, <1>5, <1>6, <1>7, RegistryWriters

(* A request's own step keeps what it knows of the session it is about.    *)
LEMMA ListFitsStep ==
  ASSUME BaseInv, ListInv, [Next]_vars, NEW x \in Requests
  PROVE  ListFits(req[x])'
<1>1. TypeOK /\ Shape /\ dismissed \subseteq dismissed'
  BY GrowsStep DEF BaseInv, Grows
<1>2. ASSUME req'[x] = req[x] PROVE ListFits(req[x])'
  <2>1. ListFits(req[x])
    BY DEF ListInv
  <2>2. ASSUME req[x].pc = "forget" PROVE Gone(req[x].tgt)'
    <3>1. \A p \in Pairs : IsMinted(p) /\ Gone(p) => Gone(p)'
      BY TimesKept
    <3>2. req[x].tgt \in Pairs /\ IsMinted(req[x].tgt)
      BY <2>2, TargetMinted
    <3>3. PICK p \in Pairs : p = req[x].tgt
      BY <3>2
    <3>4. Gone(p)'
      BY <2>1, <2>2, <3>1, <3>2, <3>3 DEF ListFits
    <3> QED
      BY <1>2, <3>3, <3>4 DEF Gone, Expired, Exp, Access
  <2>3. ASSUME req[x].pc \in {"expireat", "zadd"} PROVE HashSafe(req[x].tgt)'
    <3>1. \A p \in Pairs : IsMinted(p) /\ HashSafe(p) => HashSafe(p)'
      BY HashKept
    <3>2. req[x].tgt \in Pairs /\ IsMinted(req[x].tgt)
      BY <2>3, TargetMinted DEF Recording
    <3>3. PICK p \in Pairs : p = req[x].tgt
      BY <3>2
    <3>4. HashSafe(p)'
      BY <2>1, <2>3, <3>1, <3>2, <3>3 DEF ListFits
    <3> QED
      BY <1>2, <3>3, <3>4 DEF HashSafe, Gone, Expired, Exp, Access
  <2> QED
    BY <1>1, <1>2, <2>1, <2>2, <2>3 DEF ListFits
<1>3. ASSUME req'[x].pc \notin {"forget", "expireat", "zadd"} \cup Removing
      PROVE  ListFits(req[x])'
  BY <1>3 DEF ListFits, Removing
<1>4. CASE req'[x] = NoReq
  BY <1>3, <1>4 DEF NoReq, Removing
<1>5. CASE Start(x)
  BY <1>1, <1>3, <1>5, StartCases, ArriveFields, PresentFields DEF Removing
<1>6. CASE Proceed(x) /\ Onward(x) /\ req'[x] # NoReq
  <2>1. CASE IsRevoked(x) \/ SessionOwner(x) \/ DropUser(x) \/ Mint(x)
    BY <1>1, <1>3, <1>6, <2>1, IsRevokedFields, SessionOwnerFields, DropUserFields, MintFields
       DEF Removing
  <2>2. CASE ReadUser(x)
    <3>1. req'[x].pc \in {"mint", "revoke", "purge", "owner", "drop", "idle"}
      BY <1>1, <1>6, <2>2, ReadUserFields DEF AfterUser
    <3> QED
      BY <1>3, <3>1 DEF Removing
  <2>3. ~ OauthTokens(x)
    BY <1>1, <1>6, FinishFields DEF OauthTokens
  <2>4. CASE RecordSession(x)
    <3>1. /\ req'[x].tgt = req[x].tgt
          /\ \/ RecordHash(x) /\ RedisOk /\ req'[x].pc = "expireat"
             \/ RecordExpiry(x) /\ req[x].pc = "expireat" /\ req'[x].pc = "zadd"
      BY <1>1, <1>6, <2>4, RecordFields DEF Kept
    <3>2. req[x].pc \in Recording
      BY <2>4 DEF RecordSession, RecordHash, RecordExpiry, RecordIndex, Recording
    <3>3. req[x].tgt \in Pairs /\ IsMinted(req[x].tgt)
      BY <3>2, TargetMinted DEF Recording
    <3>4. PICK p \in Pairs : p = req[x].tgt /\ IsMinted(p)
      BY <3>3
    <3>5. CASE RecordExpiry(x) /\ req[x].pc = "expireat"
      <4>1. HashSafe(p)
        BY <3>4, <3>5 DEF ListInv, ListFits
      <4>2. HashSafe(p)'
        BY <3>4, <4>1, HashKept
      <4> QED
        BY <3>1, <3>4, <4>2, <3>5 DEF ListFits, Removing, HashSafe, Gone, Expired, Exp, Access,
                                      RecordHash
    <3>6. CASE RecordHash(x) /\ RedisOk /\ req'[x].pc = "expireat"
      <4>1. faults' = faults
        BY <3>6 DEF RedisOk
      <4>2. hash' = [hash EXCEPT ![req[x].tgt] = Forever]
        <5>1. CASE RedisFails
          <6>1. faults \in Int
            BY <1>1, ConstantsAssumption DEF TypeOK
          <6> QED
            BY <4>1, <5>1, <6>1 DEF RedisFails
        <5> QED
          BY <3>6, <5>1, Zenon DEF RecordHash
      <4>3. hash'[p] = Forever
        BY <3>4, <4>2, <1>1 DEF TypeOK
      <4>4. hash'[p] >= Exp(Access(p))'
        BY <3>4, <4>3, TimesKept
      <4> QED
        BY <3>1, <3>4, <4>4, <3>6 DEF ListFits, Removing, HashSafe, Gone, Expired, Exp, Access
    <3> QED
      BY <3>1, <3>5, <3>6
  <2>5. CASE Revoke(x) \/ RevokeRefresh(x)
    <3>1. PICK t \in Tokens, l \in Pcs :
             /\ RevokeToken(x, t, l)
             /\ \/ req[x].pc = "revoke" /\ l = AfterRevoke(req[x].op)
                \/ req[x].pc = "revokerefresh" /\ l = "hget"
      BY <1>1, <2>5, RevokeIsRevokeToken
    <3>2. /\ req'[x].pc = l /\ req'[x].tgt = req[x].tgt
          /\ l = "hget" => req[x].tgt \in dismissed'
      BY <1>1, <1>6, <3>1, RevokeFields DEF Kept
    <3>3. l \in {"mint", "revokerefresh", "hget"}
      BY <3>1 DEF AfterRevoke
    <3> QED
      BY <3>2, <3>3 DEF ListFits, Removing
  <2>6. CASE Unregister(x)
    <3>1. req[x].pc \in Removing /\ req'[x].pc \in {"del", "zrem"} /\ req'[x].tgt = req[x].tgt
      BY <1>1, <1>6, <2>6, UnregisterFields DEF Kept
    <3>2. req[x].tgt \in dismissed
      BY <3>1 DEF ListInv, ListFits
    <3> QED
      BY <1>1, <3>1, <3>2 DEF ListFits
  <2>7. CASE ListSessions(x)
    <3>1. /\ req'[x].pc \in {"range", "visit", "forget"}
          /\ req'[x].pc = "forget" => req'[x].tgt \in req[x].todo /\ ~ HasHash(req'[x].tgt)
      BY <1>1, <1>6, <2>7, ListFields
    <3>2. ASSUME req'[x].pc = "forget"
          PROVE  ListFits(req[x])'
      <4>1. req[x].todo \subseteq recorded /\ recorded \subseteq Pairs
        BY DEF BaseInv, MintInv, Sound, TypeOK
      <4>2. PICK p \in Pairs : p = req'[x].tgt /\ p \in recorded /\ ~ HasHash(p)
        BY <3>1, <3>2, <4>1
      <4>3. IsMinted(p) /\ HashSafe(p)
        BY <4>2 DEF BaseInv, MintInv, ListInv
      <4>4. /\ now \in Int /\ hash[p] \in Int /\ Exp(Access(p)) \in Int
            /\ Gone(p) => Gone(p)'
        BY <4>3, TimesKept
      <4>5. Gone(p)
        BY <4>2, <4>3, <4>4 DEF HasHash, HashSafe, Gone, Expired
      <4>6. Gone(p)'
        BY <4>4, <4>5
      <4> QED
        BY <3>2, <4>2, <4>6 DEF ListFits, Removing, Gone, Expired, Exp, Access
    <3> QED
      BY <1>3, <3>1, <3>2 DEF Removing
  <2> QED
    BY <1>6, <2>1, <2>2, <2>3, <2>4, <2>5, <2>6, <2>7 DEF Proceed
<1> QED
  BY <1>2, <1>4, <1>5, <1>6, OneRequest

LEMMA ListInvStep ==
  ASSUME BaseInv, ListInv, [Next]_vars
  PROVE  ListInv'
<1>1. recorded \subseteq Pairs /\ \A p \in recorded : IsMinted(p) /\ HashSafe(p) /\ IndexSafe(p)
  BY DEF BaseInv, TypeOK, MintInv, ListInv
<1>2. \A p \in recorded : HashSafe(p)' /\ IndexSafe(p)'
  BY <1>1, HashKept, IndexKept
<1>3. \/ UNCHANGED recorded
      \/ \E r \in Requests :
            /\ req[r].pc = "zadd" /\ recorded' = recorded \cup {req[r].tgt}
            /\ zset' = [zset EXCEPT ![req[r].tgt] = Exp(Access(req[r].tgt))]
  <2>1. ASSUME NEW r \in Requests, Start(r) PROVE UNCHANGED recorded
    BY <2>1, StartCases, Zenon DEF Arrive, Present, history
  <2>2. ASSUME NEW r \in Requests, Proceed(r), ~ RecordIndex(r) PROVE UNCHANGED recorded
    <3>1. CASE RecordHash(r) \/ RecordExpiry(r)
      BY <3>1, Zenon DEF RecordHash, RecordExpiry, history
    <3>2. CASE IsRevoked(r) \/ ReadUser(r) \/ SessionOwner(r) \/ DropUser(r)
      BY <3>2, Zenon DEF IsRevoked, ReadUser, SessionOwner, DropUser, history
    <3>3. CASE Mint(r) \/ OauthTokens(r)
      BY <3>3, Zenon DEF Mint, OauthTokens, Minted, history
    <3>4. CASE Unregister(r) \/ ListSessions(r)
      BY <3>4, Zenon DEF Unregister, ListSessions, history
    <3>5. CASE Revoke(r) \/ RevokeRefresh(r)
      BY <3>5, Zenon DEF Revoke, RevokeRefresh, RevokeToken
    <3> QED
      BY <2>2, <3>1, <3>2, <3>3, <3>4, <3>5 DEF Proceed, RecordSession
  <2>3. ASSUME NEW r \in Requests, RecordIndex(r)
        PROVE  \/ UNCHANGED recorded
               \/ /\ req[r].pc = "zadd" /\ recorded' = recorded \cup {req[r].tgt}
                  /\ zset' = [zset EXCEPT ![req[r].tgt] = Exp(Access(req[r].tgt))]
    BY <2>3, Zenon DEF RecordIndex
  <2>4. ASSUME NEW u \in Users, Suspend(u) \/ Unsuspend(u) PROVE UNCHANGED recorded
    BY <2>4 DEF Suspend, Unsuspend, history
  <2>5. ASSUME Tick \/ UNCHANGED vars PROVE UNCHANGED recorded
    BY <2>5 DEF Tick, vars, history
  <2> QED
    BY <2>1, <2>2, <2>3, <2>4, <2>5 DEF Next
<1>4. ASSUME NEW r \in Requests, req[r].pc = "zadd",
             zset' = [zset EXCEPT ![req[r].tgt] = Exp(Access(req[r].tgt))],
             NEW p, p = req[r].tgt
      PROVE  HashSafe(p)' /\ IndexSafe(p)'
  <2>1. p \in Pairs /\ IsMinted(p)
    BY <1>4, TargetMinted DEF Recording
  <2>2. HashSafe(p)
    BY <1>4 DEF ListInv, ListFits
  <2>3. zset'[p] = Exp(Access(p))
    BY <1>4, <2>1 DEF BaseInv, TypeOK
  <2>4. Exp(Access(p))' = Exp(Access(p))
    BY <2>1, TimesKept
  <2> QED
    BY <2>1, <2>2, <2>3, <2>4, HashKept DEF IndexSafe
<1>5. \A p \in recorded' : HashSafe(p)' /\ IndexSafe(p)'
  BY <1>2, <1>3, <1>4
<1>6. \A x \in Requests : ListFits(req[x])'
  BY ListFitsStep
<1> QED
  BY <1>5, <1>6 DEF ListInv

(* A session that was recorded completely is listed as long as its access  *)
(* token lives and nobody dismisses it.                                    *)
THEOREM LiveSessionsAreListed == Spec => []LiveSessionListed
<1>1. Init => ListInv
  <2> SUFFICES ASSUME Init PROVE ListInv
    OBVIOUS
  <2>1. recorded = {} /\ \A r \in Requests : req[r].pc = "idle"
    BY DEF Init, NoReq
  <2> QED
    BY <2>1 DEF ListInv, ListFits, Removing
<1>2. BaseInv /\ ListInv /\ [Next]_vars => ListInv'
  BY ListInvStep
<1>3. BaseInv /\ ListInv => LiveSessionListed
  <2> SUFFICES ASSUME BaseInv, ListInv, NEW p \in recorded,
                      ~ Expired(Access(p)), p \notin dismissed
               PROVE  HasHash(p) /\ zset[p] > now
    BY DEF LiveSessionListed
  <2>1. p \in Pairs /\ hash[p] >= Exp(Access(p)) /\ zset[p] = Exp(Access(p))
    BY DEF ListInv, HashSafe, IndexSafe, Gone, BaseInv, TypeOK
  <2>2. Access(p) \in Tokens
    BY <2>1 DEF Access, Tokens
  <2>3. now \in Int /\ hash[p] \in Int /\ Exp(Access(p)) \in Int
    BY <2>1, <2>2, ExpTyped, TimesTyped, ConstantsAssumption DEF BaseInv, TypeOK
  <2>4. now < Exp(Access(p))
    BY <2>3 DEF Expired
  <2> QED
    BY <2>1, <2>3, <2>4 DEF HasHash
<1> QED
  BY <1>1, <1>2, <1>3, BaseHolds, PTL DEF Spec
=============================================================================
