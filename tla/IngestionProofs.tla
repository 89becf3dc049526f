--------------------------- MODULE IngestionProofs ---------------------------
(***************************************************************************)
(* Proofs about Ingestion: its types, that robots.txt is obeyed, that the  *)
(* answers' counts add up to the table, and that no stored event regresses.*)
(*                                                                         *)
(* A step concerns one request (Local), or is an arrival, a commit or a    *)
(* change of the site.  Each of RobotsInv, InsertInv and RowInv is shown   *)
(* to survive these with the types (Typed) and shapes (Shape) of requests. *)
(***************************************************************************)
EXTENDS Ingestion, FiniteSetTheorems, TLAPS

Caches   == {"none", "all", "listOnly", "nothing", "unknown"}
Pcs      == {"idle", "allowed", "page", "detail", "view", "raw", "select", "insert", "update"}
Sweeping == {"allowed", "page"}
Crawling == Sweeping \cup {"detail", "view"}
Storing  == {"select", "insert", "update"}

(* Where a request can be, for which sources, and what it has by then.     *)
Fits(x) ==
    /\ x.i \in 1 .. Len(x.queue) + 1
    /\ x.pc = "idle" => x.src = "none"
    /\ x.pc \in Sweeping => x.src \in Boards
    /\ x.pc \in {"detail", "view"} => x.src \in WithDetail
    /\ x.pc = "raw" => x.src \in Apis
    /\ x.pc \in Storing => x.src \in Sources
    /\ x.pc \in {"view", "insert", "update"} => x.i <= Len(x.queue)
    /\ x.pc \notin Storing => x.buf = <<>> /\ x.ins = 0

Shape == \A r \in Requests : Fits(req[r])

(* The site was edited at most as often as it changed.                     *)
Edited == \A rec \in Records : ver[rec] <= changes

(* What a crawl may fetch by its parsed file was permitted since it began. *)
RobotsFit(x) ==
    x.pc \in Crawling =>
        /\ Permits(robots) \subseteq x.permitted
        /\ \A kind \in {"list", "detail"} : CanFetch(x.cache, kind) => kind \in x.permitted
        /\ x.pc = "page" => "list" \in x.permitted
        /\ x.pc = "view" => "detail" \in x.permitted

RobotsInv == \A r \in Requests : RobotsFit(req[r])

(* What a transaction has inserted, with the row it is about to insert.    *)
Pending(x) == IF x.pc = "insert" THEN 1 ELSE 0

InsertFit(x, k) ==
    /\ IsFiniteSet(DOMAIN x.buf)
    /\ x.ins = Cardinality(DOMAIN x.buf \ DOMAIN table) + Pending(x)
    /\ x.pc = "insert" => k \notin DOMAIN x.buf
    /\ x.pc = "update" => k \in DOMAIN x.buf \cup DOMAIN table

InsertInv ==
    /\ IsFiniteSet(DOMAIN table) /\ reported = Cardinality(DOMAIN table)
    /\ \A r \in Requests : InsertFit(req[r], KeyOf(r, Post(r)))
    /\ \A r, q \in Requests : r # q => DOMAIN req[r].buf \cap DOMAIN req[q].buf = {}

(* The details of a post that is ready to be stored.                       *)
Detailed(x, p) ==
    /\ x.src \in WithDetail => (p.det = NoDetail => p.rec \in x.hindered)
    /\ x.src \in Boards \ WithDetail => p.det = NoDetail
    /\ x.src \in Apis => p.det # NoDetail

(* A post is never newer than its source, and never older than the stored  *)
(* event if no other request collects the source.                          *)
Recent(r, p) ==
    /\ p.v <= ver[p.rec]
    /\ ~ req[r].met /\ KeyOf(r, p) \in DOMAIN table => table[KeyOf(r, p)].v <= p.v

QueueFit(r, x) ==
    \A j \in 1 .. Len(x.queue) :
        /\ Recent(r, x.queue[j])
        /\ x.pc \in {"detail", "view"} /\ j < x.i => Detailed(x, x.queue[j])
        /\ x.pc \in Sweeping => x.queue[j].det = NoDetail
        /\ x.pc \in Storing => Detailed(x, x.queue[j])

BufFit(r, x) ==
    \A k \in DOMAIN x.buf :
        k = KeyOf(r, x.buf[k]) /\ Recent(r, x.buf[k]) /\ Detailed(x, x.buf[k])

TableFit(k) ==
    /\ table[k].rec = k[2][1] /\ table[k].v <= ver[table[k].rec]
    /\ k[1] \in Boards \ WithDetail => table[k].det = NoDetail

(* Requests that collect one source at once know of it.                    *)
Paired(r, q) == r # q /\ req[r].src = req[q].src /\ req[r].src # "none" => req[r].met

RowInv ==
    /\ \A r \in Requests : QueueFit(r, req[r]) /\ BufFit(r, req[r])
    /\ \A k \in DOMAIN table : TableFit(k)
    /\ \A r, q \in Requests : Paired(r, q)

-----------------------------------------------------------------------------
(* Rows by their keys, and what a request is.                              *)
Rows == UNION {[D -> Posts] : D \in SUBSET Keys}

Reqs == [pc : Pcs, src : Sources \cup {"none"}, page : 1 .. Pages, queue : Seq(Posts), i : Nat,
         cache : Caches, attempt : 0 .. MaxRetries, buf : Rows, ins : Nat,
         permitted : SUBSET {"list", "detail"}, hindered : SUBSET Records, met : BOOLEAN]

Typed ==
    /\ ver \in [Records -> Versions] /\ robots \in Answers /\ table \in Rows
    /\ req \in [Requests -> Reqs]
    /\ started \in 0 .. MaxRequests /\ faults \in 0 .. MaxFaults
    /\ changes \in 0 .. MaxChanges /\ reported \in Nat

(* The only request that a step changes.                                   *)
Becomes(r, e) == req' = [req EXCEPT ![r] = e]

LEMMA RowsDef ==
  ASSUME NEW f
  PROVE  f \in Rows <=> /\ f = [k \in DOMAIN f |-> f[k]] /\ DOMAIN f \subseteq Keys
                        /\ \A k \in DOMAIN f : f[k] \in Posts
<1>1. ASSUME f \in Rows
      PROVE  /\ f = [k \in DOMAIN f |-> f[k]] /\ DOMAIN f \subseteq Keys
             /\ \A k \in DOMAIN f : f[k] \in Posts
  <2>1. PICK D \in SUBSET Keys : f \in [D -> Posts]
    BY <1>1 DEF Rows
  <2> QED
    BY <2>1
<1>2. ASSUME f = [k \in DOMAIN f |-> f[k]], DOMAIN f \subseteq Keys,
             \A k \in DOMAIN f : f[k] \in Posts
      PROVE  f \in Rows
  <2>1. f \in [DOMAIN f -> Posts]
    BY <1>2
  <2> QED
    BY <1>2, <2>1 DEF Rows
<1> QED
  BY <1>1, <1>2

LEMMA Overlay ==
  ASSUME NEW f \in Rows, NEW g \in Rows
  PROVE  /\ Over(f, g) \in Rows /\ DOMAIN Over(f, g) = DOMAIN f \cup DOMAIN g
         /\ \A k \in DOMAIN f : Over(f, g)[k] = f[k]
         /\ \A k \in DOMAIN g \ DOMAIN f : Over(f, g)[k] = g[k]
<1>1. DOMAIN Over(f, g) = DOMAIN f \cup DOMAIN g
  BY DEF Over
<1>2. \A k \in DOMAIN f : Over(f, g)[k] = f[k]
  BY DEF Over
<1>3. \A k \in DOMAIN g \ DOMAIN f : Over(f, g)[k] = g[k]
  BY DEF Over
<1>4. Over(f, g) = [k \in DOMAIN Over(f, g) |-> Over(f, g)[k]]
  BY DEF Over
<1> HIDE DEF Over
<1>5. DOMAIN f \subseteq Keys /\ DOMAIN g \subseteq Keys
  BY RowsDef
<1>6. \A k \in DOMAIN Over(f, g) : Over(f, g)[k] \in Posts
  BY <1>1, <1>2, <1>3, RowsDef
<1> QED
  BY <1>1, <1>2, <1>3, <1>4, <1>5, <1>6, RowsDef

(* A request alone changes: the rest of the database and the site stay.    *)
LEMMA OneRequest ==
  ASSUME Typed, NEW r \in Requests, NEW e \in Reqs, Becomes(r, e)
  PROVE  /\ req' \in [Requests -> Reqs] /\ req'[r] = e
         /\ \A q \in Requests \ {r} : req'[q] = req[q]
BY DEF Typed, Becomes

-----------------------------------------------------------------------------
(* The steps of a request, by what becomes of it.                          *)

PageOf(r)         == [req[r] EXCEPT !.cache = Parser(r), !.pc = "page", !.attempt = 0]
DetailOf(r, q, c) == [req[r] EXCEPT !.pc = "detail", !.queue = q, !.i = 1, !.cache = c]
StoreOf(r, q)     == [req[r] EXCEPT !.pc = "select", !.queue = q, !.i = 1, !.page = 1,
                                    !.cache = "none", !.attempt = 0, !.permitted = {}]
NextOf(r, q)      == [req[r] EXCEPT !.queue = q, !.page = @ + 1, !.cache = Parser(r),
                                    !.pc = "allowed"]
AgainOf(r)        == [req[r] EXCEPT !.attempt = @ + 1]
ViewOf(r)         == [req[r] EXCEPT !.cache = Parser(r), !.pc = "view", !.attempt = 0]
SkipOf(r, c)      == [req[r] EXCEPT !.i = @ + 1, !.pc = "detail", !.cache = c,
                                    !.hindered = @ \cup {Post(r).rec}]
ReadQueue(r, d)   == [req[r].queue EXCEPT ![req[r].i] = [@ EXCEPT !.det = d]]
ReadOf(r, d)      == [req[r] EXCEPT !.queue = ReadQueue(r, d), !.i = @ + 1, !.pc = "detail", !.cache = Parser(r),
                                    !.hindered = IF d = NoDetail THEN @ \cup {Post(r).rec} ELSE @]
InsertOf(r)       == [req[r] EXCEPT !.pc = "insert", !.ins = @ + 1]
PassOf(r)         == [req[r] EXCEPT !.i = @ + 1]
UpdateOf(r)       == [req[r] EXCEPT !.pc = "update"]
FlushOf(r)        == [req[r] EXCEPT !.pc = "select", !.i = @ + 1,
                                    !.buf = Over(Row(KeyOf(r, Post(r)), Post(r)), @)]
ExpiredOf(r)      == [req[r] EXCEPT !.cache = "none"]

(* The list of a sweep after a page.                                       *)
Found(r) == {req[r].queue} \cup {Contests(req[r].queue, RowOf(r, rec)) : rec \in Records}
Files(r) == {req[r].cache, Parser(r)}

Sweeps(r) ==
    /\ req[r].pc \in Sweeping
    /\ \/ CanFetch(Parser(r), "list") /\ Becomes(r, PageOf(r))
       \/ \E q \in Found(r), c \in Files(r) :
             req[r].src \in WithDetail /\ Becomes(r, DetailOf(r, q, c))
       \/ \E q \in Found(r) : req[r].src \notin WithDetail /\ Becomes(r, StoreOf(r, q))
       \/ \E q \in Found(r) : req[r].page # Pages /\ Becomes(r, NextOf(r, q))

Enriches(r) ==
    \/ /\ req[r].pc = "detail" /\ req[r].i <= Len(req[r].queue)
       /\ CanFetch(Parser(r), "detail") /\ Becomes(r, ViewOf(r))
    \/ /\ req[r].pc \in {"detail", "view"} /\ req[r].i <= Len(req[r].queue)
       /\ \E c \in Files(r) : Becomes(r, SkipOf(r, c))
    \/ req[r].pc = "view" /\ \E d \in ParseDetail(Post(r).rec) : Becomes(r, ReadOf(r, d))
    \/ /\ req[r].pc = "detail" /\ req[r].i > Len(req[r].queue)
       /\ Becomes(r, StoreOf(r, req[r].queue))

Fetches(r) ==
    \/ req[r].pc = "raw" /\ \E q \in Extracted : Becomes(r, StoreOf(r, Items(q)))
    \/ req[r].pc \in {"page", "view", "raw"} /\ req[r].attempt < MaxRetries /\ Becomes(r, AgainOf(r))
    \/ req[r].cache # "none" /\ Becomes(r, ExpiredOf(r))

Writes(r) ==
    \/ /\ req[r].pc = "select" /\ req[r].i <= Len(req[r].queue)
       /\ \/ KeyOf(r, Post(r)) \notin DOMAIN Seen(r) /\ Becomes(r, InsertOf(r))
          \/ Becomes(r, PassOf(r))
          \/ KeyOf(r, Post(r)) \in DOMAIN Seen(r) /\ Becomes(r, UpdateOf(r))
    \/ /\ Writing(r) /\ Holders(r, KeyOf(r, Post(r))) = {}
       /\ req[r].pc = "insert" => KeyOf(r, Post(r)) \notin DOMAIN table
       /\ Becomes(r, FlushOf(r))
    \/ req[r].pc \in {"raw", "insert", "update"} /\ Becomes(r, Idle)

Local(r) ==
    /\ Sweeps(r) \/ Enriches(r) \/ Fetches(r) \/ Writes(r)
    /\ UNCHANGED <<ver, robots, table, started, reported>>
    /\ changes' \in {changes, changes + 1} /\ changes' <= MaxChanges
    /\ faults' \in {faults, faults + 1} /\ faults' <= MaxFaults

LEMMA LocalSteps ==
  ASSUME Typed, Shape, NEW r \in Requests,
         \/ AllowedPage(r) \/ FetchPage(r)
         \/ AllowedDetail(r) \/ FetchDetail(r) \/ Enriched(r)
         \/ FetchRaw(r)
         \/ Select(r) \/ Flush(r) \/ Deadlock(r) \/ StatementFails(r)
         \/ CacheExpires(r)
  PROVE  Local(r)
<1> USE ConstantsAssumption
<1>1. /\ req[r] \in Reqs /\ Fits(req[r]) /\ req \in [Requests -> Reqs]
      /\ changes \in 0 .. MaxChanges /\ faults \in 0 .. MaxFaults
  BY DEF Typed, Shape
<1>a. \A q, c : Swept(r, q, c) =>
         \/ req[r].src \in WithDetail /\ Becomes(r, DetailOf(r, q, c))
         \/ req[r].src \notin WithDetail /\ Becomes(r, StoreOf(r, q))
  BY <1>1 DEF Swept, Store, Becomes, DetailOf, StoreOf, Reqs
<1>b. \A q : Store(r, q) => Becomes(r, StoreOf(r, q))
  BY <1>1 DEF Store, Becomes, StoreOf, Reqs
<1>c. \A c : SkipDetail(r, c) => Becomes(r, SkipOf(r, c))
  BY <1>1 DEF SkipDetail, Becomes, SkipOf, Reqs
<1>d. Answered(r) => Becomes(r, Idle)
  BY DEF Answered, Becomes
<1>e. Fails => faults' \in {faults, faults + 1} /\ faults' <= MaxFaults
  BY <1>1 DEF Fails
<1>2. CASE AllowedPage(r)
  <2>1. \/ CanFetch(Parser(r), "list") /\ Becomes(r, PageOf(r))
        \/ Swept(r, req[r].queue, Parser(r))
    BY <1>1, <1>2 DEF AllowedPage, Becomes, PageOf, Reqs
  <2>2. Sweeps(r)
    BY <1>a, <1>2, <2>1 DEF AllowedPage, Sweeps, Found, Files, Sweeping
  <2> QED
    BY <1>1, <1>2, <2>2 DEF AllowedPage, Local
<1>3. CASE FetchPage(r)
  <2>1. ASSUME NEW rec \in Records, NextPage(r, Contests(req[r].queue, RowOf(r, rec)))
        PROVE  Sweeps(r)
    <3> DEFINE q == Contests(req[r].queue, RowOf(r, rec))
    <3>1. q \in Found(r) /\ Parser(r) \in Files(r) /\ req[r].pc \in Sweeping
      BY <1>3 DEF Found, Files, FetchPage, Sweeping
    <3>2. \/ Swept(r, q, Parser(r))
          \/ req[r].page # Pages /\ Becomes(r, NextOf(r, q))
      BY <1>1, <2>1 DEF NextPage, CrawlDelay, Becomes, NextOf, Reqs
    <3> HIDE DEF q
    <3> QED
      BY <1>a, <3>1, <3>2 DEF Sweeps
  <2>2. ASSUME Swept(r, req[r].queue, req[r].cache) PROVE Sweeps(r)
    BY <1>a, <1>3, <2>2 DEF Sweeps, Found, Files, FetchPage, Sweeping
  <2>3. ASSUME req[r].attempt < MaxRetries, req' = [req EXCEPT ![r].attempt = @ + 1] PROVE Fetches(r)
    BY <1>1, <1>3, <2>3 DEF Fetches, AgainOf, Becomes, FetchPage, Reqs
  <2> QED
    BY <1>1, <1>e, <1>3, <2>1, <2>2, <2>3 DEF FetchPage, Retry, Local
<1>4. CASE AllowedDetail(r)
  <2>1. \/ CanFetch(Parser(r), "detail") /\ Becomes(r, ViewOf(r))
        \/ Becomes(r, SkipOf(r, Parser(r)))
    BY <1>1, <1>c, <1>4 DEF AllowedDetail, Becomes, ViewOf, Reqs
  <2>2. Enriches(r)
    BY <1>4, <2>1 DEF AllowedDetail, Enriches, Files
  <2> QED
    BY <1>1, <1>4, <2>2 DEF AllowedDetail, Local
<1>5. CASE FetchDetail(r)
  <2>1. ASSUME NEW d \in ParseDetail(Post(r).rec),
               req' = [req EXCEPT ![r].queue[req[r].i].det = d, ![r].i = @ + 1,
                                  ![r].pc = "detail", ![r].cache = CrawlDelay(r),
                                  ![r].hindered = IF d = NoDetail THEN @ \cup {Post(r).rec} ELSE @]
        PROVE  Enriches(r)
    <3>1. Becomes(r, ReadOf(r, d))
      BY <1>1, <2>1 DEF ReadOf, ReadQueue, Becomes, CrawlDelay, Reqs
    <3> QED
      BY <1>5, <3>1 DEF FetchDetail, Enriches
  <2>2. ASSUME Becomes(r, SkipOf(r, req[r].cache)) PROVE Enriches(r)
    BY <1>1, <1>5, <2>2 DEF FetchDetail, Enriches, Files, Fits
  <2>3. ASSUME req[r].attempt < MaxRetries, req' = [req EXCEPT ![r].attempt = @ + 1] PROVE Fetches(r)
    BY <1>1, <1>5, <2>3 DEF Fetches, AgainOf, Becomes, FetchDetail, Reqs
  <2> DEFINE Reads(d) ==
        req' = [req EXCEPT ![r].queue[req[r].i].det = d, ![r].i = @ + 1,
                           ![r].pc = "detail", ![r].cache = CrawlDelay(r),
                           ![r].hindered = IF d = NoDetail THEN @ \cup {Post(r).rec} ELSE @]
  <2>4. /\ \/ (\E d \in ParseDetail(Post(r).rec) : Reads(d)) /\ UNCHANGED faults
           \/ Retry(r, SkipDetail(r, req[r].cache))
        /\ UNCHANGED <<ver, robots, table, started, changes, reported>>
    BY <1>5, Zenon DEF FetchDetail
  <2>5. \A d \in ParseDetail(Post(r).rec) : Reads(d) => Enriches(r)
    BY <2>1
  <2> HIDE DEF Reads
  <2>6. Enriches(r) \/ Fetches(r)
    BY <1>c, <2>2, <2>3, <2>4, <2>5 DEF Retry
  <2>7. faults' \in {faults, faults + 1} /\ faults' <= MaxFaults
    BY <1>1, <1>e, <2>4 DEF Retry
  <2> QED
    BY <1>1, <2>4, <2>6, <2>7 DEF Local
<1>6. CASE Enriched(r)
  BY <1>1, <1>b, <1>6 DEF Enriched, Enriches, Local
<1>7. CASE FetchRaw(r)
  <2>1. ASSUME req[r].attempt < MaxRetries, req' = [req EXCEPT ![r].attempt = @ + 1] PROVE Fetches(r)
    BY <1>1, <1>7, <2>1 DEF Fetches, AgainOf, Becomes, FetchRaw, Reqs
  <2>2. ASSUME NEW q \in Extracted, Store(r, Items(q)) PROVE Fetches(r)
    BY <1>b, <1>7, <2>2 DEF Fetches, FetchRaw
  <2>3. ASSUME Answered(r) PROVE Writes(r)
    BY <1>d, <1>7, <2>3 DEF Writes, FetchRaw
  <2> QED
    BY <1>1, <1>e, <1>7, <2>1, <2>2, <2>3 DEF FetchRaw, Retry, Local
<1>8. CASE Select(r)
  <2>1. Writes(r)
    BY <1>1, <1>8 DEF Select, Writes, Becomes, InsertOf, PassOf, UpdateOf, Reqs
  <2> QED
    BY <1>1, <1>8, <2>1 DEF Select, Local
<1>9. CASE Flush(r)
  <2>1. \/ Answered(r) /\ UNCHANGED <<table, reported>>
        \/ /\ req[r].pc = "insert" => KeyOf(r, Post(r)) \notin DOMAIN table
           /\ Becomes(r, FlushOf(r)) /\ UNCHANGED <<table, reported>>
    BY <1>1, <1>9 DEF Flush, Rollback, Becomes, FlushOf, Reqs
  <2>2. Writes(r)
    BY <1>d, <1>9, <2>1 DEF Flush, Writes, Writing
  <2> QED
    BY <1>1, <1>9, <2>1, <2>2 DEF Flush, Local
<1>10. CASE Deadlock(r) \/ StatementFails(r)
  BY <1>1, <1>d, <1>e, <1>10 DEF Deadlock, StatementFails, Rollback, Writing, Writes, Local
<1>11. CASE CacheExpires(r)
  <2>1. Becomes(r, ExpiredOf(r))
    BY <1>1, <1>11 DEF CacheExpires, Becomes, ExpiredOf, Reqs
  <2> QED
    BY <1>1, <1>11, <2>1 DEF CacheExpires, Changes, Fetches, Local
<1> QED
  BY <1>2, <1>3, <1>4, <1>5, <1>6, <1>7, <1>8, <1>9, <1>10, <1>11

-----------------------------------------------------------------------------
(* Types and shapes.                                                       *)

LEMMA NoRows == <<>> \in Rows /\ DOMAIN <<>> = {}
<1>1. <<>> = [k \in DOMAIN <<>> |-> <<>>[k]] /\ DOMAIN <<>> = {}
  OBVIOUS
<1> QED
  BY <1>1, RowsDef

(* Names and numbers that requests are set to.                             *)
LEMMA Literals ==
  /\ "allowed" \in Pcs /\ "page" \in Pcs /\ "detail" \in Pcs /\ "view" \in Pcs /\ "raw" \in Pcs
  /\ "select" \in Pcs /\ "insert" \in Pcs /\ "update" \in Pcs
  /\ "none" \in Caches /\ 1 \in 1 .. Pages /\ 0 \in 0 .. MaxRetries /\ MaxRetries \in Nat
  /\ Pages \in Nat
  /\ WithDetail \subseteq Boards /\ Boards \subseteq Sources /\ Apis \subseteq Sources
  /\ "none" \notin Sources /\ Apis \cap Boards = {}
BY ConstantsAssumption DEF Pcs, Caches, Sources

LEMMA IdleFits == Idle \in Reqs /\ Fits(Idle) /\ Idle.buf = <<>>
BY ConstantsAssumption, NoRows DEF Idle, Reqs, Pcs, Caches, Fits, Sweeping, Storing

(* What the operations of a request work on.                               *)
LEMMA RequestData ==
  ASSUME Typed, Shape, NEW r \in Requests
  PROVE  /\ req[r] \in Reqs /\ Fits(req[r])
         /\ Files(r) \subseteq Caches
         /\ Found(r) \subseteq Seq(Posts)
         /\ req[r].i <= Len(req[r].queue) => Post(r) \in Posts
         /\ \A rec \in Records : ParseDetail(rec) \subseteq Versions \cup {NoDetail}
<1> USE ConstantsAssumption
<1>1. req[r] \in Reqs /\ Fits(req[r])
  BY DEF Typed, Shape
<1>2. Files(r) \subseteq Caches
  BY <1>1 DEF Typed, Files, Parser, Parsed, Answers, Caches, Reqs
<1>3. \A rec \in Records : RowOf(r, rec) \in Posts
  BY <1>1 DEF Typed, RowOf, Posts, Reqs, NoDetail
<1>4. Found(r) \subseteq Seq(Posts)
  <2>1. req[r].queue \in Seq(Posts)
    BY <1>1 DEF Reqs
  <2>2. \A rec \in Records : Contests(req[r].queue, RowOf(r, rec)) \in Seq(Posts)
    BY <1>3, <2>1 DEF Contests
  <2> QED
    BY <2>1, <2>2 DEF Found
<1>5. req[r].i <= Len(req[r].queue) => Post(r) \in Posts
  BY <1>1 DEF Post, Reqs, Fits
<1>6. \A rec \in Records : ParseDetail(rec) \subseteq Versions \cup {NoDetail}
  BY DEF Typed, ParseDetail
<1> QED
  BY <1>1, <1>2, <1>4, <1>5, <1>6

LEMMA KeysOfPosts ==
  ASSUME Typed, NEW r \in Requests, req[r].src \in Sources, NEW p \in Posts
  PROVE  KeyOf(r, p) \in Keys /\ Row(KeyOf(r, p), p) \in Rows
<1> USE ConstantsAssumption
<1>1. KeyOf(r, p) \in Keys
  BY DEF Typed, KeyOf, BoardRecordId, RecordId, Keys, Posts, Versions
<1>2. Row(KeyOf(r, p), p) = [k \in DOMAIN Row(KeyOf(r, p), p) |-> Row(KeyOf(r, p), p)[k]]
      /\ DOMAIN Row(KeyOf(r, p), p) = {KeyOf(r, p)}
      /\ Row(KeyOf(r, p), p)[KeyOf(r, p)] = p
  BY DEF Row
<1> QED
  BY <1>1, <1>2, RowsDef

LEMMA ItemsArePosts ==
  ASSUME Typed, NEW q \in Extracted
  PROVE  /\ q \in Seq(Records) /\ Items(q) \in Seq(Posts) /\ Len(Items(q)) = Len(q)
         /\ \A j \in 1 .. Len(q) : Items(q)[j] = Normalized(q[j])
<1> USE ConstantsAssumption
<1>1. q \in Seq(Records)
  <2>1. CASE q = <<>>
    BY <2>1
  <2>2. CASE q \in {<<rec>> : rec \in Gayoje}
    <3>1. PICK rec \in Gayoje : q = <<rec>>
      BY <2>2
    <3> QED
      BY <3>1 DEF Gayoje
  <2>3. CASE q \in Gayoje \X Gayoje
    <3>1. PICK a \in Gayoje, b \in Gayoje : q = <<a, b>>
      BY <2>3
    <3> QED
      BY <3>1 DEF Gayoje
  <2> QED
    BY <2>1, <2>2, <2>3 DEF Extracted
<1>2. \A rec \in Records : Normalized(rec) \in Posts
  BY DEF Typed, Normalized, Posts
<1> QED
  BY <1>1, <1>2 DEF Items

LEMMA LocalFits ==
  ASSUME Typed, Shape, NEW r \in Requests, Local(r)
  PROVE  \E e \in Reqs : Becomes(r, e) /\ Fits(e)
<1> DEFINE x == req[r]
<1>1. /\ x \in Reqs /\ Fits(x) /\ Files(r) \subseteq Caches /\ Found(r) \subseteq Seq(Posts)
      /\ x.i <= Len(x.queue) => Post(r) \in Posts
      /\ \A rec \in Records : ParseDetail(rec) \subseteq Versions \cup {NoDetail}
  BY RequestData
<1>2. CASE Sweeps(r)
  <2>1. x.pc \in Sweeping
    BY <1>2 DEF Sweeps
  <2>2. CASE Becomes(r, PageOf(r))
    <3>1. PageOf(r) \in Reqs
      BY <1>1, <2>1, Literals DEF PageOf, Reqs, Files
    <3>2. Fits(PageOf(r))
      BY <1>1, <2>1, Literals DEF PageOf, Reqs, Fits, Sweeping, Storing
    <3> QED
      BY <2>2, <3>1, <3>2
  <2>3. ASSUME NEW q \in Found(r), NEW c \in Files(r), x.src \in WithDetail, Becomes(r, DetailOf(r, q, c))
        PROVE  \E e \in Reqs : Becomes(r, e) /\ Fits(e)
    <3>1. DetailOf(r, q, c) \in Reqs
      BY <1>1, <2>1, <2>3, Literals DEF DetailOf, Reqs
    <3>2. Fits(DetailOf(r, q, c))
      BY <1>1, <2>1, <2>3, Literals DEF DetailOf, Reqs, Fits, Sweeping, Storing
    <3> QED
      BY <2>3, <3>1, <3>2
  <2>4. ASSUME NEW q \in Found(r), Becomes(r, StoreOf(r, q))
        PROVE  \E e \in Reqs : Becomes(r, e) /\ Fits(e)
    <3>1. StoreOf(r, q) \in Reqs
      BY <1>1, <2>1, <2>4, Literals DEF StoreOf, Reqs
    <3>2. Fits(StoreOf(r, q))
      BY <1>1, <2>1, <2>4, Literals DEF StoreOf, Reqs, Fits, Sweeping, Storing
    <3> QED
      BY <2>4, <3>1, <3>2
  <2>5. ASSUME NEW q \in Found(r), x.page # Pages, Becomes(r, NextOf(r, q))
        PROVE  \E e \in Reqs : Becomes(r, e) /\ Fits(e)
    <3>1. Len(q) \in Nat /\ Len(q) >= Len(x.queue)
      BY <1>1, <2>5 DEF Found, Contests, Reqs
    <3>2. NextOf(r, q) \in Reqs
      <4>1. x.page + 1 \in 1 .. Pages
        BY <1>1, <2>5, Literals DEF Reqs
      <4>2. q \in Seq(Posts) /\ Parser(r) \in Caches /\ "allowed" \in Pcs
        BY <1>1, Literals DEF Files
      <4> QED
        BY <1>1, <4>1, <4>2 DEF NextOf, Reqs
    <3>3. Fits(NextOf(r, q))
      BY <1>1, <2>1, <2>5, <3>1, Literals DEF NextOf, Reqs, Fits, Sweeping, Storing
    <3> QED
      BY <2>5, <3>2, <3>3
  <2> QED
    BY <1>2, <2>2, <2>3, <2>4, <2>5 DEF Sweeps
<1>3. CASE Enriches(r)
  <2>1. ASSUME x.pc = "detail", x.i <= Len(x.queue), Becomes(r, ViewOf(r))
        PROVE  \E e \in Reqs : Becomes(r, e) /\ Fits(e)
    <3>1. ViewOf(r) \in Reqs
      BY <1>1, <2>1, Literals DEF ViewOf, Reqs, Files
    <3>2. Fits(ViewOf(r))
      BY <1>1, <2>1, Literals DEF ViewOf, Reqs, Fits, Sweeping, Storing
    <3> QED
      BY <2>1, <3>1, <3>2
  <2>2. ASSUME x.pc \in {"detail", "view"}, x.i <= Len(x.queue),
               NEW c \in Files(r), Becomes(r, SkipOf(r, c))
        PROVE  \E e \in Reqs : Becomes(r, e) /\ Fits(e)
    <3>1. Post(r).rec \in Records
      BY <1>1, <2>2 DEF Posts
    <3>2. SkipOf(r, c) \in Reqs
      <4>1. x.i + 1 \in Nat /\ x.hindered \cup {Post(r).rec} \in SUBSET Records
        BY <1>1, <3>1 DEF Reqs
      <4>2. c \in Caches /\ "detail" \in Pcs
        BY <1>1, Literals
      <4> QED
        BY <1>1, <4>1, <4>2 DEF SkipOf, Reqs
    <3>3. Fits(SkipOf(r, c))
      BY <1>1, <2>2, <3>1, Literals DEF SkipOf, Reqs, Fits, Sweeping, Storing
    <3> QED
      BY <2>2, <3>2, <3>3
  <2>3. ASSUME x.pc = "view", NEW d \in ParseDetail(Post(r).rec), Becomes(r, ReadOf(r, d))
        PROVE  \E e \in Reqs : Becomes(r, e) /\ Fits(e)
    <3>1. Post(r) \in Posts /\ Post(r).rec \in Records /\ x.i \in 1 .. Len(x.queue)
      BY <1>1, <2>3 DEF Posts, Fits, Reqs
    <3>2. d \in Versions \cup {NoDetail}
      BY <1>1, <2>3, <3>1
    <3>3. [x.queue[x.i] EXCEPT !.det = d] \in Posts
      BY <3>1, <3>2 DEF Post, Posts
    <3>4. ReadQueue(r, d) \in Seq(Posts) /\ Len(ReadQueue(r, d)) = Len(x.queue)
      BY <1>1, <3>1, <3>3 DEF ReadQueue, Reqs
    <3>5. ReadOf(r, d) \in Reqs
      <4>1. /\ x.i + 1 \in Nat
            /\ (IF d = NoDetail THEN x.hindered \cup {Post(r).rec} ELSE x.hindered) \in SUBSET Records
        BY <1>1, <3>1 DEF Reqs
      <4>2. Parser(r) \in Caches /\ "detail" \in Pcs
        BY <1>1, Literals DEF Files
      <4> QED
        BY <1>1, <3>4, <4>1, <4>2 DEF ReadOf, Reqs
    <3>6. Fits(ReadOf(r, d))
      BY <1>1, <2>3, <3>1, <3>4, Literals DEF ReadOf, Reqs, Fits, Sweeping, Storing
    <3> QED
      BY <2>3, <3>5, <3>6
  <2>4. ASSUME x.pc = "detail", Becomes(r, StoreOf(r, x.queue))
        PROVE  \E e \in Reqs : Becomes(r, e) /\ Fits(e)
    <3>1. StoreOf(r, x.queue) \in Reqs
      BY <1>1, <2>4, Literals DEF StoreOf, Reqs
    <3>2. Fits(StoreOf(r, x.queue))
      BY <1>1, <2>4, Literals DEF StoreOf, Reqs, Fits, Sweeping, Storing
    <3> QED
      BY <2>4, <3>1, <3>2
  <2> QED
    BY <1>3, <2>1, <2>2, <2>3, <2>4 DEF Enriches
<1>4. CASE Fetches(r)
  <2>1. ASSUME x.pc = "raw", NEW q \in Extracted, Becomes(r, StoreOf(r, Items(q)))
        PROVE  \E e \in Reqs : Becomes(r, e) /\ Fits(e)
    <3>1. Items(q) \in Seq(Posts)
      BY ItemsArePosts
    <3>2. StoreOf(r, Items(q)) \in Reqs
      BY <1>1, <2>1, <3>1, Literals DEF StoreOf, Reqs
    <3>3. Fits(StoreOf(r, Items(q)))
      BY <1>1, <2>1, <3>1, Literals DEF StoreOf, Reqs, Fits, Sweeping, Storing
    <3> QED
      BY <2>1, <3>2, <3>3
  <2>2. ASSUME x.attempt < MaxRetries, Becomes(r, AgainOf(r))
        PROVE  \E e \in Reqs : Becomes(r, e) /\ Fits(e)
    <3>1. AgainOf(r) \in Reqs
      <4>1. x.attempt + 1 \in 0 .. MaxRetries
        BY <1>1, <2>2, Literals DEF Reqs
      <4> QED
        BY <1>1, <4>1 DEF AgainOf, Reqs
    <3>2. Fits(AgainOf(r))
      BY <1>1, <2>2, Literals DEF AgainOf, Reqs, Fits
    <3> QED
      BY <2>2, <3>1, <3>2
  <2>3. ASSUME Becomes(r, ExpiredOf(r))
        PROVE  \E e \in Reqs : Becomes(r, e) /\ Fits(e)
    <3>1. ExpiredOf(r) \in Reqs
      BY <1>1, <2>3, Literals DEF ExpiredOf, Reqs
    <3>2. Fits(ExpiredOf(r))
      BY <1>1, <2>3, Literals DEF ExpiredOf, Reqs, Fits
    <3> QED
      BY <2>3, <3>1, <3>2
  <2> QED
    BY <1>4, <2>1, <2>2, <2>3 DEF Fetches
<1>5. CASE Writes(r)
  <2>1. ASSUME x.pc = "select", x.i <= Len(x.queue),
               Becomes(r, InsertOf(r)) \/ Becomes(r, PassOf(r)) \/ Becomes(r, UpdateOf(r))
        PROVE  \E e \in Reqs : Becomes(r, e) /\ Fits(e)
    <3>1. x.i + 1 \in Nat /\ x.ins + 1 \in Nat /\ "insert" \in Pcs
      BY <1>1, Literals DEF Reqs
    <3>2. InsertOf(r) \in Reqs /\ Fits(InsertOf(r))
      <4>1. InsertOf(r) \in Reqs
        BY <1>1, <3>1 DEF InsertOf, Reqs
      <4>2. Fits(InsertOf(r))
        BY <1>1, <2>1 DEF InsertOf, Reqs, Fits, Sweeping, Storing
      <4> QED
        BY <4>1, <4>2
    <3>3. PassOf(r) \in Reqs /\ Fits(PassOf(r))
      <4>1. PassOf(r) \in Reqs
        BY <1>1, <3>1 DEF PassOf, Reqs
      <4>2. Fits(PassOf(r))
        BY <1>1, <2>1 DEF PassOf, Reqs, Fits, Sweeping, Storing
      <4> QED
        BY <4>1, <4>2
    <3>4. UpdateOf(r) \in Reqs /\ Fits(UpdateOf(r))
      BY <1>1, <2>1, Literals DEF UpdateOf, Reqs, Fits, Sweeping, Storing
    <3> QED
      BY <2>1, <3>2, <3>3, <3>4
  <2>2. ASSUME Writing(r), Becomes(r, FlushOf(r))
        PROVE  \E e \in Reqs : Becomes(r, e) /\ Fits(e)
    <3> DEFINE f == Over(Row(KeyOf(r, Post(r)), Post(r)), x.buf)
    <3>1. x.src \in Sources /\ x.i <= Len(x.queue) /\ Post(r) \in Posts
      BY <1>1, <2>2 DEF Writing, Fits, Storing
    <3>2. Row(KeyOf(r, Post(r)), Post(r)) \in Rows /\ x.buf \in Rows
      BY <1>1, <3>1, KeysOfPosts DEF Reqs
    <3>3. f \in Rows
      BY <3>2, Overlay
    <3>4. FlushOf(r) = [x EXCEPT !.pc = "select", !.i = @ + 1, !.buf = f]
      BY DEF FlushOf
    <3> HIDE DEF f
    <3>5. FlushOf(r) \in Reqs
      <4>1. x.i + 1 \in Nat /\ "select" \in Pcs
        BY <1>1, Literals DEF Reqs
      <4> QED
        BY <1>1, <3>3, <3>4, <4>1 DEF Reqs
    <3>6. Fits(FlushOf(r))
      BY <1>1, <3>1, <3>4 DEF Reqs, Fits, Sweeping, Storing
    <3> QED
      BY <2>2, <3>5, <3>6
  <2>3. ASSUME Becomes(r, Idle) PROVE \E e \in Reqs : Becomes(r, e) /\ Fits(e)
    BY <2>3, IdleFits
  <2> QED
    BY <1>5, <2>1, <2>2, <2>3 DEF Writes
<1> QED
  BY <1>2, <1>3, <1>4, <1>5 DEF Local

(* The steps that change more than one request, or more than requests.     *)
NewOf(r, src, l) == [Idle EXCEPT !.pc = l, !.src = src, !.permitted = Permits(robots),
                                 !.met = Overlapping(r, src) # {}]

Arrives(r) ==
    \/ \E b \in Boards : NewRequest(r, b, "allowed")
    \/ \E a \in Apis : NewRequest(r, a, "raw")

LEMMA Steps ==
  ASSUME Typed, Shape, [Next]_vars
  PROVE  \/ \E r \in Requests : Local(r) \/ Arrives(r) \/ Commit(r)
         \/ \E rec \in Records : Edit(rec)
         \/ \E a \in Answers : NewRobots(a)
         \/ UNCHANGED vars
<1>1. ASSUME NEW r \in Requests,
             \/ \E b \in Boards : RunCrawl(r, b)
             \/ \E a \in Apis : RunIngest(r, a)
      PROVE  Arrives(r)
  BY <1>1 DEF Arrives, RunCrawl, RunIngest
<1> QED
  BY <1>1, LocalSteps DEF Next

LEMMA Arrival ==
  ASSUME NEW r \in Requests, Arrives(r)
  PROVE  \E src \in Sources, l \in {"allowed", "raw"} :
            /\ NewRequest(r, src, l)
            /\ (l = "allowed" /\ src \in Boards) \/ (l = "raw" /\ src \in Apis)
<1>1. CASE \E b \in Boards : NewRequest(r, b, "allowed")
  BY <1>1, Literals
<1>2. CASE \E a \in Apis : NewRequest(r, a, "raw")
  BY <1>2, Literals
<1> QED
  BY <1>1, <1>2 DEF Arrives

LEMMA ArrivalData ==
  ASSUME Typed, NEW r \in Requests, NEW src \in Sources,
         NEW l \in {"allowed", "raw"}, NewRequest(r, src, l)
  PROVE  /\ req' \in [Requests -> Reqs] /\ req'[r] = NewOf(r, src, l)
         /\ \A q \in Requests \ {r} :
               \/ req[q].src = src /\ req'[q] = [req[q] EXCEPT !.met = TRUE]
               \/ req[q].src # src /\ req'[q] = req[q]
         /\ UNCHANGED <<ver, robots, table, faults, changes, reported>>
<1>1. req \in [Requests -> Reqs] /\ robots \in Answers
  BY DEF Typed
<1>2. NewOf(r, src, l) \in Reqs
  <2>1. Permits(robots) \in SUBSET {"list", "detail"} /\ (Overlapping(r, src) # {}) \in BOOLEAN
    BY <1>1 DEF Permits, Answers
  <2>2. l \in Pcs /\ src \in Sources \cup {"none"}
    BY Literals
  <2> QED
    BY <2>1, <2>2, IdleFits DEF NewOf, Reqs
<1>3. \A q \in Requests : [req[q] EXCEPT !.met = TRUE] \in Reqs
  BY <1>1 DEF Reqs
<1>4. req' = [q \in Requests |-> IF q = r THEN NewOf(r, src, l)
                                 ELSE IF req[q].src = src THEN [req[q] EXCEPT !.met = TRUE]
                                 ELSE req[q]]
  BY DEF NewRequest, NewOf
<1>5. UNCHANGED <<ver, robots, table, faults, changes, reported>>
  BY DEF NewRequest
<1> QED
  BY <1>1, <1>2, <1>3, <1>4, <1>5

PermittedOf(x, a) == [x EXCEPT !.permitted = IF x.pc = "idle" THEN @ ELSE @ \cup Permits(a)]

LEMMA RobotsData ==
  ASSUME Typed, NEW a \in Answers, NewRobots(a)
  PROVE  req' \in [Requests -> Reqs] /\ \A q \in Requests : req'[q] = PermittedOf(req[q], a)
<1>1. req \in [Requests -> Reqs]
  BY DEF Typed
<1>2. Permits(a) \in SUBSET {"list", "detail"}
  BY DEF Permits, Answers
<1>3. \A q \in Requests : PermittedOf(req[q], a) \in Reqs
  BY <1>1, <1>2 DEF PermittedOf, Reqs
<1>4. req' = [q \in Requests |-> PermittedOf(req[q], a)]
  BY DEF NewRobots, PermittedOf
<1> QED
  BY <1>3, <1>4

LEMMA CommitData ==
  ASSUME Typed, NEW r \in Requests, Commit(r)
  PROVE  /\ req' \in [Requests -> Reqs] /\ req'[r] = Idle
         /\ \A q \in Requests \ {r} : req'[q] = req[q]
         /\ table' \in Rows /\ DOMAIN table' = DOMAIN table \cup DOMAIN req[r].buf
         /\ \A k \in DOMAIN req[r].buf : table'[k] = req[r].buf[k]
         /\ \A k \in DOMAIN table \ DOMAIN req[r].buf : table'[k] = table[k]
<1>1. Becomes(r, Idle) /\ table' = Over(req[r].buf, table)
  BY DEF Commit, Answered, Becomes, Seen
<1>2. req[r].buf \in Rows /\ table \in Rows
  BY DEF Typed, Reqs
<1>3. /\ req' \in [Requests -> Reqs] /\ req'[r] = Idle
      /\ \A q \in Requests \ {r} : req'[q] = req[q]
  BY <1>1, OneRequest, IdleFits
<1> QED
  BY <1>1, <1>2, <1>3, Overlay

LEMMA TypeInit == Init => Typed /\ Shape /\ Edited
<1> SUFFICES ASSUME Init PROVE Typed /\ Shape /\ Edited
  OBVIOUS
<1>1. Typed
  BY IdleFits, NoRows, ConstantsAssumption DEF Init, Typed, Versions
<1>2. Shape
  BY IdleFits DEF Init, Shape
<1>3. Edited
  BY ConstantsAssumption DEF Init, Edited
<1> QED
  BY <1>1, <1>2, <1>3

LEMMA TypeStep ==
  ASSUME Typed, Shape, Edited, [Next]_vars
  PROVE  Typed' /\ Shape' /\ Edited'
<1>1. /\ ver \in [Records -> Versions] /\ robots \in Answers /\ table \in Rows
      /\ req \in [Requests -> Reqs]
      /\ started \in 0 .. MaxRequests /\ faults \in 0 .. MaxFaults
      /\ changes \in 0 .. MaxChanges /\ reported \in Nat
      /\ MaxChanges \in Nat /\ MaxFaults \in Nat /\ MaxRequests \in Nat
      /\ \A rec \in Records : ver[rec] \in Nat /\ ver[rec] <= changes
  BY ConstantsAssumption DEF Typed, Edited, Versions
<1>2. ASSUME NEW r \in Requests, Local(r) PROVE Typed' /\ Shape' /\ Edited'
  <2>1. PICK e \in Reqs : Becomes(r, e) /\ Fits(e)
    BY <1>2, LocalFits
  <2>2. /\ req' \in [Requests -> Reqs] /\ req'[r] = e
        /\ \A q \in Requests \ {r} : req'[q] = req[q]
    BY <2>1, OneRequest
  <2>3. Typed'
    BY <1>1, <1>2, <2>2 DEF Typed, Local
  <2>4. Shape'
    BY <2>1, <2>2 DEF Shape
  <2>5. Edited'
    BY <1>1, <1>2 DEF Edited, Local
  <2> QED
    BY <2>3, <2>4, <2>5
<1>3. ASSUME NEW r \in Requests, Arrives(r) PROVE Typed' /\ Shape' /\ Edited'
  <2>1. PICK src \in Sources, l \in {"allowed", "raw"} :
           /\ NewRequest(r, src, l)
           /\ (l = "allowed" /\ src \in Boards) \/ (l = "raw" /\ src \in Apis)
    BY <1>3, Arrival
  <2>2. /\ req' \in [Requests -> Reqs] /\ req'[r] = NewOf(r, src, l)
        /\ \A q \in Requests \ {r} :
              \/ req'[q] = [req[q] EXCEPT !.met = TRUE]
              \/ req'[q] = req[q]
    BY <2>1, ArrivalData
  <2>3. Typed'
    <3>1. /\ started' = started + 1 /\ started < MaxRequests
          /\ UNCHANGED <<ver, robots, table, faults, changes, reported>>
      BY <2>1 DEF NewRequest
    <3> QED
      BY <1>1, <2>2, <3>1 DEF Typed
  <2>4. Fits(NewOf(r, src, l))
    BY <2>1, IdleFits, Literals DEF NewOf, Idle, Fits, Sweeping, Storing
  <2>5. \A q \in Requests \ {r} : Fits(req'[q])
    <3>1. \A q \in Requests : Fits(req[q]) => Fits([req[q] EXCEPT !.met = TRUE])
      BY <1>1 DEF Fits, Reqs
    <3> QED
      BY <2>2, <3>1 DEF Shape
  <2>6. Shape'
    BY <2>2, <2>4, <2>5 DEF Shape
  <2>7. Edited'
    BY <1>1, <2>1 DEF Edited, NewRequest
  <2> QED
    BY <2>3, <2>6, <2>7
<1>4. ASSUME NEW r \in Requests, Commit(r) PROVE Typed' /\ Shape' /\ Edited'
  <2>1. /\ req' \in [Requests -> Reqs] /\ req'[r] = Idle /\ table' \in Rows
        /\ \A q \in Requests \ {r} : req'[q] = req[q]
    BY <1>4, CommitData
  <2>2. req[r].ins \in Nat
    BY <1>1 DEF Reqs
  <2>3. Typed'
    BY <1>1, <1>4, <2>1, <2>2 DEF Typed, Commit
  <2>4. Shape'
    BY <2>1, IdleFits DEF Shape
  <2>5. Edited'
    BY <1>1, <1>4 DEF Edited, Commit
  <2> QED
    BY <2>3, <2>4, <2>5
<1>5. ASSUME NEW rec \in Records, Edit(rec) PROVE Typed' /\ Shape' /\ Edited'
  <2>1. ver' = [ver EXCEPT ![rec] = @ + 1] /\ changes' = changes + 1 /\ changes < MaxChanges
    BY <1>5 DEF Edit, Changes
  <2>2. ver' \in [Records -> Versions] /\ Edited'
    BY <1>1, <2>1 DEF Edited, Versions
  <2>3. Typed'
    BY <1>1, <1>5, <2>1, <2>2 DEF Typed, Edit
  <2>4. Shape'
    BY <1>5 DEF Shape, Edit
  <2> QED
    BY <2>2, <2>3, <2>4
<1>6. ASSUME NEW a \in Answers, NewRobots(a) PROVE Typed' /\ Shape' /\ Edited'
  <2>1. req' \in [Requests -> Reqs] /\ \A q \in Requests : req'[q] = PermittedOf(req[q], a)
    BY <1>6, RobotsData
  <2>2. Typed'
    BY <1>1, <1>6, <2>1 DEF Typed, NewRobots, Changes
  <2>3. \A q \in Requests : Fits(PermittedOf(req[q], a))
    BY <1>1 DEF Shape, Fits, PermittedOf, Reqs
  <2>4. Shape'
    BY <2>1, <2>3 DEF Shape
  <2>5. Edited'
    BY <1>1, <1>6 DEF Edited, NewRobots, Changes
  <2> QED
    BY <2>2, <2>4, <2>5
<1>7. CASE UNCHANGED vars
  BY <1>7 DEF Typed, Shape, Edited, vars
<1> QED
  BY <1>2, <1>3, <1>4, <1>5, <1>6, <1>7, Steps

(* Every behaviour of the ingestion stays within its types.                *)
THEOREM TypeCorrect == Spec => []TypeOK
<1>1. Init => Typed /\ Shape /\ Edited
  BY TypeInit
<1>2. (Typed /\ Shape /\ Edited) /\ [Next]_vars => (Typed /\ Shape /\ Edited)'
  BY TypeStep
<1>3. Typed /\ Shape => TypeOK
  <2> SUFFICES ASSUME Typed, Shape PROVE TypeOK
    OBVIOUS
  <2>1. \A r \in Requests : req[r] \in Reqs /\ Fits(req[r])
    BY DEF Typed, Shape
  <2>2. \A rows \in {table} \cup {req[r].buf : r \in Requests} :
           DOMAIN rows \subseteq Keys /\ \A k \in DOMAIN rows : rows[k] \in Posts
    BY <2>1, RowsDef DEF Typed, Reqs
  <2>3. \A r \in Requests :
          /\ req[r].pc \in Pcs
          /\ req[r].src \in Sources \cup {"none"} /\ req[r].page \in 1 .. Pages
          /\ req[r].queue \in Seq(Posts) /\ req[r].i \in 1 .. Len(req[r].queue) + 1
          /\ req[r].cache \in Caches
          /\ req[r].attempt \in 0 .. MaxRetries /\ req[r].ins \in Nat
          /\ req[r].permitted \subseteq {"list", "detail"}
          /\ req[r].hindered \subseteq Records /\ req[r].met \in BOOLEAN
    BY <2>1 DEF Reqs, Fits
  <2> QED
    BY <2>2, <2>3 DEF TypeOK, Typed, Pcs, Caches
<1> QED
  BY <1>1, <1>2, <1>3, PTL DEF Spec

-----------------------------------------------------------------------------
(* robots.txt.                                                             *)

LEMMA ParserPermits ==
  ASSUME Typed, RobotsInv, NEW r \in Requests, req[r].pc \in Crawling
  PROVE  \A c \in Files(r), kind \in {"list", "detail"} :
            CanFetch(c, kind) => kind \in req[r].permitted
<1>1. \A kind \in {"list", "detail"} : CanFetch(Parsed(robots), kind) => kind \in Permits(robots)
  BY DEF Typed, Answers, Parsed, Permits, CanFetch
<1> QED
  BY <1>1 DEF RobotsInv, RobotsFit, Files, Parser

LEMMA RobotsStep ==
  ASSUME Typed, Shape, RobotsInv, [Next]_vars
  PROVE  RobotsInv'
<1>1. req \in [Requests -> Reqs] /\ \A q \in Requests : req[q] \in Reqs /\ RobotsFit(req[q])
  BY DEF Typed, RobotsInv
<1>2. ASSUME NEW r \in Requests, Local(r) PROVE RobotsInv'
  <2> DEFINE x == req[r]
  <2>1. UNCHANGED robots
    BY <1>2 DEF Local
  <2>2. PICK e \in Reqs : Becomes(r, e)
    BY <1>2, LocalFits
  <2>3. req'[r] = e /\ \A q \in Requests \ {r} : req'[q] = req[q]
    BY <2>2, OneRequest
  <2>a. x \in Reqs /\ RobotsFit(x)
    BY <1>1
  <2>b. \A y : Becomes(r, y) => req'[r] = y
    BY <1>1 DEF Becomes
  <2>4. e.pc \in Crawling =>
          /\ x.pc \in Crawling /\ e.permitted = x.permitted
          /\ e.cache \in Files(r) \cup {"none"}
          /\ e.pc = "page" => x.pc = "page" \/ CanFetch(Parser(r), "list")
          /\ e.pc = "view" => x.pc = "view" \/ CanFetch(Parser(r), "detail")
    <3>1. CASE Sweeps(r)
      <4>1. CASE CanFetch(Parser(r), "list") /\ e = PageOf(r)
        BY <2>a, <3>1, <4>1 DEF PageOf, Reqs, Sweeps, Sweeping, Crawling, Files
      <4>2. ASSUME NEW q, NEW c \in Files(r), e = DetailOf(r, q, c)
            PROVE  e.pc = "detail" /\ e.permitted = x.permitted /\ e.cache \in Files(r)
        BY <2>a, <4>2 DEF DetailOf, Reqs
      <4>3. ASSUME NEW q, e = StoreOf(r, q) PROVE e.pc = "select"
        BY <2>a, <4>3 DEF StoreOf, Reqs
      <4>4. ASSUME NEW q, e = NextOf(r, q)
            PROVE  e.pc = "allowed" /\ e.permitted = x.permitted /\ e.cache \in Files(r)
        BY <2>a, <4>4 DEF NextOf, Reqs, Files
      <4> QED
        BY <2>3, <2>b, <3>1, <4>1, <4>2, <4>3, <4>4 DEF Sweeps, Crawling, Sweeping
    <3>2. CASE Enriches(r)
      <4>1. CASE CanFetch(Parser(r), "detail") /\ e = ViewOf(r)
        BY <2>a, <3>2, <4>1 DEF ViewOf, Reqs, Enriches, Sweeping, Crawling, Files
      <4>2. ASSUME NEW c \in Files(r), e = SkipOf(r, c)
            PROVE  e.pc = "detail" /\ e.permitted = x.permitted /\ e.cache \in Files(r)
        BY <2>a, <4>2 DEF SkipOf, Reqs
      <4>3. ASSUME e = StoreOf(r, x.queue) PROVE e.pc = "select"
        BY <2>a, <4>3 DEF StoreOf, Reqs
      <4>4. ASSUME NEW d, e = ReadOf(r, d)
            PROVE  e.pc = "detail" /\ e.permitted = x.permitted /\ e.cache \in Files(r)
        BY <2>a, <4>4 DEF ReadOf, Reqs, Files
      <4> QED
        BY <2>3, <2>b, <3>2, <4>1, <4>2, <4>3, <4>4 DEF Enriches, Crawling, Sweeping
    <3>3. CASE Fetches(r)
      <4>1. ASSUME NEW q, e = StoreOf(r, q) PROVE e.pc = "select"
        BY <2>a, <4>1 DEF StoreOf, Reqs
      <4>2. ASSUME e = AgainOf(r)
            PROVE  e.pc = x.pc /\ e.permitted = x.permitted /\ e.cache = x.cache
        BY <2>a, <4>2 DEF AgainOf, Reqs
      <4>3. ASSUME e = ExpiredOf(r)
            PROVE  e.pc = x.pc /\ e.permitted = x.permitted /\ e.cache = "none"
        BY <2>a, <4>3 DEF ExpiredOf, Reqs
      <4> QED
        BY <2>3, <2>b, <3>3, <4>1, <4>2, <4>3 DEF Fetches, Crawling, Sweeping, Files
    <3>4. CASE Writes(r)
      <4>1. e = InsertOf(r) => e.pc = "insert"
        BY <2>a DEF InsertOf, Reqs
      <4>2. e = PassOf(r) => e.pc = x.pc
        BY <2>a DEF PassOf, Reqs
      <4>3. e = UpdateOf(r) => e.pc = "update"
        BY <2>a DEF UpdateOf, Reqs
      <4>4. e = FlushOf(r) => e.pc = "select"
        BY <2>a DEF FlushOf, Reqs
      <4>5. e = Idle => e.pc = "idle"
        BY DEF Idle
      <4> QED
        BY <2>3, <2>b, <3>4, <4>1, <4>2, <4>3, <4>4, <4>5 DEF Writes, Crawling, Sweeping
    <3> QED
      BY <1>2, <3>1, <3>2, <3>3, <3>4 DEF Local
  <2>5. RobotsFit(e)
    <3> SUFFICES ASSUME e.pc \in Crawling PROVE RobotsFit(e)
      BY DEF RobotsFit
    <3>1. \A c \in Files(r), kind \in {"list", "detail"} : CanFetch(c, kind) => kind \in x.permitted
      BY <2>4, ParserPermits
    <3>2. Permits(robots) \subseteq x.permitted
      BY <2>4, <2>a DEF RobotsFit
    <3>3. x.pc = "page" => "list" \in x.permitted
      BY <2>4, <2>a DEF RobotsFit
    <3>4. x.pc = "view" => "detail" \in x.permitted
      BY <2>4, <2>a DEF RobotsFit
    <3>5. \A kind : ~ CanFetch("none", kind)
      BY DEF CanFetch
    <3> QED
      BY <2>4, <3>1, <3>2, <3>3, <3>4, <3>5 DEF RobotsFit, Files
  <2> QED
    BY <1>1, <2>1, <2>3, <2>5 DEF RobotsInv, RobotsFit
<1>3. ASSUME NEW r \in Requests, Arrives(r) PROVE RobotsInv'
  <2>1. PICK src \in Sources, l \in {"allowed", "raw"} : NewRequest(r, src, l)
    BY <1>3, Arrival
  <2>2. /\ UNCHANGED robots /\ req'[r] = NewOf(r, src, l)
        /\ \A q \in Requests \ {r} :
              \/ req'[q] = [req[q] EXCEPT !.met = TRUE]
              \/ req'[q] = req[q]
    BY <2>1, ArrivalData
  <2>3. RobotsFit(NewOf(r, src, l))
    BY DEF NewOf, Idle, RobotsFit, CanFetch, Crawling, Sweeping
  <2>4. \A q \in Requests : RobotsFit([req[q] EXCEPT !.met = TRUE])
    BY <1>1 DEF RobotsFit, Reqs
  <2> QED
    BY <1>1, <2>2, <2>3, <2>4 DEF RobotsInv, RobotsFit
<1>4. ASSUME NEW r \in Requests, Commit(r) PROVE RobotsInv'
  <2>1. UNCHANGED robots /\ req'[r] = Idle /\ \A q \in Requests \ {r} : req'[q] = req[q]
    BY <1>4, CommitData DEF Commit
  <2>2. RobotsFit(Idle)
    BY DEF Idle, RobotsFit, Crawling, Sweeping
  <2> QED
    BY <1>1, <2>1, <2>2 DEF RobotsInv, RobotsFit
<1>5. ASSUME NEW rec \in Records, Edit(rec) PROVE RobotsInv'
  BY <1>5 DEF Edit, RobotsInv, RobotsFit
<1>6. ASSUME NEW a \in Answers, NewRobots(a) PROVE RobotsInv'
  <2>1. robots' = a /\ \A q \in Requests : req'[q] = PermittedOf(req[q], a)
    BY <1>6, RobotsData DEF NewRobots
  <2>2. ASSUME NEW q \in Requests PROVE RobotsFit(req[q])'
    <3> DEFINE x == req[q]
               e == PermittedOf(x, a)
    <3>1. /\ e.pc = x.pc /\ e.cache = x.cache
          /\ x.pc # "idle" => e.permitted = x.permitted \cup Permits(a)
      BY <1>1 DEF PermittedOf, Reqs
    <3>2. x.pc \in Crawling => x.pc # "idle"
      BY DEF Crawling, Sweeping
    <3> HIDE DEF e
    <3>3. RobotsFit(x) /\ req'[q] = e
      BY <1>1, <2>1 DEF e
    <3> QED
      BY <2>1, <3>1, <3>2, <3>3 DEF RobotsFit
  <2> QED
    BY <2>2 DEF RobotsInv
<1>7. CASE UNCHANGED vars
  BY <1>7 DEF RobotsInv, RobotsFit, vars
<1> QED
  BY <1>2, <1>3, <1>4, <1>5, <1>6, <1>7, Steps

(* No page is fetched that the site did not let crawlers see at some time  *)
(* since the crawl began: allowed, crawl_delay and the cache of the parsed *)
(* robots.txt never outlive or invent a permission.                        *)
THEOREM SitesAreRespected == Spec => []RobotsObeyed
<1> DEFINE Inv == Typed /\ Shape /\ Edited /\ RobotsInv
<1>1. Init => Inv
  <2>1. RobotsFit(Idle)
    BY DEF RobotsFit, Idle, Crawling, Sweeping
  <2> QED
    BY <2>1, TypeInit DEF Init, RobotsInv
<1>2. Inv /\ [Next]_vars => Inv'
  BY TypeStep, RobotsStep
<1>3. Inv => RobotsObeyed
  BY DEF RobotsInv, RobotsFit, RobotsObeyed, Crawling, Sweeping
<1> QED
  BY <1>1, <1>2, <1>3, PTL DEF Spec

-----------------------------------------------------------------------------
(* The counts.                                                             *)

(* What a step of a request does to its transaction.                       *)
TxnKept(e, x)  == e.buf = x.buf /\ e.ins = x.ins
TxnSteps(r, e) ==
    \/ TxnKept(e, req[r]) /\ e.pc \notin {"insert", "update"} /\ req[r].pc # "insert"
    \/ TxnKept(e, req[r]) /\ e.pc = req[r].pc /\ e.src = req[r].src /\ e.queue = req[r].queue /\ e.i = req[r].i
    \/ /\ e.pc = "insert" /\ e.buf = req[r].buf /\ e.ins = req[r].ins + 1 /\ req[r].pc = "select"
       /\ e.src = req[r].src /\ e.queue = req[r].queue /\ e.i = req[r].i
       /\ KeyOf(r, Post(r)) \notin DOMAIN req[r].buf \cup DOMAIN table
    \/ /\ e.pc = "update" /\ TxnKept(e, req[r]) /\ req[r].pc = "select"
       /\ e.src = req[r].src /\ e.queue = req[r].queue /\ e.i = req[r].i
       /\ KeyOf(r, Post(r)) \in DOMAIN req[r].buf \cup DOMAIN table
    \/ /\ e.pc = "select" /\ e.ins = req[r].ins /\ req[r].pc \in {"insert", "update"}
       /\ DOMAIN e.buf = DOMAIN req[r].buf \cup {KeyOf(r, Post(r))}
       /\ req[r].pc = "insert" => KeyOf(r, Post(r)) \notin DOMAIN table
       /\ \A q \in Requests \ {r} : KeyOf(r, Post(r)) \notin DOMAIN req[q].buf
    \/ e = Idle

LEMMA LocalTxn ==
  ASSUME Typed, Shape, NEW r \in Requests, Local(r)
  PROVE  TxnSteps(r, req'[r]) /\ \A q \in Requests \ {r} : req'[q] = req[q]
<1> DEFINE x == req[r]
           e == req'[r]
<1>1. x \in Reqs /\ Fits(x) /\ req \in [Requests -> Reqs]
  BY DEF Typed, Shape
<1>2. \A q \in Requests \ {r} : req'[q] = req[q]
  <2>1. PICK y \in Reqs : Becomes(r, y)
    BY LocalFits
  <2> QED
    BY <2>1, OneRequest
<1>3. \A y : Becomes(r, y) => e = y
  BY <1>1 DEF Becomes
<1>a. TxnKept(e, x) /\ e.pc \in {"page", "view", "detail", "select", "allowed"} /\ x.pc # "insert" => TxnSteps(r, e)
  BY DEF TxnSteps
<1> HIDE DEF e
<1>4. CASE Sweeps(r)
  <2>1. ASSUME e = PageOf(r) PROVE TxnKept(e, x) /\ e.pc = "page"
    BY <1>1, <2>1 DEF PageOf, Reqs, TxnKept
  <2>2. ASSUME NEW q, NEW c, e = DetailOf(r, q, c) PROVE TxnKept(e, x) /\ e.pc = "detail"
    BY <1>1, <2>2 DEF DetailOf, Reqs, TxnKept
  <2>3. ASSUME NEW q, e = StoreOf(r, q) PROVE TxnKept(e, x) /\ e.pc = "select"
    BY <1>1, <2>3 DEF StoreOf, Reqs, TxnKept
  <2>4. ASSUME NEW q, e = NextOf(r, q) PROVE TxnKept(e, x) /\ e.pc = "allowed"
    BY <1>1, <2>4 DEF NextOf, Reqs, TxnKept
  <2> QED
    BY <1>2, <1>3, <1>a, <1>4, <2>1, <2>2, <2>3, <2>4 DEF Sweeps, Sweeping, e
<1>5. CASE Enriches(r)
  <2>1. ASSUME e = ViewOf(r) PROVE TxnKept(e, x) /\ e.pc = "view"
    BY <1>1, <2>1 DEF ViewOf, Reqs, TxnKept
  <2>2. ASSUME NEW c, e = SkipOf(r, c) PROVE TxnKept(e, x) /\ e.pc = "detail"
    BY <1>1, <2>2 DEF SkipOf, Reqs, TxnKept
  <2>3. ASSUME NEW d, e = ReadOf(r, d) PROVE TxnKept(e, x) /\ e.pc = "detail"
    BY <1>1, <2>3 DEF ReadOf, Reqs, TxnKept
  <2>4. ASSUME e = StoreOf(r, x.queue) PROVE TxnKept(e, x) /\ e.pc = "select"
    BY <1>1, <2>4 DEF StoreOf, Reqs, TxnKept
  <2> QED
    BY <1>2, <1>3, <1>a, <1>5, <2>1, <2>2, <2>3, <2>4 DEF Enriches, e
<1>6. CASE Fetches(r)
  <2>1. ASSUME NEW q, e = StoreOf(r, q) PROVE TxnKept(e, x) /\ e.pc = "select"
    BY <1>1, <2>1 DEF StoreOf, Reqs, TxnKept
  <2>2. ASSUME e = AgainOf(r) PROVE TxnSteps(r, e)
    BY <1>1, <2>2 DEF AgainOf, Reqs, TxnKept, TxnSteps
  <2>3. ASSUME e = ExpiredOf(r) PROVE TxnSteps(r, e)
    BY <1>1, <2>3 DEF ExpiredOf, Reqs, TxnKept, TxnSteps
  <2> QED
    BY <1>2, <1>3, <1>a, <1>6, <2>1, <2>2, <2>3 DEF Fetches, e
<1>7. CASE Writes(r)
  <2>1. x.buf \in Rows /\ table \in Rows /\ DOMAIN Seen(r) = DOMAIN x.buf \cup DOMAIN table
    BY <1>1, Overlay DEF Seen, Typed, Reqs
  <2>2. ASSUME x.pc = "select", KeyOf(r, Post(r)) \notin DOMAIN Seen(r), e = InsertOf(r) PROVE TxnSteps(r, e)
    <3>1. e.pc = "insert" /\ e.buf = x.buf /\ e.ins = x.ins + 1 /\ e.src = x.src /\ e.queue = x.queue /\ e.i = x.i
      BY <1>1, <2>2 DEF InsertOf, Reqs
    <3> QED
      BY <2>1, <2>2, <3>1 DEF TxnSteps
  <2>3. ASSUME x.pc = "select", e = PassOf(r) PROVE TxnSteps(r, e)
    <3>1. TxnKept(e, x) /\ e.pc = "select"
      BY <1>1, <2>3 DEF PassOf, Reqs, TxnKept
    <3> QED
      BY <1>a, <2>3, <3>1 DEF e
  <2>4. ASSUME x.pc = "select", KeyOf(r, Post(r)) \in DOMAIN Seen(r), e = UpdateOf(r) PROVE TxnSteps(r, e)
    <3>1. e.pc = "update" /\ TxnKept(e, x) /\ e.src = x.src /\ e.queue = x.queue /\ e.i = x.i
      BY <1>1, <2>4 DEF UpdateOf, Reqs, TxnKept
    <3> QED
      BY <2>1, <2>4, <3>1 DEF TxnSteps
  <2>5. ASSUME Writing(r), Holders(r, KeyOf(r, Post(r))) = {},
               x.pc = "insert" => KeyOf(r, Post(r)) \notin DOMAIN table, e = FlushOf(r)
        PROVE  TxnSteps(r, e)
    <3>1. x.src \in Sources /\ Post(r) \in Posts
      BY <1>1, <2>5, RequestData DEF Writing, Fits, Storing
    <3>2. Row(KeyOf(r, Post(r)), Post(r)) \in Rows /\ DOMAIN Row(KeyOf(r, Post(r)), Post(r)) = {KeyOf(r, Post(r))}
      BY <3>1, KeysOfPosts DEF Row
    <3>3. e.pc = "select" /\ e.ins = x.ins /\ e.buf = Over(Row(KeyOf(r, Post(r)), Post(r)), x.buf)
      BY <1>1, <2>5 DEF FlushOf, Reqs
    <3>4. DOMAIN e.buf = DOMAIN x.buf \cup {KeyOf(r, Post(r))}
      <4> DEFINE f == Row(KeyOf(r, Post(r)), Post(r))
      <4>1. f \in Rows /\ DOMAIN f = {KeyOf(r, Post(r))} /\ e.buf = Over(f, x.buf)
        BY <3>2, <3>3
      <4> HIDE DEF f
      <4>2. DOMAIN Over(f, x.buf) = DOMAIN f \cup DOMAIN x.buf
        BY <2>1, <4>1, Overlay
      <4> QED
        BY <4>1, <4>2
    <3>5. \A q \in Requests \ {r} : KeyOf(r, Post(r)) \notin DOMAIN req[q].buf
      BY <2>5 DEF Holders
    <3> QED
      BY <2>5, <3>3, <3>4, <3>5 DEF TxnSteps, Writing
  <2>6. ASSUME e = Idle PROVE TxnSteps(r, e)
    BY <2>6 DEF TxnSteps
  <2> QED
    BY <1>2, <1>3, <1>7, <2>2, <2>3, <2>4, <2>5, <2>6 DEF Writes, e
<1> QED
  BY <1>4, <1>5, <1>6, <1>7 DEF Local

LEMMA SameKey ==
  ASSUME NEW q \in Requests, req'[q].src = req[q].src,
         req'[q].queue = req[q].queue, req'[q].i = req[q].i
  PROVE  KeyOf(q, Post(q))' = KeyOf(q, Post(q))
BY DEF KeyOf, Post, BoardRecordId, RecordId

(* A request whose transaction stays as it is.                             *)
LEMMA SameTxn ==
  ASSUME NEW q \in Requests, DOMAIN table' = DOMAIN table,
         InsertFit(req[q], KeyOf(q, Post(q))),
         TxnKept(req'[q], req[q]), req'[q].pc = req[q].pc, req'[q].src = req[q].src,
         req'[q].queue = req[q].queue, req'[q].i = req[q].i
  PROVE  InsertFit(req[q], KeyOf(q, Post(q)))'
BY SameKey DEF InsertFit, TxnKept, Pending

LEMMA InsertStep ==
  ASSUME Typed, Shape, InsertInv, [Next]_vars
  PROVE  InsertInv'
<1>1. /\ req \in [Requests -> Reqs] /\ \A q \in Requests : req[q] \in Reqs /\ Fits(req[q])
      /\ IsFiniteSet(DOMAIN table) /\ reported = Cardinality(DOMAIN table)
      /\ \A q \in Requests : InsertFit(req[q], KeyOf(q, Post(q)))
      /\ \A r, q \in Requests : r # q => DOMAIN req[r].buf \cap DOMAIN req[q].buf = {}
  BY DEF Typed, Shape, InsertInv
<1>a. IsFiniteSet({}) /\ Cardinality({}) = 0
  BY FS_EmptySet
<1>b. \A q \in Requests : /\ IsFiniteSet(DOMAIN req[q].buf \ DOMAIN table)
                          /\ Cardinality(DOMAIN req[q].buf \ DOMAIN table) \in Nat
  BY <1>1, FS_Difference, FS_CardinalityType DEF InsertFit
<1>2. ASSUME NEW r \in Requests, Local(r) PROVE InsertInv'
  <2> DEFINE x == req[r]
             e == req'[r]
             k == KeyOf(r, Post(r))
  <2>1. TxnSteps(r, e) /\ \A q \in Requests \ {r} : req'[q] = req[q]
    BY <1>2, LocalTxn
  <2>2. UNCHANGED <<table, reported>>
    BY <1>2 DEF Local
  <2>3. \A q \in Requests \ {r} : InsertFit(req[q], KeyOf(q, Post(q)))'
    BY <1>1, <2>1, <2>2, SameTxn DEF TxnKept
  <2>4. /\ InsertFit(req[r], KeyOf(r, Post(r)))'
        /\ \A q \in Requests \ {r} : DOMAIN e.buf \cap DOMAIN req[q].buf = {}
    <3>1. InsertFit(x, k) /\ \A q \in Requests \ {r} : DOMAIN x.buf \cap DOMAIN req[q].buf = {}
      BY <1>1
    <3>2. CASE TxnKept(e, x) /\ e.pc \notin {"insert", "update"} /\ x.pc # "insert"
      BY <2>2, <3>1, <3>2 DEF TxnKept, InsertFit, Pending
    <3>3. CASE TxnKept(e, x) /\ e.pc = x.pc /\ e.src = x.src /\ e.queue = x.queue /\ e.i = x.i
      BY <2>2, <3>1, <3>3, SameTxn DEF TxnKept
    <3>4. CASE /\ e.pc = "insert" /\ e.buf = x.buf /\ e.ins = x.ins + 1 /\ x.pc = "select"
               /\ e.src = x.src /\ e.queue = x.queue /\ e.i = x.i
               /\ k \notin DOMAIN x.buf \cup DOMAIN table
      <4>1. KeyOf(r, Post(r))' = k
        BY <3>4, SameKey
      <4> QED
        BY <1>b, <2>2, <3>1, <3>4, <4>1 DEF InsertFit, Pending
    <3>5. CASE /\ e.pc = "update" /\ TxnKept(e, x) /\ x.pc = "select"
               /\ e.src = x.src /\ e.queue = x.queue /\ e.i = x.i
               /\ k \in DOMAIN x.buf \cup DOMAIN table
      <4>1. KeyOf(r, Post(r))' = k
        BY <3>5, SameKey
      <4> QED
        BY <2>2, <3>1, <3>5, <4>1 DEF InsertFit, Pending, TxnKept
    <3>6. CASE /\ e.pc = "select" /\ e.ins = x.ins /\ x.pc \in {"insert", "update"}
               /\ DOMAIN e.buf = DOMAIN x.buf \cup {k}
               /\ x.pc = "insert" => k \notin DOMAIN table
               /\ \A q \in Requests \ {r} : k \notin DOMAIN req[q].buf
      <4>1. IsFiniteSet(DOMAIN e.buf)
        BY <3>1, <3>6, FS_AddElement DEF InsertFit
      <4>2. e.ins = Cardinality(DOMAIN e.buf \ DOMAIN table)
        <5>1. CASE x.pc = "insert"
          <6>1. k \notin DOMAIN x.buf /\ k \notin DOMAIN table
            BY <3>1, <3>6, <5>1 DEF InsertFit
          <6>2. DOMAIN e.buf \ DOMAIN table = (DOMAIN x.buf \ DOMAIN table) \cup {k}
            BY <3>6, <6>1
          <6>3. k \notin DOMAIN x.buf \ DOMAIN table
            BY <6>1
          <6>4. Cardinality(DOMAIN e.buf \ DOMAIN table) = Cardinality(DOMAIN x.buf \ DOMAIN table) + 1
            BY <1>b, <6>2, <6>3, FS_AddElement
          <6>5. x.ins = Cardinality(DOMAIN x.buf \ DOMAIN table) + 1
            BY <3>1, <5>1 DEF InsertFit, Pending
          <6> QED
            BY <3>6, <6>4, <6>5
        <5>2. CASE x.pc = "update"
          <6>1. k \in DOMAIN x.buf \cup DOMAIN table
            BY <3>1, <5>2 DEF InsertFit
          <6>2. DOMAIN e.buf \ DOMAIN table = DOMAIN x.buf \ DOMAIN table
            BY <3>6, <6>1
          <6>3. x.ins = Cardinality(DOMAIN x.buf \ DOMAIN table) + 0
            BY <3>1, <5>2 DEF InsertFit, Pending
          <6>4. x.ins = Cardinality(DOMAIN x.buf \ DOMAIN table)
            BY <1>b, <6>3
          <6>5. e.ins = x.ins
            BY <3>6
          <6> QED
            BY <6>2, <6>4, <6>5
        <5> QED
          BY <3>6, <5>1, <5>2
      <4>3. Cardinality(DOMAIN e.buf \ DOMAIN table) \in Nat
        BY <4>1, FS_Difference, FS_CardinalityType
      <4> QED
        BY <2>2, <3>1, <3>6, <4>1, <4>2, <4>3 DEF InsertFit, Pending
    <3>7. CASE e = Idle
      <4>1. DOMAIN e.buf = {} /\ e.ins = 0 /\ e.pc = "idle"
        BY <3>7, NoRows DEF Idle
      <4>2. DOMAIN e.buf \ DOMAIN table = {}
        BY <4>1
      <4> QED
        BY <1>a, <2>2, <4>1, <4>2 DEF InsertFit, Pending
    <3> QED
      BY <2>1, <3>2, <3>3, <3>4, <3>5, <3>6, <3>7 DEF TxnSteps
  <2>5. \A p, q \in Requests : p # q => DOMAIN req'[p].buf \cap DOMAIN req'[q].buf = {}
    BY <1>1, <2>1, <2>4
  <2> QED
    BY <1>1, <2>2, <2>3, <2>4, <2>5 DEF InsertInv
<1>3. ASSUME NEW r \in Requests, Arrives(r) PROVE InsertInv'
  <2>1. PICK src \in Sources, l \in {"allowed", "raw"} : NewRequest(r, src, l)
    BY <1>3, Arrival
  <2>2. /\ UNCHANGED <<table, reported>> /\ req'[r] = NewOf(r, src, l)
        /\ \A q \in Requests \ {r} :
              \/ req'[q] = [req[q] EXCEPT !.met = TRUE]
              \/ req'[q] = req[q]
    BY <2>1, ArrivalData
  <2>3. DOMAIN req'[r].buf = {} /\ req'[r].ins = 0 /\ req'[r].pc = l
    BY <2>2, NoRows DEF NewOf, Idle
  <2>4. \A q \in Requests \ {r} :
           /\ TxnKept(req'[q], req[q]) /\ req'[q].pc = req[q].pc /\ req'[q].src = req[q].src
           /\ req'[q].queue = req[q].queue /\ req'[q].i = req[q].i
    <3>1. \A y \in Reqs : LET z == [y EXCEPT !.met = TRUE] IN
             TxnKept(z, y) /\ z.pc = y.pc /\ z.src = y.src /\ z.queue = y.queue /\ z.i = y.i
      BY DEF TxnKept, Reqs
    <3>2. \A q \in Requests : TxnKept(req[q], req[q])
      BY DEF TxnKept
    <3> QED
      BY <1>1, <2>2, <3>1, <3>2
  <2>5. \A q \in Requests \ {r} : InsertFit(req[q], KeyOf(q, Post(q)))'
    BY <1>1, <2>2, <2>4, SameTxn
  <2>6. InsertFit(req[r], KeyOf(r, Post(r)))'
    <3>1. DOMAIN req'[r].buf \ DOMAIN table' = {}
      BY <2>3
    <3> QED
      BY <1>a, <2>3, <3>1 DEF InsertFit, Pending
  <2>7. \A p, q \in Requests : p # q => DOMAIN req'[p].buf \cap DOMAIN req'[q].buf = {}
    BY <1>1, <2>3, <2>4 DEF TxnKept
  <2> QED
    BY <1>1, <2>2, <2>5, <2>6, <2>7 DEF InsertInv
<1>4. ASSUME NEW r \in Requests, Commit(r) PROVE InsertInv'
  <2> DEFINE x == req[r]
  <2>1. /\ req'[r] = Idle /\ DOMAIN table' = DOMAIN table \cup DOMAIN x.buf
        /\ \A q \in Requests \ {r} : req'[q] = req[q]
    BY <1>4, CommitData
  <2>2. DOMAIN req'[r].buf = {} /\ req'[r].ins = 0 /\ req'[r].pc = "idle"
    BY <2>1, NoRows DEF Idle
  <2>3. x.ins = Cardinality(DOMAIN x.buf \ DOMAIN table)
    <3>1. x.pc = "select" /\ x.ins = Cardinality(DOMAIN x.buf \ DOMAIN table) + Pending(x)
      BY <1>1, <1>4 DEF Commit, InsertFit
    <3>2. Pending(x) = 0
      BY <3>1 DEF Pending
    <3> DEFINE n == Cardinality(DOMAIN x.buf \ DOMAIN table)
    <3>3. n \in Nat /\ x.ins = n + 0
      BY <1>b, <3>1, <3>2
    <3> HIDE DEF n
    <3>4. x.ins = n
      BY <3>3
    <3> QED
      BY <3>4 DEF n
  <2>4. IsFiniteSet(DOMAIN table') /\ reported' = Cardinality(DOMAIN table')
    <3>1. DOMAIN table' = DOMAIN table \cup (DOMAIN x.buf \ DOMAIN table)
      BY <2>1
    <3>2. DOMAIN table \cap (DOMAIN x.buf \ DOMAIN table) = {}
      OBVIOUS
    <3>3. /\ IsFiniteSet(DOMAIN table')
          /\ Cardinality(DOMAIN table') = Cardinality(DOMAIN table) + Cardinality(DOMAIN x.buf \ DOMAIN table)
                                        - Cardinality({})
      BY <1>1, <1>b, <3>1, <3>2, FS_Union
    <3>4. reported' = reported + x.ins
      BY <1>4 DEF Commit
    <3>5. Cardinality(DOMAIN table) \in Nat
      BY <1>1, FS_CardinalityType
    <3>6. Cardinality(DOMAIN table') = reported + x.ins - 0
      BY <1>1, <1>a, <2>3, <3>3
    <3>7. reported \in Nat /\ x.ins \in Nat
      BY <1>1, <1>b, <2>3, <3>5
    <3> QED
      BY <3>3, <3>4, <3>6, <3>7
  <2>5. InsertFit(req[r], KeyOf(r, Post(r)))'
    <3>1. DOMAIN req'[r].buf \ DOMAIN table' = {}
      BY <2>2
    <3> QED
      BY <1>a, <2>2, <3>1 DEF InsertFit, Pending
  <2>6. ASSUME NEW q \in Requests \ {r} PROVE InsertFit(req[q], KeyOf(q, Post(q)))'
    <3>1. DOMAIN req[q].buf \ DOMAIN table' = DOMAIN req[q].buf \ DOMAIN table
      BY <1>1, <2>1
    <3>2. KeyOf(q, Post(q))' = KeyOf(q, Post(q))
      BY <2>1, SameKey
    <3>3. InsertFit(req[q], KeyOf(q, Post(q)))
      BY <1>1
    <3> QED
      BY <2>1, <3>1, <3>2, <3>3 DEF InsertFit, Pending
  <2>7. \A p, q \in Requests : p # q => DOMAIN req'[p].buf \cap DOMAIN req'[q].buf = {}
    BY <1>1, <2>1, <2>2
  <2> QED
    BY <2>4, <2>5, <2>6, <2>7 DEF InsertInv
<1>5. ASSUME NEW rec \in Records, Edit(rec) PROVE InsertInv'
  <2>1. UNCHANGED <<table, req, reported>>
    BY <1>5 DEF Edit
  <2>2. \A q \in Requests : InsertFit(req[q], KeyOf(q, Post(q)))'
    BY <1>1, <2>1, SameTxn DEF TxnKept
  <2> QED
    BY <1>1, <2>1, <2>2 DEF InsertInv
<1>6. ASSUME NEW a \in Answers, NewRobots(a) PROVE InsertInv'
  <2>1. UNCHANGED <<table, reported>> /\ \A q \in Requests : req'[q] = PermittedOf(req[q], a)
    BY <1>6, RobotsData DEF NewRobots
  <2>2. \A q \in Requests :
           /\ TxnKept(req'[q], req[q]) /\ req'[q].pc = req[q].pc /\ req'[q].src = req[q].src
           /\ req'[q].queue = req[q].queue /\ req'[q].i = req[q].i
    <3>1. \A y \in Reqs : LET z == PermittedOf(y, a) IN
             TxnKept(z, y) /\ z.pc = y.pc /\ z.src = y.src /\ z.queue = y.queue /\ z.i = y.i
      BY DEF TxnKept, PermittedOf, Reqs
    <3> QED
      BY <1>1, <2>1, <3>1
  <2>3. \A q \in Requests : InsertFit(req[q], KeyOf(q, Post(q)))'
    BY <1>1, <2>1, <2>2, SameTxn
  <2> QED
    BY <1>1, <2>1, <2>2, <2>3 DEF InsertInv, TxnKept
<1>7. CASE UNCHANGED vars
  <2>1. UNCHANGED <<table, req, reported>>
    BY <1>7 DEF vars
  <2>2. \A q \in Requests : InsertFit(req[q], KeyOf(q, Post(q)))'
    BY <1>1, <2>1, SameTxn DEF TxnKept
  <2> QED
    BY <1>1, <2>1, <2>2 DEF InsertInv
<1> QED
  BY <1>2, <1>3, <1>4, <1>5, <1>6, <1>7, Steps

(* The events stored are as many as the answers said they inserted, with   *)
(* any number of collections of one source at once, deadlocks, failing     *)
(* statements and violations of the UNIQUE constraint.                     *)
THEOREM CountsAreHonest == Spec => []InsertsAddUp
<1> DEFINE Inv == Typed /\ Shape /\ Edited /\ InsertInv
<1>1. Init => Inv
  <2> SUFFICES ASSUME Init PROVE InsertInv
    BY TypeInit
  <2>1. DOMAIN table = {} /\ reported = 0 /\ IsFiniteSet({}) /\ Cardinality({}) = 0
    BY NoRows, FS_EmptySet DEF Init
  <2>2. \A r \in Requests : DOMAIN req[r].buf = {} /\ req[r].ins = 0 /\ req[r].pc = "idle"
    BY NoRows DEF Init, Idle
  <2>3. \A r \in Requests : DOMAIN req[r].buf \ DOMAIN table = {}
    BY <2>1, <2>2
  <2>4. ASSUME NEW r \in Requests PROVE InsertFit(req[r], KeyOf(r, Post(r)))
    <3>1. Cardinality(DOMAIN req[r].buf \ DOMAIN table) = 0 /\ Pending(req[r]) = 0
      BY <2>1, <2>2, <2>3 DEF Pending
    <3>2. req[r].ins = Cardinality(DOMAIN req[r].buf \ DOMAIN table) + Pending(req[r])
      BY <2>2, <3>1
    <3> QED
      BY <2>1, <2>2, <3>2 DEF InsertFit
  <2> QED
    BY <2>1, <2>2, <2>4 DEF InsertInv
<1>2. Inv /\ [Next]_vars => Inv'
  BY TypeStep, InsertStep
<1>3. Inv => InsertsAddUp
  BY DEF InsertInv, InsertsAddUp
<1> QED
  BY <1>1, <1>2, <1>3, PTL DEF Spec

-----------------------------------------------------------------------------
(* The rows.                                                               *)

LEMMA KeyFacts ==
  ASSUME NEW r \in Requests, NEW p \in Posts
  PROVE  KeyOf(r, p)[1] = req[r].src /\ KeyOf(r, p)[2][1] = p.rec
BY DEF KeyOf, BoardRecordId, RecordId

(* What was just read is as new as its source, so no stored row is newer.  *)
LEMMA JustRead ==
  ASSUME Typed, \A k \in DOMAIN table : TableFit(k),
         NEW r \in Requests, NEW p \in Posts, p.v = ver[p.rec]
  PROVE  Recent(r, p)
<1>1. p.v \in Nat /\ p.rec \in Records
  BY ConstantsAssumption DEF Posts, Versions
<1>2. KeyOf(r, p) \in DOMAIN table => table[KeyOf(r, p)].v <= p.v
  BY KeyFacts DEF TableFit
<1> QED
  BY <1>1, <1>2 DEF Recent

LEMMA FoundRows ==
  ASSUME Typed, Shape, RowInv, NEW r \in Requests, req[r].pc \in Sweeping,
         NEW q \in Found(r), NEW j \in 1 .. Len(q)
  PROVE  Recent(r, q[j]) /\ q[j].det = NoDetail
<1> DEFINE old == req[r].queue
<1>1. old \in Seq(Posts) /\ QueueFit(r, req[r])
  BY DEF Typed, Reqs, RowInv
<1>2. CASE q = old
  BY <1>1, <1>2 DEF QueueFit
<1>3. ASSUME NEW rec \in Records, q = Contests(old, RowOf(r, rec))
      PROVE  Recent(r, q[j]) /\ q[j].det = NoDetail
  <2>1. /\ RowOf(r, rec) \in Posts /\ RowOf(r, rec).v = ver[RowOf(r, rec).rec]
        /\ RowOf(r, rec).det = NoDetail
    <3>1. ver[rec] \in Versions /\ req[r].page \in 0 .. Pages /\ 0 \in 0 .. Pages
      BY ConstantsAssumption DEF Typed, Reqs
    <3> QED
      BY <3>1 DEF RowOf, Posts
  <2>2. Recent(r, RowOf(r, rec))
    BY <2>1, JustRead DEF RowInv
  <2>3. CASE q = old
    BY <1>2, <2>3
  <2>4. CASE q = Append(old, RowOf(r, rec))
    <3>1. q[j] = RowOf(r, rec) \/ (j \in 1 .. Len(old) /\ q[j] = old[j])
      BY <1>1, <2>1, <2>4
    <3> QED
      BY <1>1, <2>1, <2>2, <3>1 DEF QueueFit
  <2> QED
    BY <1>3, <2>3, <2>4 DEF Contests
<1> QED
  BY <1>2, <1>3 DEF Found

(* What a step of a request leaves of its rows.                            *)
RowsKept(e, x) == e.src = x.src /\ e.met = x.met /\ x.hindered \subseteq e.hindered

LEMMA StillDetailed ==
  ASSUME NEW x, NEW e, NEW p, RowsKept(e, x), Detailed(x, p)
  PROVE  Detailed(e, p)
BY DEF RowsKept, Detailed

LEMMA BufKept ==
  ASSUME NEW r \in Requests, NEW x, NEW e, RowsKept(e, x), e.buf = x.buf, BufFit(r, x)
  PROVE  BufFit(r, e)
BY StillDetailed DEF BufFit

LEMMA LocalRows ==
  ASSUME Typed, Shape, RowInv, NEW r \in Requests, Local(r)
  PROVE  \/ req'[r] = Idle
         \/ RowsKept(req'[r], req[r]) /\ QueueFit(r, req'[r]) /\ BufFit(r, req'[r])
<1> DEFINE x == req[r]
           e == req'[r]
           Goal(y) == RowsKept(y, x) /\ QueueFit(r, y) /\ BufFit(r, y)
<1>1. /\ x \in Reqs /\ Fits(x) /\ req \in [Requests -> Reqs]
      /\ QueueFit(r, x) /\ BufFit(r, x)
      /\ x.queue \in Seq(Posts) /\ Len(x.queue) \in Nat /\ x.i \in Nat
      /\ "none" \notin Sources /\ Apis \cap Boards = {} /\ WithDetail \subseteq Boards
      /\ \A v \in Versions : v # NoDetail
  <2>1. x \in Reqs /\ Fits(x) /\ req \in [Requests -> Reqs] /\ QueueFit(r, x) /\ BufFit(r, x)
    BY DEF Typed, Shape, RowInv
  <2>2. x.queue \in Seq(Posts) /\ Len(x.queue) \in Nat /\ x.i \in Nat
    BY <2>1 DEF Reqs
  <2>3. \A v \in Versions : v # NoDetail
    BY ConstantsAssumption DEF Versions, NoDetail
  <2> QED
    BY <2>1, <2>2, <2>3, Literals
<1>2. \A y : Becomes(r, y) => e = y
  BY <1>1 DEF Becomes
<1> HIDE DEF e
<1>3. CASE Sweeps(r)
  <2>1. x.pc \in Sweeping /\ x.src \in Boards
    BY <1>1, <1>3 DEF Sweeps, Fits
  <2>2. Goal(PageOf(r))
    <3> DEFINE y == PageOf(r)
    <3>1. /\ RowsKept(y, x) /\ y.buf = x.buf /\ y.queue = x.queue /\ y.pc = "page"
      BY <1>1 DEF PageOf, Reqs, RowsKept
    <3> HIDE DEF y
    <3>2. QueueFit(r, y)
      BY <1>1, <2>1, <3>1 DEF QueueFit, Sweeping, Storing
    <3> QED
      BY <1>1, <3>1, <3>2, BufKept DEF y
  <2>3. ASSUME NEW q \in Found(r), NEW c PROVE Goal(DetailOf(r, q, c))
    <3> DEFINE y == DetailOf(r, q, c)
    <3>1. /\ RowsKept(y, x) /\ y.buf = x.buf /\ y.queue = q /\ y.pc = "detail" /\ y.i = 1
      BY <1>1 DEF DetailOf, Reqs, RowsKept
    <3> HIDE DEF y
    <3>2. QueueFit(r, y)
      BY <2>1, <3>1, FoundRows DEF QueueFit, Sweeping, Storing
    <3> QED
      BY <1>1, <3>1, <3>2, BufKept DEF y
  <2>4. ASSUME NEW q \in Found(r), x.src \notin WithDetail PROVE Goal(StoreOf(r, q))
    <3> DEFINE y == StoreOf(r, q)
    <3>1. /\ RowsKept(y, x) /\ y.buf = x.buf /\ y.queue = q /\ y.pc = "select" /\ y.src = x.src
      BY <1>1 DEF StoreOf, Reqs, RowsKept
    <3> HIDE DEF y
    <3>2. \A p : p.det = NoDetail => Detailed(y, p)
      BY <1>1, <2>1, <2>4, <3>1 DEF Detailed
    <3>3. QueueFit(r, y)
      BY <2>1, <3>1, <3>2, FoundRows DEF QueueFit, Sweeping
    <3> QED
      BY <1>1, <3>1, <3>3, BufKept DEF y
  <2>5. ASSUME NEW q \in Found(r) PROVE Goal(NextOf(r, q))
    <3> DEFINE y == NextOf(r, q)
    <3>1. /\ RowsKept(y, x) /\ y.buf = x.buf /\ y.queue = q /\ y.pc = "allowed"
      BY <1>1 DEF NextOf, Reqs, RowsKept
    <3> HIDE DEF y
    <3>2. QueueFit(r, y)
      BY <2>1, <3>1, FoundRows DEF QueueFit, Storing
    <3> QED
      BY <1>1, <3>1, <3>2, BufKept DEF y
  <2> HIDE DEF Goal
  <2>6. Goal(e)
    BY <1>2, <1>3, <2>2, <2>3, <2>4, <2>5 DEF Sweeps
  <2> QED
    BY <2>6 DEF Goal, e
<1>4. CASE Enriches(r)
  <2>1. ASSUME x.pc = "detail" PROVE Goal(ViewOf(r))
    <3> DEFINE y == ViewOf(r)
    <3>1. /\ RowsKept(y, x) /\ y.buf = x.buf /\ y.queue = x.queue /\ y.pc = "view" /\ y.i = x.i
      BY <1>1 DEF ViewOf, Reqs, RowsKept
    <3> HIDE DEF y
    <3>2. QueueFit(r, y)
      BY <1>1, <2>1, <3>1, StillDetailed DEF QueueFit, Sweeping, Storing
    <3> QED
      BY <1>1, <3>1, <3>2, BufKept DEF y
  <2>2. ASSUME x.pc \in {"detail", "view"}, x.i <= Len(x.queue), NEW c PROVE Goal(SkipOf(r, c))
    <3> DEFINE y == SkipOf(r, c)
    <3>1. /\ RowsKept(y, x) /\ y.buf = x.buf /\ y.queue = x.queue /\ y.pc = "detail" /\ y.i = x.i + 1
          /\ Post(r).rec \in y.hindered /\ y.src = x.src
      BY <1>1 DEF SkipOf, Reqs, RowsKept
    <3> HIDE DEF y
    <3>2. x.src \in WithDetail
      BY <1>1, <2>2 DEF Fits
    <3>3. Detailed(y, Post(r))
      BY <1>1, <3>1, <3>2 DEF Detailed
    <3>4. ASSUME NEW j \in 1 .. Len(x.queue), j < x.i + 1 PROVE Detailed(y, x.queue[j])
      <4>1. CASE j = x.i
        BY <3>3, <4>1 DEF Post
      <4>2. CASE j < x.i
        BY <1>1, <2>2, <3>1, <4>2, StillDetailed DEF QueueFit
      <4> QED
        BY <1>1, <3>4, <4>1, <4>2
    <3>5. QueueFit(r, y)
      BY <1>1, <3>1, <3>4 DEF QueueFit, Sweeping, Storing
    <3> QED
      BY <1>1, <3>1, <3>5, BufKept DEF y
  <2>3. ASSUME x.pc = "view", NEW d \in ParseDetail(Post(r).rec) PROVE Goal(ReadOf(r, d))
    <3> DEFINE y == ReadOf(r, d)
               p == [Post(r) EXCEPT !.det = d]
    <3>1. x.i \in 1 .. Len(x.queue) /\ Post(r) \in Posts /\ x.src \in WithDetail
      BY <1>1, <2>3, RequestData DEF Fits
    <3>2. /\ RowsKept(y, x) /\ y.buf = x.buf /\ y.queue = ReadQueue(r, d) /\ y.pc = "detail"
          /\ y.i = x.i + 1 /\ y.src = x.src
          /\ d = NoDetail => Post(r).rec \in y.hindered
      BY <1>1 DEF ReadOf, Reqs, RowsKept
    <3>3. /\ Len(ReadQueue(r, d)) = Len(x.queue) /\ ReadQueue(r, d)[x.i] = p
          /\ \A j \in 1 .. Len(x.queue) : j # x.i => ReadQueue(r, d)[j] = x.queue[j]
      BY <1>1, <3>1 DEF ReadQueue, Post
    <3>4. p.rec = Post(r).rec /\ p.v = Post(r).v /\ p.det = d
      BY <3>1 DEF Posts
    <3> HIDE DEF y, p
    <3>5. Recent(r, p)
      <4>1. Recent(r, Post(r))
        BY <1>1, <3>1 DEF QueueFit, Post
      <4>2. KeyOf(r, p) = KeyOf(r, Post(r))
        BY <3>4 DEF KeyOf, BoardRecordId, RecordId
      <4> QED
        BY <3>4, <4>1, <4>2 DEF Recent
    <3>6. Detailed(y, p)
      BY <1>1, <3>1, <3>2, <3>4 DEF Detailed
    <3>7. \A j \in 1 .. Len(x.queue) : j < x.i => Detailed(y, x.queue[j])
      BY <1>1, <2>3, <3>2, StillDetailed DEF QueueFit
    <3>8. \A j \in 1 .. Len(x.queue) : Recent(r, ReadQueue(r, d)[j])
      BY <1>1, <3>3, <3>5 DEF QueueFit
    <3>9. \A j \in 1 .. Len(x.queue) : j < x.i + 1 => Detailed(y, ReadQueue(r, d)[j])
      BY <1>1, <3>3, <3>6, <3>7
    <3>10. QueueFit(r, y)
      BY <3>2, <3>3, <3>8, <3>9 DEF QueueFit, Sweeping, Storing
    <3> QED
      BY <1>1, <3>2, <3>10, BufKept DEF y
  <2>4. ASSUME x.pc = "detail", x.i > Len(x.queue) PROVE Goal(StoreOf(r, x.queue))
    <3> DEFINE y == StoreOf(r, x.queue)
    <3>1. /\ RowsKept(y, x) /\ y.buf = x.buf /\ y.queue = x.queue /\ y.pc = "select"
      BY <1>1 DEF StoreOf, Reqs, RowsKept
    <3> HIDE DEF y
    <3>2. \A j \in 1 .. Len(x.queue) : Detailed(y, x.queue[j])
      BY <1>1, <2>4, <3>1, StillDetailed DEF QueueFit
    <3>3. QueueFit(r, y)
      BY <1>1, <3>1, <3>2 DEF QueueFit, Sweeping
    <3> QED
      BY <1>1, <3>1, <3>3, BufKept DEF y
  <2> HIDE DEF Goal
  <2>5. Goal(e)
    BY <1>2, <1>4, <2>1, <2>2, <2>3, <2>4 DEF Enriches
  <2> QED
    BY <2>5 DEF Goal, e
<1>5. CASE Fetches(r)
  <2>1. ASSUME x.pc = "raw", NEW q \in Extracted PROVE Goal(StoreOf(r, Items(q)))
    <3> DEFINE y == StoreOf(r, Items(q))
    <3>1. /\ x.src \in Apis /\ q \in Seq(Records) /\ Len(Items(q)) = Len(q)
          /\ \A j \in 1 .. Len(q) : Items(q)[j] = Normalized(q[j])
      BY <1>1, <2>1, ItemsArePosts DEF Fits
    <3>2. /\ RowsKept(y, x) /\ y.buf = x.buf /\ y.queue = Items(q) /\ y.pc = "select" /\ y.src = x.src
      BY <1>1 DEF StoreOf, Reqs, RowsKept
    <3> HIDE DEF y
    <3>3. ASSUME NEW rec \in Records
          PROVE  Recent(r, Normalized(rec)) /\ Normalized(rec).det # NoDetail
      <4>1. /\ Normalized(rec) \in Posts /\ Normalized(rec).v = ver[Normalized(rec).rec]
            /\ Normalized(rec).det \in Versions
        BY ConstantsAssumption DEF Normalized, Posts, Typed
      <4> QED
        BY <1>1, <4>1, JustRead DEF RowInv
    <3>4. \A p : p.det # NoDetail => Detailed(y, p)
      BY <1>1, <3>1, <3>2 DEF Detailed
    <3>5. \A j \in 1 .. Len(q) : q[j] \in Records
      BY <3>1
    <3>6. QueueFit(r, y)
      BY <3>1, <3>2, <3>3, <3>4, <3>5 DEF QueueFit, Sweeping
    <3> QED
      BY <1>1, <3>2, <3>6, BufKept DEF y
  <2>2. Goal(AgainOf(r)) /\ Goal(ExpiredOf(r))
    <3>1. ASSUME NEW y, RowsKept(y, x), y.buf = x.buf, y.queue = x.queue, y.pc = x.pc, y.i = x.i
          PROVE  Goal(y)
      <4>1. QueueFit(r, y)
        BY <1>1, <3>1, StillDetailed DEF QueueFit
      <4> QED
        BY <1>1, <3>1, <4>1, BufKept
    <3>2. LET y == AgainOf(r) IN
            RowsKept(y, x) /\ y.buf = x.buf /\ y.queue = x.queue /\ y.pc = x.pc /\ y.i = x.i
      BY <1>1 DEF AgainOf, Reqs, RowsKept
    <3>3. LET y == ExpiredOf(r) IN
            RowsKept(y, x) /\ y.buf = x.buf /\ y.queue = x.queue /\ y.pc = x.pc /\ y.i = x.i
      BY <1>1 DEF ExpiredOf, Reqs, RowsKept
    <3> HIDE DEF Goal
    <3> QED
      BY <3>1, <3>2, <3>3
  <2> HIDE DEF Goal
  <2>3. Goal(e)
    BY <1>2, <1>5, <2>1, <2>2 DEF Fetches
  <2> QED
    BY <2>3 DEF Goal, e
<1>6. CASE Writes(r)
  <2>1. ASSUME NEW y, RowsKept(y, x), y.queue = x.queue, y.pc \in Storing, x.pc \in Storing
        PROVE  QueueFit(r, y)
    BY <1>1, <2>1, StillDetailed DEF QueueFit, Storing, Sweeping
  <2>2. ASSUME x.pc = "select" PROVE Goal(InsertOf(r))
    <3> DEFINE y == InsertOf(r)
    <3>1. RowsKept(y, x) /\ y.buf = x.buf /\ y.queue = x.queue /\ y.pc = "insert"
      BY <1>1 DEF InsertOf, Reqs, RowsKept
    <3> HIDE DEF y
    <3> QED
      BY <1>1, <2>1, <2>2, <3>1, BufKept DEF Storing, y
  <2>3. ASSUME x.pc = "select" PROVE Goal(PassOf(r))
    <3> DEFINE y == PassOf(r)
    <3>1. RowsKept(y, x) /\ y.buf = x.buf /\ y.queue = x.queue /\ y.pc = x.pc
      BY <1>1 DEF PassOf, Reqs, RowsKept
    <3> HIDE DEF y
    <3> QED
      BY <1>1, <2>1, <2>3, <3>1, BufKept DEF Storing, y
  <2>4. ASSUME x.pc = "select" PROVE Goal(UpdateOf(r))
    <3> DEFINE y == UpdateOf(r)
    <3>1. RowsKept(y, x) /\ y.buf = x.buf /\ y.queue = x.queue /\ y.pc = "update"
      BY <1>1 DEF UpdateOf, Reqs, RowsKept
    <3> HIDE DEF y
    <3> QED
      BY <1>1, <2>1, <2>4, <3>1, BufKept DEF Storing, y
  <2>5. ASSUME Writing(r) PROVE Goal(FlushOf(r))
    <3> DEFINE y == FlushOf(r)
               k == KeyOf(r, Post(r))
               f == Row(k, Post(r))
    <3>1. x.i \in 1 .. Len(x.queue) /\ x.pc \in Storing /\ Post(r) \in Posts /\ x.src \in Sources
      BY <1>1, <2>5, RequestData DEF Fits, Writing, Storing
    <3>2. RowsKept(y, x) /\ y.buf = Over(f, x.buf) /\ y.queue = x.queue /\ y.pc = "select"
      BY <1>1 DEF FlushOf, Reqs, RowsKept
    <3>3. f \in Rows /\ x.buf \in Rows /\ DOMAIN f = {k} /\ f[k] = Post(r)
      BY <1>1, <3>1, KeysOfPosts DEF Row, Reqs
    <3>4. Recent(r, Post(r)) /\ Detailed(x, Post(r))
      BY <1>1, <3>1 DEF QueueFit, Post
    <3> HIDE DEF y, f
    <3>5. /\ DOMAIN y.buf = {k} \cup DOMAIN x.buf /\ y.buf[k] = Post(r)
          /\ \A h \in DOMAIN x.buf \ {k} : y.buf[h] = x.buf[h]
      <4>1. /\ DOMAIN Over(f, x.buf) = DOMAIN f \cup DOMAIN x.buf
            /\ \A h \in DOMAIN f : Over(f, x.buf)[h] = f[h]
            /\ \A h \in DOMAIN x.buf \ DOMAIN f : Over(f, x.buf)[h] = x.buf[h]
        BY <3>3, Overlay
      <4> QED
        BY <3>2, <3>3, <4>1
    <3>6. BufFit(r, y)
      BY <1>1, <3>2, <3>4, <3>5, StillDetailed DEF BufFit
    <3> QED
      BY <2>1, <3>1, <3>2, <3>6 DEF Storing, y
  <2> HIDE DEF Goal
  <2>6. Goal(e) \/ e = Idle
    BY <1>2, <1>6, <2>2, <2>3, <2>4, <2>5 DEF Writes
  <2> QED
    BY <2>6 DEF Goal, e
<1> QED
  BY <1>3, <1>4, <1>5, <1>6 DEF Local

(* A request that keeps its source stands as before to the same rows, when *)
(* versions only grow and no row of its source changed, unless another     *)
(* collects the source too.                                                *)
LEMMA SameRows ==
  ASSUME NEW q \in Requests, req'[q].src = req[q].src, req[q].met => req'[q].met,
         Typed, NEW p \in Posts, Recent(q, p),
         \A rec \in Records : ver'[rec] \in Nat /\ ver[rec] <= ver'[rec],
         ~ req'[q].met => \A k \in DOMAIN table' : k[1] = req[q].src =>
                             k \in DOMAIN table /\ table'[k] = table[k]
  PROVE  Recent(q, p)' /\ KeyOf(q, p)' = KeyOf(q, p)
<1>1. KeyOf(q, p)' = KeyOf(q, p)
  BY DEF KeyOf, BoardRecordId, RecordId
<1>2. p.rec \in Records /\ p.v \in Nat /\ ver[p.rec] \in Nat
  BY ConstantsAssumption DEF Posts, Typed, Versions
<1>3. p.v <= ver'[p.rec]
  BY <1>2 DEF Recent
<1>4. ASSUME ~ req'[q].met, KeyOf(q, p) \in DOMAIN table'
      PROVE  table'[KeyOf(q, p)].v <= p.v
  BY <1>4, KeyFacts DEF Recent
<1> QED
  BY <1>1, <1>3, <1>4 DEF Recent

Carries(y, x) ==
    /\ y.queue = x.queue /\ y.pc = x.pc /\ y.i = x.i /\ y.buf = x.buf
    /\ y.src = x.src /\ y.hindered = x.hindered

LEMMA SameFits ==
  ASSUME Typed, NEW q \in Requests, NEW x \in Reqs, QueueFit(q, x), BufFit(q, x),
         Carries(req'[q], x), req'[q].src = req[q].src, req[q].met => req'[q].met,
         \A rec \in Records : ver'[rec] \in Nat /\ ver[rec] <= ver'[rec],
         ~ req'[q].met => \A k \in DOMAIN table' : k[1] = req[q].src =>
                             k \in DOMAIN table /\ table'[k] = table[k]
  PROVE  QueueFit(q, req[q])' /\ BufFit(q, req[q])'
<1>1. \A p : Detailed(x, p) => Detailed(req[q], p)'
  BY DEF Detailed, Carries
<1>2. \A p \in Posts : Recent(q, p) => Recent(q, p)' /\ KeyOf(q, p)' = KeyOf(q, p)
  BY SameRows
<1>3. \A j \in 1 .. Len(x.queue) : x.queue[j] \in Posts
  BY DEF Reqs
<1>4. \A k \in DOMAIN x.buf : x.buf[k] \in Posts
  BY RowsDef DEF Reqs
<1>5. QueueFit(q, req[q])'
  BY <1>1, <1>2, <1>3 DEF QueueFit, Carries
<1>6. BufFit(q, req[q])'
  BY <1>1, <1>2, <1>4 DEF BufFit, Carries
<1> QED
  BY <1>5, <1>6

LEMMA RowStep ==
  ASSUME Typed, Shape, RowInv, [Next]_vars, Typed', Shape'
  PROVE  RowInv'
<1>1. /\ req \in [Requests -> Reqs] /\ \A q \in Requests : req[q] \in Reqs /\ Fits(req[q])
      /\ \A q \in Requests : QueueFit(q, req[q]) /\ BufFit(q, req[q])
      /\ \A k \in DOMAIN table : TableFit(k)
      /\ \A r, q \in Requests : Paired(r, q)
      /\ \A q \in Requests : req'[q] \in Reqs
      /\ \A rec \in Records : ver[rec] \in Nat /\ ver'[rec] \in Nat
  BY ConstantsAssumption DEF Typed, Shape, RowInv, Paired, Versions
<1>a. ASSUME (\A q \in Requests : QueueFit(q, req[q]) /\ BufFit(q, req[q]))',
             (\A k \in DOMAIN table : TableFit(k))', (\A r, q \in Requests : Paired(r, q))'
      PROVE  RowInv'
  BY <1>a DEF RowInv, Paired
<1>b. ASSUME UNCHANGED <<table, ver>>
      PROVE  /\ (\A k \in DOMAIN table : TableFit(k))'
             /\ \A rec \in Records : ver'[rec] \in Nat /\ ver[rec] <= ver'[rec]
             /\ \A k \in DOMAIN table' : k \in DOMAIN table /\ table'[k] = table[k]
  BY <1>1, <1>b DEF TableFit
<1>c. ASSUME NEW q \in Requests, req'[q].queue = <<>>, req'[q].buf = <<>>
      PROVE  QueueFit(q, req[q])' /\ BufFit(q, req[q])'
  BY <1>c, NoRows DEF QueueFit, BufFit
<1>2. ASSUME NEW r \in Requests, Local(r) PROVE RowInv'
  <2>1. UNCHANGED <<table, ver>>
    BY <1>2 DEF Local
  <2>2. \A q \in Requests \ {r} : req'[q] = req[q]
    BY <1>2, LocalTxn
  <2>3. \/ req'[r] = Idle
        \/ RowsKept(req'[r], req[r]) /\ QueueFit(r, req'[r]) /\ BufFit(r, req'[r])
    BY <1>2, LocalRows
  <2>4. QueueFit(r, req[r])' /\ BufFit(r, req[r])'
    <3>1. CASE req'[r] = Idle
      BY <1>c, <3>1 DEF Idle
    <3>2. CASE RowsKept(req'[r], req[r]) /\ QueueFit(r, req'[r]) /\ BufFit(r, req'[r])
      <4>1. Carries(req'[r], req'[r]) /\ req'[r].src = req[r].src /\ req'[r].met = req[r].met
        BY <3>2 DEF Carries, RowsKept
      <4> QED
        BY <1>1, <1>b, <2>1, <3>2, <4>1, SameFits
    <3> QED
      BY <2>3, <3>1, <3>2
  <2>5. \A q \in Requests \ {r} : QueueFit(q, req[q])' /\ BufFit(q, req[q])'
    <3>1. \A q \in Requests \ {r} : Carries(req'[q], req[q])
      BY <2>2 DEF Carries
    <3> QED
      BY <1>1, <1>b, <2>1, <2>2, <3>1, SameFits
  <2>6. (\A p, q \in Requests : Paired(p, q))'
    <3>1. req'[r].src = "none" \/ (req'[r].src = req[r].src /\ req'[r].met = req[r].met)
      BY <2>3 DEF Idle, RowsKept
    <3> QED
      BY <1>1, <2>2, <3>1 DEF Paired
  <2> QED
    BY <1>a, <1>b, <2>1, <2>4, <2>5, <2>6
<1>3. ASSUME NEW r \in Requests, Arrives(r) PROVE RowInv'
  <2>1. PICK src \in Sources, l \in {"allowed", "raw"} : NewRequest(r, src, l)
    BY <1>3, Arrival
  <2>2. /\ UNCHANGED <<table, ver>> /\ req'[r] = NewOf(r, src, l)
        /\ \A q \in Requests \ {r} :
               \/ req[q].src = src /\ req'[q] = [req[q] EXCEPT !.met = TRUE]
               \/ req[q].src # src /\ req'[q] = req[q]
    BY <2>1, ArrivalData
  <2>3. /\ req'[r].queue = <<>> /\ req'[r].buf = <<>> /\ req'[r].src = src
        /\ req'[r].met = (Overlapping(r, src) # {})
    BY <2>2 DEF NewOf, Idle
  <2>4. \A q \in Requests \ {r} :
           /\ Carries(req'[q], req[q])
           /\ req'[q].met = IF req[q].src = src THEN TRUE ELSE req[q].met
    <3>1. \A y \in Reqs : LET z == [y EXCEPT !.met = TRUE] IN Carries(z, y) /\ z.met = TRUE
      BY DEF Carries, Reqs
    <3>2. \A y : Carries(y, y)
      BY DEF Carries
    <3> QED
      BY <1>1, <2>2, <3>1, <3>2
  <2>5. QueueFit(r, req[r])' /\ BufFit(r, req[r])'
    BY <1>c, <2>3
  <2>6. \A q \in Requests \ {r} : QueueFit(q, req[q])' /\ BufFit(q, req[q])'
    <3>1. \A q \in Requests \ {r} : req'[q].src = req[q].src /\ (req[q].met => req'[q].met)
      BY <2>4 DEF Carries
    <3> QED
      BY <1>1, <1>b, <2>2, <2>4, <3>1, SameFits
  <2>7. (\A p, q \in Requests : Paired(p, q))'
    <3>1. ASSUME NEW q \in Requests \ {r}, req'[q].src = src PROVE req'[q].met /\ req'[r].met
      <4>1. req[q].src = src
        BY <2>4, <3>1 DEF Carries
      <4>2. q \in Overlapping(r, src)
        BY <4>1 DEF Overlapping
      <4> QED
        BY <2>3, <2>4, <4>1, <4>2
    <3>2. ASSUME NEW p \in Requests \ {r}, NEW q \in Requests \ {r}, p # q, req'[p].src = req'[q].src, req'[p].src # "none"
          PROVE  req'[p].met
      BY <1>1, <2>4, <3>2 DEF Paired, Carries
    <3> QED
      BY <2>3, <3>1, <3>2 DEF Paired
  <2> QED
    BY <1>a, <1>b, <2>2, <2>5, <2>6, <2>7
<1>4. ASSUME NEW r \in Requests, Commit(r) PROVE RowInv'
  <2> DEFINE x == req[r]
  <2>1. /\ UNCHANGED ver /\ req'[r] = Idle
        /\ \A q \in Requests \ {r} : req'[q] = req[q]
        /\ DOMAIN table' = DOMAIN table \cup DOMAIN x.buf
        /\ \A k \in DOMAIN x.buf : table'[k] = x.buf[k]
        /\ \A k \in DOMAIN table \ DOMAIN x.buf : table'[k] = table[k]
    BY <1>4, CommitData DEF Commit
  <2>2. x.src \in Sources /\ x.src # "none"
    BY <1>1, <1>4, Literals DEF Commit, Fits, Storing
  <2>3. \A k \in DOMAIN x.buf :
           /\ x.buf[k] \in Posts /\ k[1] = x.src /\ k[2][1] = x.buf[k].rec
           /\ Recent(r, x.buf[k]) /\ Detailed(x, x.buf[k])
    <3>1. \A k \in DOMAIN x.buf : x.buf[k] \in Posts
      BY <1>1, RowsDef DEF Reqs
    <3>2. \A k \in DOMAIN x.buf : k = KeyOf(r, x.buf[k]) /\ Recent(r, x.buf[k]) /\ Detailed(x, x.buf[k])
      BY <1>1 DEF BufFit
    <3> QED
      BY <3>1, <3>2, KeyFacts
  <2>4. (\A k \in DOMAIN table : TableFit(k))'
    <3>1. ASSUME NEW k \in DOMAIN x.buf PROVE TableFit(k)'
      BY <2>1, <2>3 DEF TableFit, Recent, Detailed
    <3>2. ASSUME NEW k \in DOMAIN table \ DOMAIN x.buf PROVE TableFit(k)'
      BY <1>1, <2>1 DEF TableFit
    <3> QED
      BY <2>1, <3>1, <3>2
  <2>5. ASSUME NEW q \in Requests \ {r} PROVE QueueFit(q, req[q])' /\ BufFit(q, req[q])'
    <3>1. ASSUME ~ req'[q].met, NEW k \in DOMAIN table', k[1] = req[q].src
          PROVE  k \in DOMAIN table /\ table'[k] = table[k]
      <4>1. req[q].src # x.src
        BY <1>1, <2>1, <2>2, <3>1 DEF Paired
      <4>2. k \notin DOMAIN x.buf
        BY <2>3, <3>1, <4>1
      <4> QED
        BY <2>1, <3>1, <4>2
    <3>2. Carries(req'[q], req[q]) /\ req'[q] = req[q]
      BY <2>1 DEF Carries
    <3>3. \A rec \in Records : ver'[rec] \in Nat /\ ver[rec] <= ver'[rec]
      BY <1>1, <2>1
    <3> QED
      BY <1>1, <3>1, <3>2, <3>3, SameFits
  <2>6. QueueFit(r, req[r])' /\ BufFit(r, req[r])'
    BY <1>c, <2>1 DEF Idle
  <2>7. (\A p, q \in Requests : Paired(p, q))'
    BY <1>1, <2>1 DEF Paired, Idle
  <2> QED
    BY <1>a, <2>4, <2>5, <2>6, <2>7
<1>5. ASSUME NEW rec \in Records, Edit(rec) PROVE RowInv'
  <2>1. UNCHANGED <<table, req>> /\ ver' = [ver EXCEPT ![rec] = @ + 1]
    BY <1>5 DEF Edit
  <2>2. \A m \in Records : ver'[m] \in Nat /\ ver[m] <= ver'[m]
    BY <1>1, <2>1 DEF Typed
  <2>3. (\A k \in DOMAIN table : TableFit(k))'
    <3>1. ASSUME NEW k \in DOMAIN table PROVE TableFit(k)'
      <4>1. table[k].v \in Nat /\ table[k].rec \in Records
        BY RowsDef, ConstantsAssumption DEF Typed, Posts, Versions
      <4> QED
        BY <1>1, <2>1, <2>2, <4>1 DEF TableFit
    <3> QED
      BY <2>1, <3>1
  <2>4. \A q \in Requests : QueueFit(q, req[q])' /\ BufFit(q, req[q])'
    <3>1. \A q \in Requests : Carries(req'[q], req[q])
      BY <2>1 DEF Carries
    <3> QED
      BY <1>1, <2>1, <2>2, <3>1, SameFits
  <2>5. (\A p, q \in Requests : Paired(p, q))'
    BY <1>1, <2>1 DEF Paired
  <2> QED
    BY <1>a, <2>3, <2>4, <2>5
<1>6. ASSUME NEW a \in Answers, NewRobots(a) PROVE RowInv'
  <2>1. UNCHANGED <<table, ver>> /\ \A q \in Requests : req'[q] = PermittedOf(req[q], a)
    BY <1>6, RobotsData DEF NewRobots
  <2>2. \A q \in Requests : Carries(req'[q], req[q]) /\ req'[q].met = req[q].met /\ req'[q].src = req[q].src
    <3>1. \A y \in Reqs : LET z == PermittedOf(y, a) IN Carries(z, y) /\ z.met = y.met /\ z.src = y.src
      BY DEF Carries, PermittedOf, Reqs
    <3> QED
      BY <1>1, <2>1, <3>1
  <2>3. \A q \in Requests : QueueFit(q, req[q])' /\ BufFit(q, req[q])'
    BY <1>1, <1>b, <2>1, <2>2, SameFits
  <2>4. (\A p, q \in Requests : Paired(p, q))'
    BY <1>1, <2>2 DEF Paired
  <2> QED
    BY <1>a, <1>b, <2>1, <2>3, <2>4
<1>7. CASE UNCHANGED vars
  <2>1. UNCHANGED <<table, ver, req>>
    BY <1>7 DEF vars
  <2>2. \A q \in Requests : QueueFit(q, req[q])' /\ BufFit(q, req[q])'
    <3>1. \A q \in Requests : Carries(req'[q], req[q])
      BY <2>1 DEF Carries
    <3> QED
      BY <1>1, <1>b, <2>1, <3>1, SameFits
  <2>3. (\A p, q \in Requests : Paired(p, q))'
    BY <1>1, <2>1 DEF Paired
  <2> QED
    BY <1>a, <1>b, <2>1, <2>2, <2>3
<1> QED
  BY <1>2, <1>3, <1>4, <1>5, <1>6, <1>7, Steps

LEMMA RowsNeverRegress ==
  ASSUME Typed, Shape, RowInv, [Next]_vars, NEW k \in DOMAIN table
  PROVE  /\ k \in DOMAIN table'
         /\ \A r \in Requests : req[r].pc = "select" /\ req'[r].pc = "idle" =>
               /\ table'[k].v < table[k].v => req[r].met
               /\ table'[k].det = NoDetail /\ table[k].det # NoDetail
                     => k[2][1] \in req[r].hindered
<1>1. table[k] \in Posts /\ table[k].v \in Nat /\ TableFit(k)
  BY RowsDef, ConstantsAssumption DEF Typed, RowInv, Posts, Versions
<1>2. CASE UNCHANGED table
  BY <1>1, <1>2
<1>3. ASSUME NEW r \in Requests, Commit(r),
             NEW s \in Requests, req[s].pc = "select", req'[s].pc = "idle"
      PROVE  /\ table'[k].v < table[k].v => req[s].met
             /\ table'[k].det = NoDetail /\ table[k].det # NoDetail
                   => k[2][1] \in req[s].hindered
  <2>1. /\ \A q \in Requests \ {r} : req'[q] = req[q]
        /\ \A h \in DOMAIN req[r].buf : table'[h] = req[r].buf[h]
        /\ \A h \in DOMAIN table \ DOMAIN req[r].buf : table'[h] = table[h]
    BY <1>3, CommitData
  <2>2. s = r
    BY <1>3, <2>1
  <2>3. CASE k \notin DOMAIN req[r].buf
    BY <1>1, <2>1, <2>3
  <2>4. CASE k \in DOMAIN req[r].buf
    <3> DEFINE p == req[r].buf[k]
    <3>1. p \in Posts /\ p.v \in Nat
      <4>1. req[r].buf \in Rows
        BY DEF Typed, Reqs
      <4>2. p \in Posts
        BY <2>4, <4>1, RowsDef
      <4> QED
        BY <4>2, ConstantsAssumption DEF Posts, Versions
    <3>2. k = KeyOf(r, p) /\ Recent(r, p) /\ Detailed(req[r], p) /\ table'[k] = p
      BY <2>1, <2>4 DEF RowInv, BufFit
    <3> HIDE DEF p
    <3>3. k[1] = req[r].src /\ k[2][1] = p.rec
      BY <3>1, <3>2, KeyFacts
    <3>4. p.v < table[k].v => req[r].met
      BY <1>1, <3>1, <3>2 DEF Recent
    <3>5. req[r].src \in Sources
      BY <1>3 DEF Commit, Shape, Fits, Storing
    <3>6. p.det = NoDetail /\ table[k].det # NoDetail => p.rec \in req[r].hindered
      BY <1>1, <3>2, <3>3, <3>5, Literals DEF Detailed, TableFit, Sources
    <3> QED
      BY <2>2, <3>2, <3>3, <3>4, <3>6
  <2> QED
    BY <2>3, <2>4
<1>4. ASSUME NEW r \in Requests, Commit(r) PROVE k \in DOMAIN table'
  BY <1>4, CommitData
<1>5. ASSUME NEW r \in Requests, Local(r) \/ Arrives(r) PROVE UNCHANGED table
  BY <1>5 DEF Local, Arrives, NewRequest
<1>6. ASSUME \/ \E rec \in Records : Edit(rec)
             \/ \E a \in Answers : NewRobots(a)
             \/ UNCHANGED vars
      PROVE  UNCHANGED table
  BY <1>6 DEF Edit, NewRobots, vars
<1> QED
  BY <1>2, <1>3, <1>4, <1>5, <1>6, Steps

(* No collection makes a stored event older, unless another collects the   *)
(* same source meanwhile, or poorer, unless it could not read the post's   *)
(* detail page; and none removes an event.                                 *)
THEOREM EventsNeverRegress == Spec => NoRegress
<1> DEFINE Inv == Typed /\ Shape /\ Edited /\ RowInv
<1>1. Init => Inv
  <2> SUFFICES ASSUME Init PROVE RowInv
    BY TypeInit
  <2>1. \A r \in Requests : QueueFit(r, req[r]) /\ BufFit(r, req[r])
    BY NoRows DEF Init, Idle, QueueFit, BufFit
  <2>2. \A r, q \in Requests : Paired(r, q)
    BY DEF Init, Idle, Paired
  <2> QED
    BY <2>1, <2>2, NoRows DEF Init, RowInv
<1>2. Inv /\ [Next]_vars => Inv'
  BY TypeStep, RowStep
<1>3. Inv /\ [Next]_vars =>
         [\A k \in DOMAIN table :
            /\ k \in DOMAIN table'
            /\ \A r \in Requests : req[r].pc = "select" /\ req'[r].pc = "idle" =>
                  /\ table'[k].v < table[k].v => req[r].met
                  /\ table'[k].det = NoDetail /\ table[k].det # NoDetail
                        => k[2][1] \in req[r].hindered]_vars
  BY RowsNeverRegress
<1> QED
  BY <1>1, <1>2, <1>3, PTL DEF Spec, NoRegress
==============================================================================
