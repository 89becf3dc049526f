----------------------------- MODULE Ingestion -----------------------------
(***************************************************************************)
(* The collection of song contests (app/api/v1/ingestion): POST /crawl     *)
(* sweeps a municipal board page by page behind its robots.txt and reads   *)
(* the detail page of every contest, POST /run asks an open API, and both  *)
(* store what they found in festival_event, one transaction per request.   *)
(*                                                                         *)
(* Every request to the site and every SQL statement is a step of its own. *)
(* The site edits its posts and its robots.txt meanwhile.  The database is *)
(* PostgreSQL at read committed: a write waits for the transaction that    *)
(* wrote the row before it.                                                *)
(*                                                                         *)
(* A post's content is its version; the payload hash is taken to be        *)
(* injective.  A board page lists one post or none.                        *)
(***************************************************************************)
EXTENDS Naturals, Sequences, FiniteSets

CONSTANTS
    Records,      \* posts and API records, by their number at the source
    Words,        \* [Records -> SUBSET {"strong", "singing", "contest"}]: the title
    Boards,       \* BOARD_CONFIGS
    WithDetail,   \* boards with a parse_detail
    PageInUrl,    \* boards whose detail links carry the number of the list page
    Apis,         \* the source adapters
    WithId,       \* adapters whose records have an id
    Pages,        \* max_pages
    Requests,
    MaxRequests,  \* bound: requests in one behaviour
    MaxRetries,   \* max_retries of the HTTP helpers
    MaxFaults,    \* bound: failing requests and statements
    MaxChanges    \* bound: edits of the site and expiries of a robots.txt

ASSUME ConstantsAssumption ==
    /\ Words \in [Records -> SUBSET {"strong", "singing", "contest"}]
    /\ WithDetail \subseteq Boards /\ PageInUrl \subseteq Boards
    /\ WithId \subseteq Apis /\ Apis \cap Boards = {} /\ "none" \notin Boards \cup Apis
    /\ Pages \in Nat \ {0}
    /\ {MaxRequests, MaxRetries, MaxFaults, MaxChanges} \subseteq Nat

VARIABLES
    ver,          \* the version of each post at its source
    robots,       \* what the boards' sites answer for /robots.txt
    table,        \* festival_event, as committed
    req,          \* the requests
    started, faults, changes,
    reported      \* history: the sum of the "inserted" counts answered

vars == <<ver, robots, table, req, started, faults, changes, reported>>

Answers  == {"absent", "rules", "disallow", "forbidden", "error", "down"}
Versions == 0 .. MaxChanges
Sources  == Boards \cup Apis
Keys     == Sources \X (Records \X Versions)
NoDetail == MaxChanges + 1
Posts    == [rec : Records, url : 0 .. Pages, v : Versions, det : Versions \cup {NoDetail}]

Idle == [pc |-> "idle", src |-> "none", page |-> 1, queue |-> <<>>, i |-> 1,
         cache |-> "none", attempt |-> 0, buf |-> <<>>, ins |-> 0,
         permitted |-> {}, hindered |-> {}, met |-> FALSE]

-----------------------------------------------------------------------------
(* robots.txt.                                                             *)

(* A mutant: a robots.txt that cannot be fetched counts as none.           *)
ParsedLeniently(a) ==
    CASE a = "rules"                  -> "listOnly"
      [] a = "disallow"               -> "nothing"
      [] a = "forbidden"              -> "unknown"
      [] a \in {"absent", "error", "down"} -> "all"

(* _parser on a fresh answer: rules apply, 401 and 403 and an exception    *)
(* yield no parser, every other status the parser of an empty file.        *)
Parsed(a) ==
    CASE a = "rules"               -> "listOnly"
      [] a = "disallow"            -> "nothing"
      [] a \in {"forbidden", "down"} -> "unknown"
      [] a \in {"absent", "error"} -> "all"

(* _parser: the cached one for an hour, then the site is asked again.      *)
Parser(r) == IF req[r].cache = "none" THEN Parsed(robots) ELSE req[r].cache

(* allowed: without a parser nothing is.                                   *)
CanFetch(parser, kind) == parser = "all" \/ (parser = "listOnly" /\ kind = "list")

(* crawl_delay asks for the parser again; how long it waits is left out.   *)
CrawlDelay(r) == Parser(r)

(* What a site lets crawlers do: it is silent, or its server failed.       *)
Permits(a) ==
    CASE a \in {"absent", "error"}               -> {"list", "detail"}
      [] a = "rules"                             -> {"list"}
      [] a \in {"disallow", "forbidden", "down"} -> {}

-----------------------------------------------------------------------------
(* What is stored of a post.                                               *)

(* is_gayoje: a word that decides, or singing together with a contest.     *)
IsGayoje(rec) ==
    \/ "strong" \in Words[rec]
    \/ {"singing", "contest"} \subseteq Words[rec]

(* _rows_by_id: the link of a post may carry the page it was found on.     *)
RowOf(r, rec) == [rec |-> rec, url |-> IF req[r].src \in PageInUrl THEN req[r].page ELSE 0,
                  v |-> ver[rec], det |-> NoDetail]

(* normalize: an API record has its details with it.                       *)
Normalized(rec) == [rec |-> rec, url |-> 0, v |-> ver[rec], det |-> ver[rec]]

(* The id in a post's link; without an id, an API record is known by its   *)
(* title, date and venue, so that an edit makes another record of it.      *)
BoardRecordId(p) == <<p.rec, 0>>
RecordId(a, p)   == <<p.rec, IF a \in WithId THEN 0 ELSE p.v>>

KeyOf(r, p) == <<req[r].src, IF req[r].src \in Boards THEN BoardRecordId(p)
                             ELSE RecordId(req[r].src, p)>>

(* payload_hash tells payloads apart.                                      *)
SamePayload(p, q) == p = q

(* crawl_board: one post for each detail link, the first one, and only the *)
(* song contests.  The code sorts the others out at the end of the sweep;  *)
(* nothing looks at them before.                                           *)
Url(p)         == <<p.rec, p.url>>
First(q, p)    == \A j \in 1 .. Len(q) : Url(q[j]) # Url(p)
Contests(q, p) == IF First(q, p) /\ IsGayoje(p.rec) THEN Append(q, p) ELSE q

Init ==
    /\ ver = [rec \in Records |-> 0]
    /\ robots \in Answers
    /\ table = <<>>
    /\ req = [r \in Requests |-> Idle]
    /\ started = 0 /\ faults = 0 /\ changes = 0 /\ reported = 0

-----------------------------------------------------------------------------
Fails == faults < MaxFaults /\ faults' = faults + 1

Overlapping(r, src) == {q \in Requests \ {r} : req[q].src = src}

NewRequest(r, src, l) ==
    /\ req[r].pc = "idle" /\ started < MaxRequests
    /\ started' = started + 1
    /\ req' = [q \in Requests |->
                  IF q = r THEN [Idle EXCEPT !.pc = l, !.src = src,
                                             !.permitted = Permits(robots),
                                             !.met = Overlapping(r, src) # {}]
                  ELSE IF req[q].src = src THEN [req[q] EXCEPT !.met = TRUE]
                  ELSE req[q]]
    /\ UNCHANGED <<ver, robots, table, faults, changes, reported>>

(* POST /crawl with a known board, a gate of its own and its pages capped. *)
RunCrawl(r, b) == NewRequest(r, b, "allowed")

(* POST /run with a known source and a service key.                        *)
RunIngest(r, a) == NewRequest(r, a, "raw")

(* The request is over; a rollback leaves the table as it was.             *)
Answered(r) == req' = [req EXCEPT ![r] = Idle]
Rollback(r) == Answered(r) /\ UNCHANGED <<table, reported>>

-----------------------------------------------------------------------------
(* The sweep of the list pages.                                            *)

(* What was found goes to the database; the crawl and its gate are over.   *)
Store(r, q) ==
    req' = [req EXCEPT ![r] = [@ EXCEPT !.pc = "select", !.queue = q, !.i = 1, !.page = 1,
                                        !.cache = "none", !.attempt = 0, !.permitted = {}]]

(* The sweep is over: what it found goes on to the detail pages, or is     *)
(* stored as it is.                                                        *)
Swept(r, q, c) ==
    IF req[r].src \in WithDetail
    THEN req' = [req EXCEPT ![r].pc = "detail", ![r].queue = q, ![r].i = 1,
                            ![r].cache = c]
    ELSE Store(r, q)

(* A page that robots.txt forbids ends the sweep.                          *)
AllowedPage(r) ==
    /\ req[r].pc = "allowed"
    /\ IF CanFetch(Parser(r), "list")
       THEN req' = [req EXCEPT ![r].cache = Parser(r), ![r].pc = "page", ![r].attempt = 0]
       ELSE Swept(r, req[r].queue, Parser(r))
    /\ UNCHANGED <<ver, robots, table, started, faults, changes, reported>>

(* A page with rows: crawl_delay looks at robots.txt, then the next page.  *)
NextPage(r, q) ==
    IF req[r].page = Pages THEN Swept(r, q, CrawlDelay(r))
    ELSE req' = [req EXCEPT ![r].queue = q, ![r].page = @ + 1, ![r].cache = CrawlDelay(r),
                            ![r].pc = "allowed"]

(* http_get_text, once: a transient failure is tried again, the last one   *)
(* and any other 4xx raise.                                                *)
Retry(r, giveUp) ==
    /\ Fails
    /\ \/ req[r].attempt < MaxRetries /\ req' = [req EXCEPT ![r].attempt = @ + 1]
       \/ giveUp

(* The page of the list: no rows end the sweep, and so does a failure.     *)
FetchPage(r) ==
    /\ req[r].pc = "page"
    /\ \/ /\ \/ \E rec \in Records :
                   NextPage(r, Contests(req[r].queue, RowOf(r, rec)))
             \/ Swept(r, req[r].queue, req[r].cache)
          /\ UNCHANGED faults
       \/ Retry(r, Swept(r, req[r].queue, req[r].cache))
    /\ UNCHANGED <<ver, robots, table, started, changes, reported>>

-----------------------------------------------------------------------------
(* _enrich_detail.                                                         *)

Post(r) == req[r].queue[req[r].i]

(* A mutant: the first detail page that cannot be read ends the loop.      *)
SkipAll(r, c) ==
    req' = [req EXCEPT ![r].i = Len(req[r].queue) + 1, ![r].pc = "detail", ![r].cache = c,
                       ![r].hindered = @ \cup {Post(r).rec}]

(* The post keeps its title and its link only; on with the next one.       *)
SkipDetail(r, c) ==
    req' = [req EXCEPT ![r].i = @ + 1, ![r].pc = "detail", ![r].cache = c,
                       ![r].hindered = @ \cup {Post(r).rec}]

AllowedDetail(r) ==
    /\ req[r].pc = "detail" /\ req[r].i <= Len(req[r].queue)
    /\ IF CanFetch(Parser(r), "detail")
       THEN req' = [req EXCEPT ![r].cache = Parser(r), ![r].pc = "view", ![r].attempt = 0]
       ELSE SkipDetail(r, Parser(r))
    /\ UNCHANGED <<ver, robots, table, started, faults, changes, reported>>

(* parse_detail finds the date, the venue and the host of the post as it   *)
(* is now, or raises or finds nothing.                                     *)
ParseDetail(rec) == {ver[rec], NoDetail}

FetchDetail(r) ==
    /\ req[r].pc = "view"
    /\ \/ /\ \E d \in ParseDetail(Post(r).rec) :
                req' = [req EXCEPT ![r].queue[req[r].i].det = d, ![r].i = @ + 1,
                                   ![r].pc = "detail", ![r].cache = CrawlDelay(r),
                                   ![r].hindered = IF d = NoDetail THEN @ \cup {Post(r).rec} ELSE @]
          /\ UNCHANGED faults
       \/ Retry(r, SkipDetail(r, req[r].cache))
    /\ UNCHANGED <<ver, robots, table, started, changes, reported>>

Enriched(r) ==
    /\ req[r].pc = "detail" /\ req[r].i > Len(req[r].queue)
    /\ Store(r, req[r].queue)
    /\ UNCHANGED <<ver, robots, table, started, faults, changes, reported>>

-----------------------------------------------------------------------------
(* ingest_records: what is no song contest is skipped, so an answer counts *)
(* by its contests.                                                        *)
Items(q) == [j \in 1 .. Len(q) |-> Normalized(q[j])]

(* extract_records: up to two records in any order, none from a text that  *)
(* is no JSON.                                                             *)
Gayoje    == {rec \in Records : IsGayoje(rec)}
Extracted == {<<>>} \cup {<<rec>> : rec \in Gayoje}
                   \cup {q \in Gayoje \X Gayoje : q[1] # q[2]}

(* http_fetch_records: retries as above, then the request fails.           *)
FetchRaw(r) ==
    /\ req[r].pc = "raw"
    /\ \/ /\ \E q \in Extracted : Store(r, Items(q))
          /\ UNCHANGED faults
       \/ Retry(r, Answered(r))
    /\ UNCHANGED <<ver, robots, table, started, changes, reported>>

-----------------------------------------------------------------------------
(* The transaction.                                                        *)

(* Rows f written over the rows g.                                         *)
Over(f, g) == [k \in DOMAIN f \cup DOMAIN g |-> IF k \in DOMAIN f THEN f[k] ELSE g[k]]
Row(k, p)  == [x \in {k} |-> p]

(* The table as this transaction sees it.                                  *)
Seen(r) == Over(req[r].buf, table)

(* upsert_event: the SELECT decides between an insert, nothing and an      *)
(* update; what it decided is flushed before the next statement.           *)
Select(r) ==
    /\ req[r].pc = "select" /\ req[r].i <= Len(req[r].queue)
    /\ LET k == KeyOf(r, Post(r)) IN
       req' = IF k \notin DOMAIN Seen(r)
              THEN [req EXCEPT ![r].pc = "insert", ![r].ins = @ + 1]
              ELSE IF SamePayload(Seen(r)[k], Post(r)) THEN [req EXCEPT ![r].i = @ + 1]
              ELSE [req EXCEPT ![r].pc = "update"]
    /\ UNCHANGED <<ver, robots, table, started, faults, changes, reported>>

(* Transactions with an uncommitted row of the key: a writer waits.        *)
Holders(r, k) == {q \in Requests \ {r} : k \in DOMAIN req[q].buf}
Writing(r)    == req[r].pc \in {"insert", "update"}

(* A mutant: an insert that meets a row is dropped in silence.             *)
FlushQuietly(r) ==
    LET k == KeyOf(r, Post(r)) IN
    /\ Writing(r) /\ Holders(r, k) = {}
    /\ req' = [req EXCEPT ![r].pc = "select", ![r].i = @ + 1,
                          ![r].buf = IF req[r].pc = "insert" /\ k \in DOMAIN table
                                     THEN @ ELSE Over(Row(k, Post(r)), @)]
    /\ UNCHANGED <<ver, robots, table, started, faults, changes, reported>>

(* An insert that meets a row committed since the SELECT violates the      *)
(* UNIQUE constraint and fails the request; an update overwrites the row.  *)
Flush(r) ==
    LET k == KeyOf(r, Post(r)) IN
    /\ Writing(r) /\ Holders(r, k) = {}
    /\ IF req[r].pc = "insert" /\ k \in DOMAIN table
       THEN Rollback(r)
       ELSE /\ req' = [req EXCEPT ![r].pc = "select", ![r].i = @ + 1,
                                  ![r].buf = Over(Row(k, Post(r)), @)]
            /\ UNCHANGED <<table, reported>>
    /\ UNCHANGED <<ver, robots, started, faults, changes>>

(* Two transactions that wait for each other: the database ends one.       *)
Deadlock(r) ==
    /\ Writing(r)
    /\ \E q \in Holders(r, KeyOf(r, Post(r))) :
          Writing(q) /\ r \in Holders(q, KeyOf(q, Post(q)))
    /\ Rollback(r)
    /\ UNCHANGED <<ver, robots, started, faults, changes>>

(* A statement fails: a value too long for its column, a lost connection.  *)
StatementFails(r) ==
    /\ Writing(r) /\ Fails
    /\ Rollback(r)
    /\ UNCHANGED <<ver, robots, started, changes>>

(* session.commit() and the answer with its counts.                        *)
Commit(r) ==
    /\ req[r].pc = "select" /\ req[r].i > Len(req[r].queue)
    /\ table' = Seen(r)
    /\ reported' = reported + req[r].ins
    /\ Answered(r)
    /\ UNCHANGED <<ver, robots, started, faults, changes>>

-----------------------------------------------------------------------------
(* The world outside.                                                      *)

Changes == changes < MaxChanges /\ changes' = changes + 1

(* A source edits a post.                                                  *)
Edit(rec) ==
    /\ Changes
    /\ ver' = [ver EXCEPT ![rec] = @ + 1]
    /\ UNCHANGED <<robots, table, req, started, faults, reported>>

(* The site answers something else for robots.txt from now on.             *)
NewRobots(a) ==
    /\ Changes /\ robots # a
    /\ robots' = a
    /\ req' = [r \in Requests |-> [req[r] EXCEPT !.permitted =
                                      IF req[r].pc = "idle" THEN @ ELSE @ \cup Permits(a)]]
    /\ UNCHANGED <<ver, table, started, faults, reported>>

(* An hour passes for the robots.txt of a crawl.                           *)
CacheExpires(r) ==
    /\ Changes /\ req[r].cache # "none"
    /\ req' = [req EXCEPT ![r].cache = "none"]
    /\ UNCHANGED <<ver, robots, table, started, faults, reported>>

Next ==
    \/ \E r \in Requests :
          \/ \E b \in Boards : RunCrawl(r, b)
          \/ \E a \in Apis : RunIngest(r, a)
          \/ AllowedPage(r) \/ FetchPage(r)
          \/ AllowedDetail(r) \/ FetchDetail(r) \/ Enriched(r)
          \/ FetchRaw(r)
          \/ Select(r) \/ Flush(r) \/ Deadlock(r) \/ StatementFails(r) \/ Commit(r)
          \/ CacheExpires(r)
    \/ \E rec \in Records : Edit(rec)
    \/ \E a \in Answers : NewRobots(a)

Spec == Init /\ [][Next]_vars

-----------------------------------------------------------------------------
TypeOK ==
    /\ ver \in [Records -> Versions] /\ robots \in Answers
    /\ \A rows \in {table} \cup {req[r].buf : r \in Requests} :
          DOMAIN rows \subseteq Keys /\ \A k \in DOMAIN rows : rows[k] \in Posts
    /\ \A r \in Requests :
          /\ req[r].pc \in {"idle", "allowed", "page", "detail", "view", "raw",
                            "select", "insert", "update"}
          /\ req[r].src \in Sources \cup {"none"} /\ req[r].page \in 1 .. Pages
          /\ req[r].queue \in Seq(Posts) /\ req[r].i \in 1 .. Len(req[r].queue) + 1
          /\ req[r].cache \in {"none", "all", "listOnly", "nothing", "unknown"}
          /\ req[r].attempt \in 0 .. MaxRetries /\ req[r].ins \in Nat
          /\ req[r].permitted \subseteq {"list", "detail"}
          /\ req[r].hindered \subseteq Records /\ req[r].met \in BOOLEAN
    /\ started \in 0 .. MaxRequests /\ faults \in 0 .. MaxFaults
    /\ changes \in 0 .. MaxChanges /\ reported \in Nat

(* No page is fetched from a site that, since the crawl began, never let   *)
(* crawlers see it: it forbade the page, or its robots.txt was refused or  *)
(* out of reach.  A server error counts as no rules, as in the code.       *)
RobotsObeyed ==
    \A r \in Requests :
        /\ req[r].pc = "page" => "list" \in req[r].permitted
        /\ req[r].pc = "view" => "detail" \in req[r].permitted

(* Requests are all or nothing, and their counts are honest even when two  *)
(* collect one source at once: the stored events are as many as all the    *)
(* answers together said they inserted.                                    *)
InsertsAddUp == reported = Cardinality(DOMAIN table)

(* A collection never makes an event poorer or older, with two exceptions  *)
(* the code has: the details of a post whose detail page this crawl could  *)
(* not read are overwritten with NULL, and of two overlapping collections  *)
(* the last to write wins, whichever saw the newer post.                   *)
NoRegress ==
    [][\A k \in DOMAIN table :
          /\ k \in DOMAIN table'
          /\ \A r \in Requests : req[r].pc = "select" /\ req'[r].pc = "idle" =>
                /\ table'[k].v < table[k].v => req[r].met
                /\ table'[k].det = NoDetail /\ table[k].det # NoDetail
                      => k[2][1] \in req[r].hindered]_vars
=============================================================================
