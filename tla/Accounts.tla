------------------------------ MODULE Accounts ------------------------------
(***************************************************************************)
(* Accounts and what belongs to them: the ways to log in (a password,      *)
(* GitHub, Google), their links and disconnections, the account's          *)
(* projects, and its deletion (app/api/auth_routes.py,                     *)
(* app/service/user_repository.py, app/service/ownership_repository.py).   *)
(*                                                                         *)
(* Every Cypher statement is a step of its own; requests interleave        *)
(* between them.  A statement is atomic, except the deletion, which counts *)
(* the administrators before it locks anything (read committed).           *)
(*                                                                         *)
(* A provider's account is named after the email it reports.  The UNIQUE   *)
(* constraints on github_id and google_id are in place.                    *)
(***************************************************************************)
EXTENDS Integers, FiniteSets

CONSTANTS
    Emails,        \* User.email, and the provider accounts that report it
    Names,         \* project names
    Founding,      \* the names of the projects there may be at first
    Requests,
    None,          \* no provider account
    AdminEmails,   \* ADMIN_EMAILS
    Limit,         \* max_projects of the plan
    MaxRequests,   \* bound: requests in one behaviour
    MaxFaults      \* bound: failing promotions and project deletions

ASSUME ConstantsAssumption ==
    /\ IsFiniteSet(Emails) /\ IsFiniteSet(Names) /\ IsFiniteSet(Requests)
    /\ None \notin Emails
    /\ AdminEmails \subseteq Emails /\ Founding \subseteq Names
    /\ {Limit, MaxRequests, MaxFaults} \subseteq Nat

VARIABLES
    node,          \* the User nodes
    owns,          \* the OWNS relations
    proj,          \* the Project nodes, keyed by (owner_email, name)
    docs,          \* projects with meeting logs, CPS, PRD or design stored
    req,           \* the requests in flight
    started, faults,
    edited,        \* history: accounts whose github_username was typed in
    crossed,       \* history: a disconnection met another one or a deletion
    adminRace,     \* history: two administrators were leaving at the same time
    overlap,       \* history: accounts that left while a project was worked on
    kept           \* history: projects whose purge failed

graph   == <<node, owns, proj, docs>>
history == <<edited, crossed, adminRace, overlap, kept>>
vars    == <<graph, req, started, faults, history>>

Users == [exists : BOOLEAN, pw : BOOLEAN, gh : Emails \cup {None}, ghName : BOOLEAN,
          google : Emails \cup {None}, admin : BOOLEAN]

NoUser == [exists |-> FALSE, pw |-> FALSE, gh |-> None, ghName |-> FALSE,
           google |-> None, admin |-> FALSE]

NoReq == [pc |-> "idle", op |-> "none", who |-> None, id |-> None,
          hasPw |-> FALSE, names |-> {}]

Login      == {"ghlogin", "glogin"}
Link       == {"ghlink", "glink"}
Disconnect == {"ghoff", "goff"}
Work       == {"claim", "edit"}

Pcs == {"idle", "find", "create", "promote", "link", "password", "google", "linked",
        "other", "unlink", "owner", "count", "merge", "write", "list", "admins",
        "delete", "purge"}

Reqs == [pc : Pcs, op : {"none", "leave"} \cup Login \cup Link \cup Disconnect \cup Work,
         who : Emails \cup {None}, id : Emails \cup {None}, hasPw : BOOLEAN,
         names : SUBSET Names]

TypeOK ==
    /\ node \in [Emails -> Users]
    /\ owns \subseteq Emails \X Names /\ proj \subseteq Emails \X Names
    /\ docs \subseteq Emails \X Names /\ kept \subseteq Emails \X Names
    /\ req \in [Requests -> Reqs]
    /\ started \in 0 .. MaxRequests /\ faults \in 0 .. MaxFaults
    /\ edited \subseteq Emails /\ crossed \subseteq Emails /\ overlap \subseteq Emails
    /\ adminRace \in BOOLEAN

CanLogin(e) == node[e].pw \/ node[e].gh # None \/ node[e].google # None
Admins      == {e \in Emails : node[e].exists /\ node[e].admin}

(* Accounts as the providers and the former sign-up by password left them, *)
(* at least one administrator among them, with some projects.              *)
Founded(e) ==
    {NoUser} \cup {u \in Users : /\ u.exists
                                /\ u.gh \in {None, e} /\ u.google \in {None, e}
                                /\ (u.pw <=> (u.gh = None /\ u.google = None))
                                /\ (u.ghName <=> u.gh # None)}

Init ==
    /\ node \in {n \in [Emails -> UNION {Founded(e) : e \in Emails}] :
                    \A e \in Emails : n[e] \in Founded(e)}
    /\ Admins # {}
    /\ \E first \in {{}, Founding} : owns = {e \in Emails : node[e].exists} \X first
    /\ proj = owns /\ docs = owns
    /\ req = [r \in Requests |-> NoReq]
    /\ started = 0 /\ faults = 0
    /\ edited = {} /\ crossed = {} /\ overlap = {} /\ kept = {} /\ adminRace = FALSE

-----------------------------------------------------------------------------
Goto(r, l) == req' = [req EXCEPT ![r].pc = l]
Finish(r)  == req' = [req EXCEPT ![r] = NoReq]

Fails    == faults < MaxFaults /\ faults' = faults + 1
Succeeds == UNCHANGED faults

InFlight(e, ops) == {r \in Requests : req[r].op \in ops /\ req[r].who = e}

(* What a new request meets: noted once, when it comes.                    *)
Note(e, op) ==
    /\ crossed' = IF \/ op \in Disconnect /\ InFlight(e, Disconnect \cup {"leave"}) # {}
                     \/ op = "leave" /\ InFlight(e, Disconnect) # {}
                  THEN crossed \cup {e} ELSE crossed
    /\ adminRace' = (adminRace \/ (op = "leave" /\ \E f \in Emails : InFlight(f, {"leave"}) # {}))
    /\ overlap' = IF \/ op \in Work /\ InFlight(e, {"leave"}) # {}
                     \/ op = "leave" /\ InFlight(e, Work) # {}
                  THEN overlap \cup {e} ELSE overlap
    /\ UNCHANGED <<edited, kept>>

NewRequest(r, op, e, i, names, l) ==
    /\ req[r].pc = "idle" /\ started < MaxRequests
    /\ started' = started + 1
    /\ req' = [req EXCEPT ![r] = [NoReq EXCEPT !.pc = l, !.op = op, !.who = e,
                                               !.id = i, !.names = names]]
    /\ Note(e, op)
    /\ UNCHANGED <<graph, faults>>

(* The callbacks of a login: the state token is good, the code was         *)
(* exchanged, and the provider's account is i.                             *)
GithubCallback(r, i) == NewRequest(r, "ghlogin", i, i, {}, "find")
GoogleCallback(r, i) == NewRequest(r, "glogin", i, i, {}, "find")

(* The callbacks of a link: the state token carries the email of the       *)
(* account that asked for it, never one the browser sent.                  *)
GithubLink(r, e, i) == node[e].exists /\ NewRequest(r, "ghlink", e, i, {}, "find")
GoogleLink(r, e, i) == node[e].exists /\ NewRequest(r, "glink", e, i, {}, "find")

(* DELETE /auth/github/disconnect looks at the github_username that        *)
(* get_current_user read, DELETE /auth/google/disconnect at the node.      *)
GithubDisconnect(r, e) ==
    /\ node[e].exists /\ node[e].ghName
    /\ NewRequest(r, "ghoff", e, None, {}, "password")
GoogleDisconnect(r, e) ==
    /\ node[e].exists
    /\ NewRequest(r, "goff", e, None, {}, "linked")

(* claim_project before a mutation, assert_access before any other access. *)
ClaimProject(r, e, n) == node[e].exists /\ NewRequest(r, "claim", e, None, {n}, "owner")
AssertAccess(r, e, n) == node[e].exists /\ NewRequest(r, "edit", e, None, {n}, "owner")

(* DELETE /auth/me.                                                        *)
DeleteMe(r, e) == node[e].exists /\ NewRequest(r, "leave", e, None, {}, "list")

(* The statement takes whatever github_username was typed in; an empty one *)
(* clears it.                                                              *)
WithName(u, named) == [u EXCEPT !.ghName = named]

UpdateUser(e, named) ==
    node' = IF node[e].exists THEN [node EXCEPT ![e] = WithName(@, named)] ELSE node

(* PATCH /auth/me, which is this one statement.                            *)
UpdateMe(e, named) ==
    /\ node[e].exists /\ started < MaxRequests
    /\ started' = started + 1
    /\ UpdateUser(e, named)
    /\ edited' = IF named THEN edited \cup {e} ELSE edited
    /\ UNCHANGED <<owns, proj, docs, req, faults, crossed, adminRace, overlap, kept>>

-----------------------------------------------------------------------------
(* Provider accounts.                                                      *)

GitHub(r) == req[r].op \in {"ghlogin", "ghlink", "ghoff"}

(* MATCH (u:User) by github_id and by google_id.                           *)
ByGithub(i) == {e \in Emails : node[e].exists /\ node[e].gh = i}
ByGoogle(i) == {e \in Emails : node[e].exists /\ node[e].google = i}

(* What the statements set and remove.                                     *)
WithGithub(u, i)  == [u EXCEPT !.gh = i, !.ghName = TRUE]
WithGoogle(u, i)  == [u EXCEPT !.google = i]
WithoutGithub(u)  == [u EXCEPT !.gh = None, !.ghName = FALSE]
WithoutGoogle(u)  == [u EXCEPT !.google = None]
FromGithub(i)     == WithGithub([NoUser EXCEPT !.exists = TRUE], i)
FromGoogle(i)     == WithGoogle([NoUser EXCEPT !.exists = TRUE], i)

(* A login that finds its account ends with tokens; a link to an account   *)
(* that is another user's is answered already_linked_to.                   *)
Found(r, holders) ==
    /\ req[r].pc = "find"
    /\ \/ req[r].op \in Login /\ IF holders # {} THEN Finish(r) ELSE Goto(r, "create")
       \/ /\ req[r].op \in Link
          /\ IF holders \subseteq {req[r].who} THEN Goto(r, "link") ELSE Finish(r)
    /\ UNCHANGED <<graph, started, faults, history>>

FindByGithubId(r)    == GitHub(r) /\ Found(r, ByGithub(req[r].id))
GetUserByGoogleId(r) == ~ GitHub(r) /\ Found(r, ByGoogle(req[r].id))

(* MERGE by email: an existing account answers email_exists_use_link, and  *)
(* the UNIQUE constraint refuses a provider account that is linked by now. *)
Created(r, holders, user) ==
    /\ req[r].pc = "create"
    /\ LET i == req[r].id IN
       IF node[i].exists \/ holders # {}
       THEN Finish(r) /\ UNCHANGED node
       ELSE /\ node' = [node EXCEPT ![i] = user]
            /\ IF i \in AdminEmails THEN Goto(r, "promote") ELSE Finish(r)
    /\ UNCHANGED <<owns, proj, docs, started, faults, history>>

CreateUserFromGithub(r) ==
    GitHub(r) /\ Created(r, ByGithub(req[r].id), FromGithub(req[r].id))
CreateUserFromGoogle(r) ==
    ~ GitHub(r) /\ Created(r, ByGoogle(req[r].id), FromGoogle(req[r].id))

(* SET u.is_admin = true on the User, if there is one.                     *)
Promoted(e) == IF node[e].exists THEN [node EXCEPT ![e].admin = TRUE] ELSE node

(* promote_admins_by_emails, which swallows its errors.                    *)
Promote(r) ==
    /\ req[r].pc = "promote"
    /\ \/ /\ Succeeds
          /\ node' = Promoted(req[r].id)
       \/ Fails /\ UNCHANGED node
    /\ Finish(r)
    /\ UNCHANGED <<owns, proj, docs, started, history>>

(* The User of the state token's email gets the provider's account, unless *)
(* it is gone or the account is another user's by now.                     *)
Linked(r, holders, user) ==
    /\ req[r].pc = "link"
    /\ LET e == req[r].who IN
       node' = IF node[e].exists /\ holders \subseteq {e}
               THEN [node EXCEPT ![e] = user] ELSE node
    /\ Finish(r)
    /\ UNCHANGED <<owns, proj, docs, started, faults, history>>

LinkGithub(r) ==
    GitHub(r) /\ Linked(r, ByGithub(req[r].id), WithGithub(node[req[r].who], req[r].id))
LinkGoogle(r) ==
    ~ GitHub(r) /\ Linked(r, ByGoogle(req[r].id), WithGoogle(node[req[r].who], req[r].id))

(* The node as one statement reads it; an account that is gone has nothing.*)
GetUserByEmail(e) == node[e]

(* The GitHub route reads the password, then, in a statement of its own,   *)
(* google_email, and refuses when there is neither.                        *)
HasPassword(r) ==
    /\ req[r].pc = "password"
    /\ req' = [req EXCEPT ![r].pc = "google", ![r].hasPw = GetUserByEmail(req[r].who).pw]
    /\ UNCHANGED <<graph, started, faults, history>>

HasGoogle(r) ==
    /\ req[r].pc = "google"
    /\ IF req[r].hasPw \/ node[req[r].who].google # None
       THEN Goto(r, "unlink") ELSE Finish(r)
    /\ UNCHANGED <<graph, started, faults, history>>

(* The Google route first makes sure that there is a Google login.         *)
GoogleLinked(r) ==
    /\ req[r].pc = "linked"
    /\ IF node[req[r].who].google # None THEN Goto(r, "other") ELSE Finish(r)
    /\ UNCHANGED <<graph, started, faults, history>>

(* A mutant: the last way to log in may be disconnected.                   *)
AnyOther(r) ==
    /\ req[r].pc = "other"
    /\ Goto(r, "unlink")
    /\ UNCHANGED <<graph, started, faults, history>>

(* Then it reads the password and github_username, the sign of a GitHub    *)
(* login, and refuses when there is neither.                               *)
HasOther(r) ==
    /\ req[r].pc = "other"
    /\ LET u == GetUserByEmail(req[r].who) IN
       IF u.pw \/ u.ghName
       THEN Goto(r, "unlink") ELSE Finish(r)
    /\ UNCHANGED <<graph, started, faults, history>>

(* The fields are removed whatever has become of the account meanwhile.    *)
Unlinked(r, user) ==
    /\ req[r].pc = "unlink"
    /\ node' = [node EXCEPT ![req[r].who] = user]
    /\ Finish(r)
    /\ UNCHANGED <<owns, proj, docs, started, faults, history>>

UnlinkGithub(r) == GitHub(r) /\ Unlinked(r, WithoutGithub(node[req[r].who]))
UnlinkGoogle(r) == ~ GitHub(r) /\ Unlinked(r, WithoutGoogle(node[req[r].who]))

-----------------------------------------------------------------------------
(* Projects.                                                               *)

Owned(e)  == {n \in Names : <<e, n>> \in owns}
Target(r) == {req[r].who} \X req[r].names

(* MATCH (u)-[:OWNS]->(p) by name and owner_email.                         *)
Owns(r) == Target(r) \subseteq owns

(* A claim of a project that is not one's own yet is counted first.        *)
IsOwner(r) ==
    /\ req[r].pc = "owner" /\ req[r].op = "claim"
    /\ Goto(r, IF Owns(r) THEN "merge" ELSE "count")
    /\ UNCHANGED <<graph, started, faults, history>>

(* Any other access to a project that is not one's own is a 403.           *)
AssertOwns(r) ==
    /\ req[r].pc = "owner" /\ req[r].op = "edit"
    /\ IF Owns(r) THEN Goto(r, "write") ELSE Finish(r)
    /\ UNCHANGED <<graph, started, faults, history>>

(* A mutant: the project after the last one is let through.                *)
WithinLimitPlusOne(e) == Cardinality(Owned(e)) <= Limit

(* quota.assert_projects_within_limit on count_user_projects.              *)
WithinLimit(e) == Cardinality(Owned(e)) < Limit

CountProjects(r) ==
    /\ req[r].pc = "count"
    /\ IF WithinLimit(req[r].who) THEN Goto(r, "merge") ELSE Finish(r)
    /\ UNCHANGED <<graph, started, faults, history>>

(* MATCH the User, MERGE the Project and the OWNS relation; without a User *)
(* nothing is merged.                                                      *)
Merged(r, xs) == IF node[req[r].who].exists THEN xs \cup Target(r) ELSE xs

(* The caller goes on either way; it does not look at the project_id.      *)
MergeProject(r) ==
    /\ req[r].pc = "merge"
    /\ proj' = Merged(r, proj) /\ owns' = Merged(r, owns)
    /\ Goto(r, "write")
    /\ UNCHANGED <<node, docs, started, faults, history>>

(* The mutation itself stores documents; nothing looks at the owner again. *)
WriteDocs(r) ==
    /\ req[r].pc = "write"
    /\ docs' = docs \cup Target(r)
    /\ Finish(r)
    /\ UNCHANGED <<node, owns, proj, started, faults, history>>

-----------------------------------------------------------------------------
(* Leaving.                                                                *)

(* list_owned_project_names, before the relations are gone.                *)
ListOwned(r) ==
    /\ req[r].pc = "list"
    /\ req' = [req EXCEPT ![r].pc = "admins", ![r].names = Owned(req[r].who)]
    /\ UNCHANGED <<graph, started, faults, history>>

(* A mutant: the account itself is left out of the count.                  *)
OrphansNobody(e) == node[e].admin /\ Cardinality(Admins) < 1

(* would_orphan: the count includes the account itself.                    *)
WouldOrphan(e) == node[e].admin /\ Cardinality(Admins) <= 1

(* The first half of the deletion.  The last administrator is refused; so  *)
(* is an account that is gone already.                                     *)
CountAdmins(r) ==
    /\ req[r].pc = "admins"
    /\ LET e == req[r].who IN
       IF node[e].exists /\ ~ WouldOrphan(e) THEN Goto(r, "delete") ELSE Finish(r)
    /\ UNCHANGED <<graph, started, faults, history>>

(* The second half: DETACH DELETE takes the relations along.               *)
DeleteUser(r) ==
    /\ req[r].pc = "delete"
    /\ LET e == req[r].who IN
       IF node[e].exists
       THEN /\ node' = [node EXCEPT ![e] = NoUser]
            /\ owns' = {x \in owns : x[1] # e}
            /\ Goto(r, "purge")
       ELSE Finish(r) /\ UNCHANGED <<node, owns>>
    /\ UNCHANGED <<proj, docs, started, faults, history>>

(* A mutant: the first failing project ends the purge.                     *)
PurgeUntilError(r) ==
    /\ req[r].pc = "purge"
    /\ \/ \E n \in req[r].names :
             \/ /\ Succeeds
                /\ proj' = proj \ {<<req[r].who, n>>} /\ docs' = docs \ {<<req[r].who, n>>}
                /\ req' = [req EXCEPT ![r].names = @ \ {n}] /\ UNCHANGED kept
             \/ /\ Fails /\ kept' = kept \cup {<<req[r].who, n>>}
                /\ Finish(r) /\ UNCHANGED <<proj, docs>>
       \/ req[r].names = {} /\ Finish(r) /\ Succeeds /\ UNCHANGED <<proj, docs, kept>>
    /\ UNCHANGED <<node, owns, started, edited, crossed, adminRace, overlap>>

(* _purge_owned_projects: best effort, one project after the other.        *)
Purge(r) ==
    /\ req[r].pc = "purge"
    /\ \/ \E n \in req[r].names :
             /\ req' = [req EXCEPT ![r].names = @ \ {n}]
             /\ \/ /\ Succeeds
                   /\ proj' = proj \ {<<req[r].who, n>>} /\ docs' = docs \ {<<req[r].who, n>>}
                   /\ UNCHANGED kept
                \/ /\ Fails /\ kept' = kept \cup {<<req[r].who, n>>}
                   /\ UNCHANGED <<proj, docs>>
       \/ req[r].names = {} /\ Finish(r) /\ Succeeds /\ UNCHANGED <<proj, docs, kept>>
    /\ UNCHANGED <<node, owns, started, edited, crossed, adminRace, overlap>>

-----------------------------------------------------------------------------
Start(r) ==
    \E e \in Emails :
        \/ GithubCallback(r, e) \/ GoogleCallback(r, e)
        \/ \E i \in Emails : GithubLink(r, e, i) \/ GoogleLink(r, e, i)
        \/ GithubDisconnect(r, e) \/ GoogleDisconnect(r, e)
        \/ \E n \in Names : ClaimProject(r, e, n) \/ AssertAccess(r, e, n)
        \/ DeleteMe(r, e)

Proceed(r) ==
    \/ FindByGithubId(r) \/ CreateUserFromGithub(r) \/ LinkGithub(r) \/ UnlinkGithub(r)
    \/ GetUserByGoogleId(r) \/ CreateUserFromGoogle(r) \/ LinkGoogle(r) \/ UnlinkGoogle(r)
    \/ Promote(r) \/ HasPassword(r) \/ HasGoogle(r) \/ GoogleLinked(r) \/ HasOther(r)
    \/ IsOwner(r) \/ AssertOwns(r) \/ CountProjects(r) \/ MergeProject(r) \/ WriteDocs(r)
    \/ ListOwned(r) \/ CountAdmins(r) \/ DeleteUser(r) \/ Purge(r)

Next ==
    \/ \E r \in Requests : Start(r) \/ Proceed(r)
    \/ \E e \in Emails, named \in BOOLEAN : UpdateMe(e, named)

Spec == Init /\ [][Next]_vars

-----------------------------------------------------------------------------
(* The disconnect routes leave every account a way to log in ("prevention  *)
(* of a permanent lock-out").  The code keeps the promise as long as a     *)
(* disconnection meets neither another one nor a deletion of the same      *)
(* account, and nobody typed a github_username into the profile, which the *)
(* Google route takes for a GitHub login.                                  *)
LoginKept ==
    \A e \in Emails : node[e].exists /\ ~ CanLogin(e) => e \in edited \cup crossed

(* Some administrator remains, unless two accounts were being deleted at   *)
(* the same time: each count was made before either deletion.              *)
AdminKept == adminRace \/ Admins # {}

(* Once an account is gone and its requests are over, nothing of its       *)
(* projects is stored any more ("destroyed at once on leaving"), unless    *)
(* the purge of a project failed or a request worked on a project while    *)
(* the account was leaving.                                                *)
NothingLeftBehind ==
    \A e \in Emails :
        /\ ~ node[e].exists /\ e \notin overlap
        /\ InFlight(e, {"leave"} \cup Work) = {}
        => ({e} \X Names) \cap (proj \cup docs) \subseteq kept

(* The plan's number of projects is exceeded only by claims that were      *)
(* counted at the same time: one for each further request in flight.       *)
ProjectsBounded ==
    \A e \in Emails :
        Cardinality(Owned(e)) <= Limit + Cardinality(Requests) - 1

=============================================================================
