--------------------------- MODULE AccountsProofs ---------------------------
(***************************************************************************)
(* Proofs about Accounts for any accounts, project names and requests.     *)
(* The argument: what a request learned from one statement still holds     *)
(* when it acts on it in a later one, unless the race happened that the    *)
(* history variables note when a request comes.                            *)
(***************************************************************************)
EXTENDS Accounts, FiniteSetTheorems, TLAPS

(* Where a request of each kind can be.                                    *)
Fits(q) ==
    /\ q.pc = "idle" <=> q.op = "none"
    /\ q.op # "none" => q.who \in Emails
    /\ q.op \in Login \cup Link =>
          q.id \in Emails /\ q.pc \in {"find", "create", "promote", "link"}
    /\ q.op = "ghoff" => q.pc \in {"password", "google", "unlink"}
    /\ q.op = "goff" => q.pc \in {"linked", "other", "unlink"}
    /\ q.op \in Work =>
          q.pc \in {"owner", "count", "merge", "write"} /\ \E n \in Names : q.names = {n}
    /\ q.op = "leave" => q.pc \in {"list", "admins", "delete", "purge"}

Shape == \A r \in Requests : Fits(req[r])

-----------------------------------------------------------------------------
(* Steps of a request.                                                     *)

LEMMA IdleFits == NoReq \in Reqs /\ Fits(NoReq)
<1>1. NoReq \in Reqs
  BY DEF NoReq, Reqs, Pcs
<1>2. Fits(NoReq)
  BY DEF NoReq, Fits, Login, Link, Work
<1> QED
  BY <1>1, <1>2

LEMMA FinishEffect ==
    ASSUME TypeOK, NEW r \in Requests, Finish(r)
    PROVE  /\ req' \in [Requests -> Reqs]
           /\ req'[r] = NoReq
           /\ \A q \in Requests \ {r} : req'[q] = req[q]
BY IdleFits DEF TypeOK, Finish

LEMMA GotoEffect ==
    ASSUME TypeOK, NEW r \in Requests, NEW l \in Pcs, Goto(r, l)
    PROVE  /\ req' \in [Requests -> Reqs]
           /\ req'[r] = [req[r] EXCEPT !.pc = l]
           /\ \A q \in Requests \ {r} : req'[q] = req[q]
<1>1. req'[r] = [req[r] EXCEPT !.pc = l]
  BY DEF TypeOK, Goto
<1>2. \A q \in Requests \ {r} : req'[q] = req[q]
  BY DEF TypeOK, Goto
<1>3. [req[r] EXCEPT !.pc = l] \in Reqs
  BY DEF TypeOK, Reqs
<1> QED
  BY <1>1, <1>2, <1>3 DEF TypeOK, Goto

(* A request as it comes.                                                  *)
Fresh(op, e, i, ns, l) == [NoReq EXCEPT !.pc = l, !.op = op, !.who = e, !.id = i, !.names = ns]

Ops == {"leave"} \cup Login \cup Link \cup Disconnect \cup Work

LEMMA NewRequestEffect ==
    ASSUME TypeOK, NEW r \in Requests, NEW op \in Ops, NEW e \in Emails,
           NEW i \in Emails \cup {None}, NEW ns \in SUBSET Names, NEW l \in Pcs,
           NewRequest(r, op, e, i, ns, l)
    PROVE  /\ req' \in [Requests -> Reqs]
           /\ req[r].pc = "idle"
           /\ req'[r] = Fresh(op, e, i, ns, l)
           /\ \A q \in Requests \ {r} : req'[q] = req[q]
           /\ TypeOK'
<1>1. Fresh(op, e, i, ns, l) \in Reqs
  BY DEF Fresh, NoReq, Reqs, Ops
<1>2. req' = [req EXCEPT ![r] = Fresh(op, e, i, ns, l)]
  BY DEF NewRequest, Fresh
<1>3. req' \in [Requests -> Reqs] /\ req'[r] = Fresh(op, e, i, ns, l)
  BY <1>1, <1>2 DEF TypeOK
<1>4. \A q \in Requests \ {r} : req'[q] = req[q]
  BY <1>2 DEF TypeOK
<1>5. crossed' \subseteq Emails /\ overlap' \subseteq Emails
  BY DEF NewRequest, Note, TypeOK
<1>6. adminRace' \in BOOLEAN
  BY DEF NewRequest, Note, TypeOK
<1>7. started' \in 0 .. MaxRequests
  BY ConstantsAssumption DEF NewRequest, TypeOK
<1>8. UNCHANGED <<node, owns, proj, docs, faults, edited, kept>>
  BY DEF NewRequest, Note, graph
<1>9. TypeOK'
  BY <1>3, <1>5, <1>6, <1>7, <1>8 DEF TypeOK
<1> QED
  BY <1>3, <1>4, <1>9 DEF NewRequest

(* Every way a request comes: its kind, its first step and what it names.  *)
Comes(r, e) ==
    \/ \E op \in Login : NewRequest(r, op, e, e, {}, "find")
    \/ \E op \in Link, i \in Emails : NewRequest(r, op, e, i, {}, "find")
    \/ node[e].exists /\ NewRequest(r, "ghoff", e, None, {}, "password")
    \/ node[e].exists /\ NewRequest(r, "goff", e, None, {}, "linked")
    \/ \E op \in Work, n \in Names : node[e].exists /\ NewRequest(r, op, e, None, {n}, "owner")
    \/ NewRequest(r, "leave", e, None, {}, "list")

LEMMA StartComes == ASSUME NEW r \in Requests, Start(r) PROVE \E e \in Emails : Comes(r, e)
<1>1. PICK e \in Emails :
        \/ GithubCallback(r, e) \/ GoogleCallback(r, e)
        \/ \E i \in Emails : GithubLink(r, e, i) \/ GoogleLink(r, e, i)
        \/ GithubDisconnect(r, e) \/ GoogleDisconnect(r, e)
        \/ \E n \in Names : ClaimProject(r, e, n) \/ AssertAccess(r, e, n)
        \/ DeleteMe(r, e)
  BY DEF Start
<1>2. CASE GithubCallback(r, e) \/ GoogleCallback(r, e)
  BY <1>2 DEF GithubCallback, GoogleCallback, Comes, Login
<1>3. CASE \E i \in Emails : GithubLink(r, e, i) \/ GoogleLink(r, e, i)
  BY <1>3 DEF GithubLink, GoogleLink, Comes, Link
<1>4. CASE GithubDisconnect(r, e) \/ GoogleDisconnect(r, e)
  BY <1>4 DEF GithubDisconnect, GoogleDisconnect, Comes
<1>5. CASE \E n \in Names : ClaimProject(r, e, n) \/ AssertAccess(r, e, n)
  BY <1>5 DEF ClaimProject, AssertAccess, Comes, Work
<1>6. CASE DeleteMe(r, e)
  BY <1>6 DEF DeleteMe, Comes
<1> QED
  BY <1>1, <1>2, <1>3, <1>4, <1>5, <1>6

(* The statements requests begin with.                                     *)
First == {"find", "password", "linked", "owner", "list"}

(* A request that comes fits; one that disconnects or works on a project   *)
(* comes from an account that is there.                                    *)
LEMMA StartFresh ==
    ASSUME NEW r \in Requests, Start(r)
    PROVE  \E e \in Emails, op \in Ops, i \in Emails \cup {None}, ns \in SUBSET Names, l \in First :
              /\ NewRequest(r, op, e, i, ns, l)
              /\ Fits(Fresh(op, e, i, ns, l))
              /\ op \in Disconnect \cup Work => node[e].exists
<1>1. PICK e \in Emails : Comes(r, e)
  BY StartComes
<1>2. ASSUME NEW op \in Login \cup Link, NEW i \in Emails
      PROVE  Fits(Fresh(op, e, i, {}, "find"))
  BY DEF Fresh, NoReq, Fits, Login, Link, Work
<1>3. Fits(Fresh("ghoff", e, None, {}, "password")) /\ Fits(Fresh("goff", e, None, {}, "linked"))
  BY DEF Fresh, NoReq, Fits, Login, Link, Work
<1>4. ASSUME NEW op \in Work, NEW n \in Names
      PROVE  Fits(Fresh(op, e, None, {n}, "owner"))
  BY DEF Fresh, NoReq, Fits, Login, Link, Work
<1>5. Fits(Fresh("leave", e, None, {}, "list"))
  BY DEF Fresh, NoReq, Fits, Login, Link, Work
<1>6. /\ Login \cup Link \cup Work \cup {"ghoff", "goff", "leave"} \subseteq Ops
      /\ (Login \cup Link \cup {"leave"}) \cap (Disconnect \cup Work) = {}
  BY DEF Ops, Disconnect, Login, Link, Work
<1>7. "find" \in First /\ "password" \in First /\ "linked" \in First /\ "owner" \in First
      /\ "list" \in First
  BY DEF First
<1>8. CASE \E op \in Login : NewRequest(r, op, e, e, {}, "find")
  BY <1>2, <1>6, <1>7, <1>8
<1>9. CASE \E op \in Link, i \in Emails : NewRequest(r, op, e, i, {}, "find")
  BY <1>2, <1>6, <1>7, <1>9
<1>10. CASE node[e].exists /\ NewRequest(r, "ghoff", e, None, {}, "password")
  BY <1>3, <1>6, <1>7, <1>10
<1>11. CASE node[e].exists /\ NewRequest(r, "goff", e, None, {}, "linked")
  BY <1>3, <1>6, <1>7, <1>11
<1>12. CASE \E op \in Work, n \in Names : node[e].exists /\ NewRequest(r, op, e, None, {n}, "owner")
  <2>1. PICK op \in Work, n \in Names : node[e].exists /\ NewRequest(r, op, e, None, {n}, "owner")
    BY <1>12
  <2> QED
    BY <2>1, <1>4, <1>6, <1>7
<1>13. CASE NewRequest(r, "leave", e, None, {}, "list")
  BY <1>5, <1>6, <1>7, <1>13
<1> QED
  BY <1>1, <1>8, <1>9, <1>10, <1>11, <1>12, <1>13 DEF Comes

LEMMA StartKeepsShape ==
    ASSUME TypeOK, Shape, NEW r \in Requests, Start(r)
    PROVE  TypeOK' /\ Shape'
<1>1. PICK e \in Emails, op \in Ops, i \in Emails \cup {None}, ns \in SUBSET Names, l \in First :
         NewRequest(r, op, e, i, ns, l) /\ Fits(Fresh(op, e, i, ns, l))
  BY StartFresh
<1>2. l \in Pcs
  BY DEF First, Pcs
<1>3. /\ req'[r] = Fresh(op, e, i, ns, l) /\ TypeOK'
      /\ \A q \in Requests \ {r} : req'[q] = req[q]
  BY <1>1, <1>2, NewRequestEffect
<1>4. Shape'
  BY <1>1, <1>3, Zenon DEF Shape
<1> QED
  BY <1>3, <1>4

(* The order of the statements.                                            *)
Jumps == {<<"find", "create">>, <<"find", "link">>, <<"create", "promote">>,
          <<"password", "google">>, <<"google", "unlink">>, <<"linked", "other">>,
          <<"other", "unlink">>, <<"owner", "merge">>, <<"owner", "count">>,
          <<"owner", "write">>, <<"count", "merge">>, <<"merge", "write">>,
          <<"list", "admins">>, <<"admins", "delete">>, <<"delete", "purge">>}

LEMMA JumpFits ==
    ASSUME NEW q \in Reqs, Fits(q), NEW l, <<q.pc, l>> \in Jumps
    PROVE  l \in Pcs /\ Fits([q EXCEPT !.pc = l])
<1>1. l \in Pcs
  BY DEF Jumps, Pcs
<1> DEFINE p == [q EXCEPT !.pc = l]
<1>2. p.pc = l /\ p.op = q.op /\ p.who = q.who /\ p.id = q.id /\ p.names = q.names
  BY DEF Reqs
<1>3. q.op \in Ops \cup {"none"}
  BY DEF Reqs, Ops
<1> HIDE DEF p
<1>4. Fits(p)
  BY <1>2, <1>3 DEF Fits, Jumps, Ops, Login, Link, Disconnect, Work
<1> QED
  BY <1>1, <1>4 DEF p

(* One request took a step that fits; the others did nothing.              *)
Moved(r) ==
    /\ req' \in [Requests -> Reqs]
    /\ Fits(req'[r])
    /\ req'[r].op \in {"none", req[r].op}
    /\ req'[r].op # "none" => req'[r].who = req[r].who
    /\ \A q \in Requests \ {r} : req'[q] = req[q]

LEMMA JumpMoves ==
    ASSUME TypeOK, Shape, NEW r \in Requests, NEW l, Goto(r, l), <<req[r].pc, l>> \in Jumps
    PROVE  Moved(r) /\ req'[r] = [req[r] EXCEPT !.pc = l]
<1>1. req[r] \in Reqs /\ Fits(req[r])
  BY DEF TypeOK, Shape
<1>2. l \in Pcs /\ Fits([req[r] EXCEPT !.pc = l])
  BY <1>1, JumpFits
<1>3. /\ req' \in [Requests -> Reqs] /\ req'[r] = [req[r] EXCEPT !.pc = l]
      /\ \A q \in Requests \ {r} : req'[q] = req[q]
  BY <1>2, GotoEffect
<1>4. req'[r].op = req[r].op /\ req'[r].who = req[r].who
  BY <1>1, <1>3 DEF Reqs
<1> QED
  BY <1>2, <1>3, <1>4 DEF Moved

LEMMA FinishMoves ==
    ASSUME TypeOK, NEW r \in Requests, Finish(r)
    PROVE  Moved(r) /\ req'[r] = NoReq
<1>1. NoReq.op = "none"
  BY DEF NoReq
<1> QED
  BY <1>1, FinishEffect, IdleFits DEF Moved

LEMMA MovedKeepsShape ==
    ASSUME Shape, NEW r \in Requests, Moved(r)
    PROVE  Shape'
BY Zenon DEF Shape, Moved

(* What is stored for an account has the type of a User.                   *)
LEMMA UserTypes ==
    /\ NoUser \in Users
    /\ \A i \in Emails : FromGithub(i) \in Users /\ FromGoogle(i) \in Users
    /\ \A u \in Users : /\ WithoutGithub(u) \in Users /\ WithoutGoogle(u) \in Users
                        /\ \A i \in Emails : WithGithub(u, i) \in Users /\ WithGoogle(u, i) \in Users
                        /\ \A b \in BOOLEAN : WithName(u, b) \in Users
                        /\ [u EXCEPT !.admin = TRUE] \in Users
<1>1. NoUser \in Users
  BY DEF NoUser, Users
<1>2. \A i \in Emails : FromGithub(i) \in Users
  BY DEF NoUser, Users, FromGithub, WithGithub
<1>3. \A i \in Emails : FromGoogle(i) \in Users
  BY DEF NoUser, Users, FromGoogle, WithGoogle
<1>4. ASSUME NEW u \in Users
      PROVE  WithoutGithub(u) \in Users /\ WithoutGoogle(u) \in Users
  BY DEF Users, WithoutGithub, WithoutGoogle
<1>5. ASSUME NEW u \in Users, NEW i \in Emails
      PROVE  WithGithub(u, i) \in Users /\ WithGoogle(u, i) \in Users
  BY DEF Users, WithGithub, WithGoogle
<1>6. ASSUME NEW u \in Users, NEW b \in BOOLEAN
      PROVE  WithName(u, b) \in Users
  BY DEF Users, WithName
<1>7. ASSUME NEW u \in Users
      PROVE  [u EXCEPT !.admin = TRUE] \in Users
  BY DEF Users
<1> QED
  BY <1>1, <1>2, <1>3, <1>4, <1>5, <1>6, <1>7

-----------------------------------------------------------------------------
(* What a request has just read when it decides to go on.                  *)
Reason(r, l) ==
    LET u == node[req[r].who] IN
    CASE req[r].pc = "google" -> req[r].hasPw \/ u.google # None
      [] req[r].pc = "other"  -> u.pw \/ u.ghName
      [] req[r].pc = "admins" -> u.exists /\ ~ WouldOrphan(req[r].who)
      [] req[r].pc = "owner"  -> l = "count" \/ Owns(r)
      [] req[r].pc = "count"  -> WithinLimit(req[r].who)
      [] OTHER                -> TRUE

(* A statement that only reads: the request ends or goes on for a reason.  *)
Turn(r) ==
    /\ req[r].pc \in {"find", "google", "linked", "other", "owner", "count", "admins"}
    /\ UNCHANGED <<graph, started, faults, history>>
    /\ \/ Finish(r)
       \/ \E l \in Pcs : <<req[r].pc, l>> \in Jumps /\ Goto(r, l) /\ Reason(r, l)

Reading(r) ==
    \/ FindByGithubId(r) \/ GetUserByGoogleId(r) \/ HasGoogle(r) \/ GoogleLinked(r)
    \/ HasOther(r) \/ IsOwner(r) \/ AssertOwns(r) \/ CountProjects(r) \/ CountAdmins(r)

LEMMA ReadingTurns == ASSUME NEW r \in Requests, Reading(r) PROVE Turn(r)
<1> USE DEF Turn, Jumps, Pcs
<1>1. CASE FindByGithubId(r) \/ GetUserByGoogleId(r)
  <2>1. PICK holders : Found(r, holders)
    BY <1>1 DEF FindByGithubId, GetUserByGoogleId
  <2>2. req[r].pc = "find" /\ UNCHANGED <<graph, started, faults, history>>
    BY <2>1 DEF Found
  <2>3. Finish(r) \/ Goto(r, "create") \/ Goto(r, "link")
    BY <2>1 DEF Found
  <2>4. \A l : Reason(r, l)
    BY <2>2 DEF Reason
  <2> QED
    BY <2>2, <2>3, <2>4
<1>2. CASE HasGoogle(r)
  BY <1>2 DEF HasGoogle, Reason
<1>3. CASE GoogleLinked(r)
  BY <1>3 DEF GoogleLinked, Reason
<1>4. CASE HasOther(r)
  BY <1>4 DEF HasOther, Reason, GetUserByEmail
<1>5. CASE IsOwner(r)
  BY <1>5 DEF IsOwner, Reason
<1>6. CASE AssertOwns(r)
  BY <1>6 DEF AssertOwns, Reason
<1>7. CASE CountProjects(r)
  BY <1>7 DEF CountProjects, Reason
<1>8. CASE CountAdmins(r)
  BY <1>8 DEF CountAdmins, Reason
<1> QED
  BY <1>1, <1>2, <1>3, <1>4, <1>5, <1>6, <1>7, <1>8 DEF Reading

(* The other statements, by what they do to the request.                   *)
Writing(r) ==
    \/ CreateUserFromGithub(r) \/ CreateUserFromGoogle(r) \/ Promote(r)
    \/ LinkGithub(r) \/ LinkGoogle(r) \/ UnlinkGithub(r) \/ UnlinkGoogle(r)
    \/ HasPassword(r) \/ MergeProject(r) \/ WriteDocs(r)
    \/ ListOwned(r) \/ DeleteUser(r) \/ Purge(r)

LEMMA ProceedSplits == ASSUME NEW r \in Requests, Proceed(r) PROVE Reading(r) \/ Writing(r)
BY DEF Proceed, Reading, Writing

LEMMA TurnMoves ==
    ASSUME TypeOK, Shape, NEW r \in Requests, Turn(r)
    PROVE  Moved(r) /\ TypeOK'
<1>1. Moved(r)
  BY JumpMoves, FinishMoves DEF Turn
<1>2. UNCHANGED <<node, owns, proj, docs, started, faults, edited, crossed, adminRace, overlap, kept>>
  BY DEF Turn, graph, history
<1> QED
  BY <1>1, <1>2 DEF TypeOK, Moved

(* MERGE by email, in one form for both providers.                         *)
Creates(r) ==
    /\ req[r].pc = "create"
    /\ UNCHANGED <<owns, proj, docs, started, faults, history>>
    /\ \/ Finish(r) /\ UNCHANGED node
       \/ /\ ~ node[req[r].id].exists
          /\ \/ node' = [node EXCEPT ![req[r].id] = FromGithub(req[r].id)]
             \/ node' = [node EXCEPT ![req[r].id] = FromGoogle(req[r].id)]
          /\ Finish(r) \/ Goto(r, "promote")

LEMMA CreateCreates ==
    ASSUME NEW r \in Requests, CreateUserFromGithub(r) \/ CreateUserFromGoogle(r)
    PROVE  Creates(r)
BY DEF CreateUserFromGithub, CreateUserFromGoogle, Created, Creates

Links(r) ==
    /\ req[r].pc = "link" /\ Finish(r)
    /\ UNCHANGED <<owns, proj, docs, started, faults, history>>
    /\ \/ UNCHANGED node
       \/ /\ node[req[r].who].exists
          /\ \/ node' = [node EXCEPT ![req[r].who] = WithGithub(@, req[r].id)]
             \/ node' = [node EXCEPT ![req[r].who] = WithGoogle(@, req[r].id)]

LEMMA LinkLinks ==
    ASSUME NEW r \in Requests, LinkGithub(r) \/ LinkGoogle(r)
    PROVE  Links(r)
BY DEF LinkGithub, LinkGoogle, Linked, Links

(* A statement that writes moves its own request and keeps the types.      *)
LEMMA WritingMoves ==
    ASSUME TypeOK, Shape, NEW r \in Requests, Writing(r)
    PROVE  Moved(r) /\ TypeOK'
<1> DEFINE e == req[r].who
           i == req[r].id
           Rest == UNCHANGED <<started, edited, crossed, adminRace, overlap>>
<1>1. req[r] \in Reqs /\ Fits(req[r])
  BY DEF TypeOK, Shape
<1>2. /\ req[r].pc \in {"create", "promote", "link"} => i \in Emails
      /\ req[r].pc # "idle" => e \in Emails
  BY <1>1 DEF Fits, Reqs, Login, Link, Disconnect, Work
<1>3. ASSUME Moved(r), Rest, node' \in [Emails -> Users],
             owns' \subseteq Emails \X Names, proj' \subseteq Emails \X Names,
             docs' \subseteq Emails \X Names, kept' \subseteq Emails \X Names,
             faults' \in 0 .. MaxFaults
      PROVE  Moved(r) /\ TypeOK'
  BY <1>3 DEF TypeOK, Moved
<1>4. CASE CreateUserFromGithub(r) \/ CreateUserFromGoogle(r)
  <2>1. Creates(r)
    BY <1>4, CreateCreates
  <2>2. Moved(r)
    <3>1. CASE Finish(r)
      BY <3>1, FinishMoves
    <3>2. CASE Goto(r, "promote")
      BY <2>1, <3>2, JumpMoves DEF Creates, Jumps
    <3> QED
      BY <2>1, <3>1, <3>2 DEF Creates
  <2>3. node' \in [Emails -> Users]
    BY <2>1, <1>2, UserTypes DEF Creates, TypeOK
  <2> QED
    BY <2>1, <2>2, <2>3, <1>3 DEF Creates, TypeOK, history
<1>5. CASE Promote(r)
  <2>1. Moved(r)
    BY <1>5, FinishMoves DEF Promote
  <2>2. node' \in [Emails -> Users]
    BY <1>5, <1>2, UserTypes DEF Promote, Promoted, TypeOK
  <2>3. faults' \in 0 .. MaxFaults
    BY <1>5, ConstantsAssumption DEF Promote, Fails, Succeeds, TypeOK
  <2> QED
    BY <1>5, <2>1, <2>2, <2>3, <1>3 DEF Promote, TypeOK, history
<1>6. CASE LinkGithub(r) \/ LinkGoogle(r)
  <2>1. Links(r)
    BY <1>6, LinkLinks
  <2>2. Moved(r)
    BY <2>1, FinishMoves DEF Links
  <2>3. node' \in [Emails -> Users]
    <3>1. e \in Emails /\ i \in Emails /\ node[e] \in Users
      BY <2>1, <1>2 DEF Links, TypeOK
    <3>2. WithGithub(node[e], i) \in Users /\ WithGoogle(node[e], i) \in Users
      BY <3>1, UserTypes
    <3>3. \/ node' = node
          \/ node' = [node EXCEPT ![e] = WithGithub(node[e], i)]
          \/ node' = [node EXCEPT ![e] = WithGoogle(node[e], i)]
      BY <2>1 DEF Links
    <3> QED
      BY <3>2, <3>3 DEF TypeOK
  <2> QED
    BY <2>1, <2>2, <2>3, <1>3 DEF Links, TypeOK, history
<1>7. CASE UnlinkGithub(r) \/ UnlinkGoogle(r)
  <2>1. Moved(r)
    BY <1>7, FinishMoves DEF UnlinkGithub, UnlinkGoogle, Unlinked
  <2>2. node' \in [Emails -> Users]
    <3>1. node[e] \in Users
      BY <1>7, <1>2 DEF UnlinkGithub, UnlinkGoogle, Unlinked, TypeOK
    <3>2. WithoutGithub(node[e]) \in Users /\ WithoutGoogle(node[e]) \in Users
      BY <3>1, UserTypes
    <3>3. \/ node' = [node EXCEPT ![e] = WithoutGithub(node[e])]
          \/ node' = [node EXCEPT ![e] = WithoutGoogle(node[e])]
      BY <1>7 DEF UnlinkGithub, UnlinkGoogle, Unlinked
    <3> QED
      BY <3>2, <3>3 DEF TypeOK
  <2> QED
    BY <1>7, <2>1, <2>2, <1>3 DEF UnlinkGithub, UnlinkGoogle, Unlinked, TypeOK, history
<1>8. CASE HasPassword(r)
  <2> DEFINE new == [req[r] EXCEPT !.pc = "google", !.hasPw = node[e].pw]
  <2>1. node[e].pw \in BOOLEAN
    BY <1>8, <1>2 DEF HasPassword, TypeOK, Users
  <2>2. req' = [req EXCEPT ![r] = new]
    BY <1>8 DEF HasPassword, GetUserByEmail
  <2>3. new \in Reqs
    BY <1>1, <2>1 DEF Reqs, Pcs
  <2>4. /\ new.pc = "google" /\ new.op = req[r].op /\ new.who = req[r].who
        /\ new.id = req[r].id /\ new.names = req[r].names
    BY <1>1 DEF Reqs
  <2>5. Fits(new)
    <3>1. req[r].pc = "password" /\ req[r].op \in Ops \cup {"none"}
      BY <1>8, <1>1 DEF HasPassword, Reqs, Ops
    <3> QED
      BY <1>1, <2>4, <3>1 DEF Fits, Ops, Login, Link, Disconnect, Work
  <2> HIDE DEF new
  <2>6. Moved(r)
    BY <2>2, <2>3, <2>4, <2>5 DEF Moved, TypeOK
  <2> QED
    BY <1>8, <2>6, <1>3 DEF HasPassword, TypeOK, graph, history
<1>9. CASE MergeProject(r)
  <2>1. Moved(r)
    BY <1>9, JumpMoves DEF MergeProject, Jumps
  <2>2. Target(r) \subseteq Emails \X Names
    BY <1>9, <1>1, <1>2 DEF MergeProject, Target, Reqs
  <2>3. owns' \subseteq Emails \X Names /\ proj' \subseteq Emails \X Names
    BY <1>9, <2>2 DEF MergeProject, Merged, TypeOK
  <2>4. Rest /\ UNCHANGED <<node, docs, faults, kept>>
    BY <1>9 DEF MergeProject, history
  <2>5. /\ node \in [Emails -> Users] /\ faults \in 0 .. MaxFaults
        /\ docs \subseteq Emails \X Names /\ kept \subseteq Emails \X Names
    BY DEF TypeOK
  <2> QED
    BY <2>1, <2>3, <2>4, <2>5, <1>3
<1>10. CASE WriteDocs(r)
  <2>1. Moved(r)
    BY <1>10, FinishMoves DEF WriteDocs
  <2>2. Target(r) \subseteq Emails \X Names
    BY <1>10, <1>1, <1>2 DEF WriteDocs, Target, Reqs
  <2>3. docs' \subseteq Emails \X Names
    BY <1>10, <2>2 DEF WriteDocs, TypeOK
  <2>4. Rest /\ UNCHANGED <<node, owns, proj, faults, kept>>
    BY <1>10 DEF WriteDocs, history
  <2>5. /\ node \in [Emails -> Users] /\ faults \in 0 .. MaxFaults
        /\ owns \subseteq Emails \X Names /\ proj \subseteq Emails \X Names
        /\ kept \subseteq Emails \X Names
    BY DEF TypeOK
  <2> QED
    BY <2>1, <2>3, <2>4, <2>5, <1>3
<1>11. CASE ListOwned(r)
  <2> DEFINE new == [req[r] EXCEPT !.pc = "admins", !.names = Owned(e)]
  <2>1. req' = [req EXCEPT ![r] = new]
    BY <1>11 DEF ListOwned
  <2>2. Owned(e) \in SUBSET Names
    BY DEF Owned
  <2>3. new \in Reqs
    BY <1>1, <2>2 DEF Reqs, Pcs
  <2>4. /\ new.pc = "admins" /\ new.op = req[r].op /\ new.who = req[r].who
        /\ new.id = req[r].id
    BY <1>1 DEF Reqs
  <2>5. Fits(new)
    <3>1. req[r].pc = "list" /\ req[r].op \in Ops \cup {"none"}
      BY <1>11, <1>1 DEF ListOwned, Reqs, Ops
    <3> QED
      BY <1>1, <2>4, <3>1 DEF Fits, Ops, Login, Link, Disconnect, Work
  <2> HIDE DEF new
  <2>6. Moved(r)
    BY <2>1, <2>3, <2>4, <2>5 DEF Moved, TypeOK
  <2> QED
    BY <1>11, <2>6, <1>3 DEF ListOwned, TypeOK, graph, history
<1>12. CASE DeleteUser(r)
  <2>1. Moved(r)
    BY <1>12, JumpMoves, FinishMoves DEF DeleteUser, Jumps
  <2>2. node' \in [Emails -> Users]
    BY <1>12, UserTypes DEF DeleteUser, TypeOK
  <2>3. owns' \subseteq Emails \X Names
    BY <1>12 DEF DeleteUser, TypeOK
  <2> QED
    BY <1>12, <2>1, <2>2, <2>3, <1>3 DEF DeleteUser, TypeOK, history
<1>13. CASE Purge(r)
  <2>1. Moved(r)
    <3>1. CASE Finish(r)
      BY <3>1, FinishMoves
    <3>2. CASE \E n \in req[r].names : req' = [req EXCEPT ![r].names = @ \ {n}]
      <4>1. PICK n \in req[r].names : req' = [req EXCEPT ![r].names = @ \ {n}]
        BY <3>2
      <4> DEFINE new == [req[r] EXCEPT !.names = @ \ {n}]
      <4>2. req' = [req EXCEPT ![r] = new]
        BY <4>1
      <4>3. new \in Reqs
        BY <1>1 DEF Reqs
      <4>4. /\ new.pc = "purge" /\ new.op = req[r].op /\ new.who = req[r].who
            /\ new.id = req[r].id
        BY <1>1, <1>13 DEF Reqs, Purge
      <4>5. Fits(new)
        <5>1. req[r].pc = "purge" /\ req[r].op \in Ops \cup {"none"}
          BY <1>13, <1>1 DEF Purge, Reqs, Ops
        <5> QED
          BY <1>1, <4>4, <5>1 DEF Fits, Ops, Login, Link, Disconnect, Work
      <4> HIDE DEF new
      <4> QED
        BY <4>2, <4>3, <4>4, <4>5 DEF Moved, TypeOK
    <3> QED
      BY <1>13, <3>1, <3>2 DEF Purge
  <2>2. faults' \in 0 .. MaxFaults
    BY <1>13, ConstantsAssumption DEF Purge, Fails, Succeeds, TypeOK
  <2>3. proj' \subseteq Emails \X Names /\ docs' \subseteq Emails \X Names
    BY <1>13 DEF Purge, TypeOK
  <2>4. kept' \subseteq Emails \X Names
    <3>1. \A n \in req[r].names : <<e, n>> \in Emails \X Names
      BY <1>13, <1>1, <1>2 DEF Purge, Reqs
    <3> QED
      BY <1>13, <3>1 DEF Purge, TypeOK
  <2> QED
    BY <1>13, <2>1, <2>2, <2>3, <2>4, <1>3 DEF Purge, TypeOK
<1> QED
  BY <1>4, <1>5, <1>6, <1>7, <1>8, <1>9, <1>10, <1>11, <1>12, <1>13 DEF Writing

(* PATCH /auth/me changes one name.                                        *)
LEMMA UpdateKeepsTypes ==
    ASSUME TypeOK, Shape, NEW e \in Emails, NEW named \in BOOLEAN, UpdateMe(e, named)
    PROVE  TypeOK' /\ Shape'
<1>1. node' \in [Emails -> Users]
  BY UserTypes DEF UpdateMe, UpdateUser, TypeOK
<1>2. started' \in 0 .. MaxRequests
  BY ConstantsAssumption DEF UpdateMe, TypeOK
<1>3. edited' \subseteq Emails
  BY DEF UpdateMe, TypeOK
<1>4. TypeOK'
  BY <1>1, <1>2, <1>3 DEF UpdateMe, TypeOK
<1>5. Shape'
  BY DEF UpdateMe, Shape
<1> QED
  BY <1>4, <1>5

(* Types, and the order of every request's statements.                     *)
LEMMA TypesAndShape == Spec => [](TypeOK /\ Shape)
<1>1. Init => TypeOK /\ Shape
  <2> SUFFICES ASSUME Init PROVE TypeOK /\ Shape
    OBVIOUS
  <2>1. node \in [Emails -> Users]
    <3>1. \A e \in Emails : Founded(e) \subseteq Users
      BY UserTypes DEF Founded
    <3> QED
      BY <3>1 DEF Init
  <2>2. req \in [Requests -> Reqs] /\ Shape
    BY IdleFits DEF Init, Shape
  <2>3. owns \subseteq Emails \X Names
    BY ConstantsAssumption DEF Init
  <2>4. adminRace \in BOOLEAN
    BY DEF Init
  <2>5. /\ started \in 0 .. MaxRequests /\ faults \in 0 .. MaxFaults
        /\ edited = {} /\ crossed = {} /\ overlap = {} /\ kept = {}
        /\ proj = owns /\ docs = owns
    BY ConstantsAssumption DEF Init
  <2> QED
    BY <2>1, <2>2, <2>3, <2>4, <2>5 DEF TypeOK
<1>2. TypeOK /\ Shape /\ [Next]_vars => (TypeOK /\ Shape)'
  <2> SUFFICES ASSUME TypeOK, Shape, [Next]_vars PROVE (TypeOK /\ Shape)'
    OBVIOUS
  <2>1. CASE \E r \in Requests : Start(r)
    BY <2>1, StartKeepsShape
  <2>2. CASE \E r \in Requests : Proceed(r)
    BY <2>2, ProceedSplits, ReadingTurns, TurnMoves, WritingMoves, MovedKeepsShape
  <2>3. CASE \E e \in Emails, named \in BOOLEAN : UpdateMe(e, named)
    BY <2>3, UpdateKeepsTypes
  <2>4. CASE UNCHANGED vars
    BY <2>4 DEF vars, graph, history, TypeOK, Shape
  <2> QED
    BY <2>1, <2>2, <2>3, <2>4 DEF Next
<1> QED
  BY <1>1, <1>2, PTL DEF Spec

(* The graph, the requests and the history variables keep their types.     *)
THEOREM TypeCorrect == Spec => []TypeOK
BY TypesAndShape, PTL

-----------------------------------------------------------------------------
(* Fields of a User that a statement leaves alone or sets.                 *)
LEMMA UserFields ==
    ASSUME NEW u \in Users, NEW i \in Emails, NEW b \in BOOLEAN
    PROVE  /\ \A w \in {WithGithub(u, i), WithGoogle(u, i), WithoutGithub(u), WithoutGoogle(u),
                        WithName(u, b), [u EXCEPT !.admin = TRUE]} :
                 (w.exists <=> u.exists) /\ (w.pw <=> u.pw) /\ (u.admin => w.admin)
           /\ \A w \in {WithGithub(u, i), WithGoogle(u, i), WithoutGithub(u), WithoutGoogle(u),
                        WithName(u, b)} : w.admin <=> u.admin
           /\ WithGithub(u, i).gh = i /\ WithGithub(u, i).google = u.google
           /\ WithGoogle(u, i).google = i /\ WithGoogle(u, i).gh = u.gh
           /\ WithoutGithub(u).gh = None /\ WithoutGithub(u).google = u.google
           /\ WithoutGoogle(u).google = None /\ WithoutGoogle(u).gh = u.gh
           /\ WithName(u, b).gh = u.gh /\ WithName(u, b).google = u.google
           /\ [u EXCEPT !.admin = TRUE].gh = u.gh /\ [u EXCEPT !.admin = TRUE].google = u.google
           /\ WithGoogle(u, i).ghName <=> u.ghName
           /\ WithoutGoogle(u).ghName <=> u.ghName
           /\ [u EXCEPT !.admin = TRUE].ghName <=> u.ghName
           /\ ~ WithoutGithub(u).ghName
           /\ WithName(u, b).ghName <=> b
<1> USE DEF Users, WithGithub, WithGoogle, WithoutGithub, WithoutGoogle, WithName
<1>1. \A w \in {WithGithub(u, i), WithGoogle(u, i), WithoutGithub(u), WithoutGoogle(u),
                 WithName(u, b), [u EXCEPT !.admin = TRUE]} :
         (w.exists <=> u.exists) /\ (w.pw <=> u.pw) /\ (u.admin => w.admin)
  OBVIOUS
<1>2. \A w \in {WithGithub(u, i), WithGoogle(u, i), WithoutGithub(u), WithoutGoogle(u),
                 WithName(u, b)} : w.admin <=> u.admin
  OBVIOUS
<1>3. /\ WithGithub(u, i).gh = i /\ WithGithub(u, i).google = u.google
      /\ WithGoogle(u, i).google = i /\ WithGoogle(u, i).gh = u.gh
      /\ WithoutGithub(u).gh = None /\ WithoutGithub(u).google = u.google
      /\ WithoutGoogle(u).google = None /\ WithoutGoogle(u).gh = u.gh
      /\ WithName(u, b).gh = u.gh /\ WithName(u, b).google = u.google
      /\ [u EXCEPT !.admin = TRUE].gh = u.gh /\ [u EXCEPT !.admin = TRUE].google = u.google
  OBVIOUS
<1>4. /\ WithGoogle(u, i).ghName <=> u.ghName
      /\ WithoutGoogle(u).ghName <=> u.ghName
      /\ [u EXCEPT !.admin = TRUE].ghName <=> u.ghName
      /\ ~ WithoutGithub(u).ghName
      /\ WithName(u, b).ghName <=> b
  OBVIOUS
<1> QED
  BY <1>1, <1>2, <1>3, <1>4

(* Only a leave can be at "delete", and at "purge".                        *)
LEMMA LeavePhases ==
    ASSUME TypeOK, Shape, NEW r \in Requests
    PROVE  /\ req[r].pc \in {"list", "admins", "delete", "purge"} <=> req[r].op = "leave"
           /\ req[r].pc \in {"owner", "count", "merge", "write"} <=> req[r].op \in Work
           /\ req[r].pc = "unlink" => req[r].op \in Disconnect
           /\ req[r].pc = "google" => req[r].op = "ghoff"
           /\ req[r].pc = "password" => req[r].op = "ghoff"
           /\ req[r].pc \in {"linked", "other"} => req[r].op = "goff"
           /\ req[r].pc \in {"find", "create", "promote", "link"} <=> req[r].op \in Login \cup Link
           /\ req[r].op # "none" => req[r].who \in Emails
<1>1. req[r] \in Reqs /\ Fits(req[r])
  BY DEF TypeOK, Shape
<1> QED
  BY <1>1 DEF Fits, Reqs, Login, Link, Disconnect, Work

-----------------------------------------------------------------------------
(* Until two accounts leave at once, the one that was counted leaves an    *)
(* administrator behind.                                                   *)
AdminInv ==
    ~ adminRace =>
        /\ Admins # {}
        /\ \A r, q \in Requests : req[r].op = "leave" /\ req[q].op = "leave" => r = q
        /\ \A r \in Requests : req[r].pc = "delete" => Admins \ {req[r].who} # {}

(* Everything but a count or a deletion keeps the administrators.          *)
LEMMA AdminsStay ==
    ASSUME TypeOK, Shape, AdminInv, NEW r \in Requests, Moved(r),
           adminRace' = adminRace, Admins \subseteq Admins', req'[r].pc # "delete"
    PROVE  AdminInv'
<1> SUFFICES ASSUME ~ adminRace
             PROVE  /\ Admins' # {}
                    /\ \A q, p \in Requests :
                          req'[q].op = "leave" /\ req'[p].op = "leave" => q = p
                    /\ \A q \in Requests : req'[q].pc = "delete" => Admins' \ {req'[q].who} # {}
  BY DEF AdminInv
<1>1. Admins' # {}
  BY DEF AdminInv
<1>2. \A q \in Requests : req'[q].op = "leave" => req[q].op = "leave"
  BY DEF Moved
<1>3. \A q \in Requests : req'[q].pc = "delete" => Admins' \ {req'[q].who} # {}
  BY DEF Moved, AdminInv
<1> QED
  BY <1>1, <1>2, <1>3 DEF AdminInv

LEMMA CountSeesAnother ==
    ASSUME TypeOK, NEW e \in Emails, ~ WouldOrphan(e), Admins # {}
    PROVE  Admins \ {e} # {}
<1>1. node[e].admin \in BOOLEAN /\ node[e].exists \in BOOLEAN
  BY DEF TypeOK, Users
<1>2. CASE e \notin Admins
  BY <1>2
<1>3. CASE e \in Admins
  <2>1. ~ (Cardinality(Admins) <= 1)
    BY <1>3 DEF WouldOrphan, Admins
  <2>2. SUFFICES ASSUME Admins \ {e} = {} PROVE FALSE
    OBVIOUS
  <2>3. Admins = {e}
    BY <1>3, <2>2
  <2>4. Cardinality({e}) = 1
    BY FS_Singleton
  <2> QED
    BY <2>1, <2>3, <2>4
<1> QED
  BY <1>2, <1>3

LEMMA AdminStep ==
    ASSUME TypeOK, Shape, AdminInv, [Next]_vars, TypeOK', Shape'
    PROVE  AdminInv'
<1>1. ASSUME NEW r \in Requests, Start(r) PROVE AdminInv'
  <2>1. PICK e \in Emails, op \in Ops, i \in Emails \cup {None}, ns \in SUBSET Names, l \in First :
           NewRequest(r, op, e, i, ns, l)
    BY <1>1, StartFresh
  <2>2. l \in Pcs /\ l # "delete"
    BY DEF First, Pcs
  <2>3. /\ req'[r] = Fresh(op, e, i, ns, l) /\ req[r].pc = "idle"
        /\ \A q \in Requests \ {r} : req'[q] = req[q]
    BY <2>1, <2>2, NewRequestEffect, ZenonT(60)
  <2>4. req'[r].op = op /\ req'[r].pc = l
    BY <2>3 DEF Fresh, NoReq
  <2>5. Admins' = Admins
    BY <2>1 DEF NewRequest, graph, Admins
  <2>6. ASSUME ~ adminRace'
        PROVE  /\ ~ adminRace
               /\ op = "leave" => \A q \in Requests : req[q].op # "leave"
    <3>1. adminRace' = (adminRace \/ (op = "leave" /\ \E x \in Emails : InFlight(x, {"leave"}) # {}))
      BY <2>1 DEF NewRequest, Note
    <3>2. ~ adminRace
      BY <3>1, <2>6
    <3>3. op = "leave" => \A x \in Emails : InFlight(x, {"leave"}) = {}
      BY <3>1, <2>6
    <3> QED
      BY <3>2, <3>3, LeavePhases DEF InFlight
  <2>7. SUFFICES ASSUME ~ adminRace'
        PROVE  /\ Admins' # {}
               /\ \A q, p \in Requests :
                     req'[q].op = "leave" /\ req'[p].op = "leave" => q = p
               /\ \A q \in Requests : req'[q].pc = "delete" => Admins' \ {req'[q].who} # {}
    BY DEF AdminInv
  <2>8. \A q, p \in Requests : req'[q].op = "leave" /\ req'[p].op = "leave" => q = p
    BY <2>3, <2>4, <2>6, <2>7 DEF AdminInv
  <2> QED
    BY <2>3, <2>4, <2>5, <2>6, <2>7, <2>8, <2>2 DEF AdminInv
<1>2. ASSUME NEW r \in Requests, Reading(r) PROVE AdminInv'
  <2>1. Turn(r) /\ Moved(r)
    BY <1>2, ReadingTurns, TurnMoves
  <2>2. adminRace' = adminRace /\ Admins' = Admins
    BY <2>1 DEF Turn, graph, history, Admins
  <2>3. CASE req'[r].pc # "delete"
    BY <2>1, <2>2, <2>3, AdminsStay
  <2>4. CASE req'[r].pc = "delete"
    <3>1. ~ Finish(r)
      BY <2>4, FinishEffect DEF NoReq
    <3>2. PICK l \in Pcs : <<req[r].pc, l>> \in Jumps /\ Goto(r, l) /\ Reason(r, l)
      BY <2>1, <3>1 DEF Turn
    <3>3. req'[r].pc = l /\ req'[r].who = req[r].who
      BY <3>2, GotoEffect DEF TypeOK, Reqs
    <3>4. req[r].pc = "admins" /\ l = "delete"
      BY <2>4, <3>2, <3>3 DEF Jumps
    <3>5. ~ WouldOrphan(req[r].who)
      BY <3>2, <3>4 DEF Reason
    <3>6. req[r].who \in Emails
      BY <3>4, LeavePhases
    <3>7. ~ adminRace => Admins \ {req[r].who} # {}
      BY <3>5, <3>6, CountSeesAnother DEF AdminInv
    <3>8. \A q \in Requests : req'[q].op = "leave" => req[q].op = "leave"
      BY <2>1 DEF Moved
    <3>9. ~ adminRace => \A q \in Requests : req'[q].pc = "delete" => Admins' \ {req'[q].who} # {}
      BY <2>1, <2>2, <3>3, <3>7 DEF Moved, AdminInv
    <3> QED
      BY <2>2, <3>8, <3>9 DEF AdminInv
  <2> QED
    BY <2>3, <2>4
<1>3. ASSUME NEW r \in Requests, Writing(r) PROVE AdminInv'
  <2> DEFINE e == req[r].who
             i == req[r].id
  <2>1. Moved(r) /\ req[r] \in Reqs /\ Fits(req[r])
    BY <1>3, WritingMoves DEF TypeOK, Shape
  <2>2. ASSUME adminRace' = adminRace, Admins \subseteq Admins', req[r].op # "leave" PROVE AdminInv'
    <3>1. req'[r].pc # "delete"
      BY <2>1, <2>2, LeavePhases DEF Moved, Fits, Login, Link, Disconnect, Work, Reqs
    <3> QED
      BY <2>1, <2>2, <3>1, AdminsStay
  <2>3. CASE CreateUserFromGithub(r) \/ CreateUserFromGoogle(r)
    <3>1. Creates(r)
      BY <2>3, CreateCreates
    <3>2. \A x \in Emails : node[x].exists => node'[x] = node[x]
      BY <3>1 DEF Creates, TypeOK
    <3>3. Admins \subseteq Admins'
      BY <3>2 DEF Admins
    <3>4. adminRace' = adminRace /\ req[r].op # "leave"
      BY <3>1, LeavePhases DEF Creates, history
    <3> QED
      BY <2>2, <3>3, <3>4
  <2>4. CASE Promote(r)
    <3>1. \A x \in Emails : node[x].exists /\ node[x].admin => node'[x].exists /\ node'[x].admin
      <4>1. i \in Emails
        BY <2>4, <2>1, LeavePhases DEF Promote, Fits, Login, Link
      <4>2. node' = node \/ node' = [node EXCEPT ![i] = [node[i] EXCEPT !.admin = TRUE]]
        BY <2>4 DEF Promote, Promoted
      <4>3. [node[i] EXCEPT !.admin = TRUE].exists = node[i].exists /\ [node[i] EXCEPT !.admin = TRUE].admin
        BY <4>1 DEF TypeOK, Users
      <4> QED
        BY <4>1, <4>2, <4>3 DEF TypeOK
    <3>2. adminRace' = adminRace /\ req[r].op # "leave"
      BY <2>4, LeavePhases DEF Promote, history
    <3> QED
      BY <2>2, <3>1, <3>2 DEF Admins
  <2>5. CASE LinkGithub(r) \/ LinkGoogle(r)
    <3>1. Links(r)
      BY <2>5, LinkLinks
    <3>2. i \in Emails /\ e \in Emails
      BY <3>1, <2>1, LeavePhases DEF Links, Fits, Login, Link
    <3>3. \A x \in Emails : node[x].exists /\ node[x].admin => node'[x].exists /\ node'[x].admin
      BY <3>1, <3>2, UserFields DEF Links, TypeOK
    <3>4. adminRace' = adminRace /\ req[r].op # "leave"
      BY <3>1, LeavePhases DEF Links, history
    <3> QED
      BY <2>2, <3>3, <3>4 DEF Admins
  <2>6. CASE UnlinkGithub(r) \/ UnlinkGoogle(r)
    <3>1. \A x \in Emails : node[x].exists /\ node[x].admin => node'[x].exists /\ node'[x].admin
      BY <2>6, UserFields DEF UnlinkGithub, UnlinkGoogle, Unlinked, TypeOK
    <3>2. adminRace' = adminRace /\ req[r].op # "leave"
      BY <2>6, LeavePhases DEF UnlinkGithub, UnlinkGoogle, Unlinked, history, Disconnect
    <3> QED
      BY <2>2, <3>1, <3>2 DEF Admins
  <2>7. CASE HasPassword(r) \/ MergeProject(r) \/ WriteDocs(r)
    <3>1. adminRace' = adminRace /\ Admins' = Admins
      BY <2>7 DEF HasPassword, MergeProject, WriteDocs, graph, history, Admins
    <3>2. req[r].op # "leave"
      BY <2>7, LeavePhases DEF HasPassword, MergeProject, WriteDocs, Work
    <3> QED
      BY <2>2, <3>1, <3>2
  <2>8. CASE ListOwned(r) \/ Purge(r)
    <3>1. adminRace' = adminRace /\ Admins' = Admins
      BY <2>8 DEF ListOwned, Purge, graph, history, Admins
    <3>2. req'[r].pc # "delete"
      <4>1. CASE Finish(r)
        BY <4>1, FinishEffect DEF NoReq
      <4>2. CASE ListOwned(r)
        BY <4>2, <2>1 DEF ListOwned, TypeOK, Reqs
      <4>3. CASE \E n \in req[r].names : req' = [req EXCEPT ![r].names = @ \ {n}]
        <5>1. PICK n \in req[r].names : req' = [req EXCEPT ![r].names = @ \ {n}]
          BY <4>3
        <5>2. req'[r].pc = req[r].pc
          BY <5>1, <2>1 DEF TypeOK, Reqs
        <5>3. CASE Purge(r)
          BY <5>2, <5>3 DEF Purge
        <5> QED
          BY <2>8, <4>2, <5>3
      <4> QED
        BY <2>8, <4>1, <4>2, <4>3 DEF Purge
    <3> QED
      BY <2>1, <3>1, <3>2, AdminsStay
  <2>9. CASE DeleteUser(r)
    <3>1. adminRace' = adminRace /\ req[r].pc = "delete" /\ req[r].op = "leave"
      BY <2>9, LeavePhases DEF DeleteUser, history
    <3>2. req'[r].pc # "delete"
      BY <2>9, FinishEffect, JumpMoves DEF DeleteUser, NoReq, TypeOK, Reqs, Jumps
    <3>3. Admins \ {e} \subseteq Admins'
      BY <2>9 DEF DeleteUser, Admins, TypeOK
    <3>4. SUFFICES ASSUME ~ adminRace
          PROVE  /\ Admins' # {}
                 /\ \A q, p \in Requests :
                       req'[q].op = "leave" /\ req'[p].op = "leave" => q = p
                 /\ \A q \in Requests : req'[q].pc # "delete"
      BY <3>1 DEF AdminInv
    <3>5. Admins' # {}
      BY <3>1, <3>3, <3>4 DEF AdminInv
    <3>6. \A q \in Requests \ {r} : req[q].op # "leave" /\ req[q].pc # "delete"
      BY <3>1, <3>4, LeavePhases DEF AdminInv
    <3>7. \A q \in Requests \ {r} : req'[q] = req[q]
      BY <2>1 DEF Moved
    <3> QED
      BY <3>2, <3>5, <3>6, <3>7
  <2> QED
    BY <1>3, <2>3, <2>4, <2>5, <2>6, <2>7, <2>8, <2>9 DEF Writing
<1>4. ASSUME NEW e \in Emails, NEW named \in BOOLEAN, UpdateMe(e, named) PROVE AdminInv'
  <2>1. \A x \in Emails : node[x].exists /\ node[x].admin => node'[x].exists /\ node'[x].admin
    BY <1>4, UserFields DEF UpdateMe, UpdateUser, TypeOK
  <2>2. Admins \subseteq Admins'
    BY <2>1 DEF Admins
  <2> QED
    BY <1>4, <2>2 DEF UpdateMe, AdminInv
<1>5. CASE UNCHANGED vars
  BY <1>5 DEF vars, graph, history, AdminInv, Admins
<1> QED
  BY <1>1, <1>2, <1>3, <1>4, <1>5, ProceedSplits DEF Next

(* DELETE /auth/me leaves an administrator, unless two accounts were being *)
(* deleted at once: AdminKept for any accounts and requests.               *)
THEOREM AnAdminRemains == Spec => []AdminKept
<1>1. Init => AdminInv
  <2> SUFFICES ASSUME Init PROVE AdminInv
    OBVIOUS
  <2>1. \A r \in Requests : req[r].op = "none" /\ req[r].pc = "idle"
    BY DEF Init, NoReq
  <2>2. Admins # {}
    BY DEF Init
  <2> QED
    BY <2>1, <2>2 DEF AdminInv
<1>2. TypeOK /\ Shape /\ (TypeOK /\ Shape)' /\ AdminInv /\ [Next]_vars => AdminInv'
  BY AdminStep
<1>3. AdminInv => AdminKept
  BY DEF AdminInv, AdminKept
<1> QED
  BY <1>1, <1>2, <1>3, TypesAndShape, PTL DEF Spec

-----------------------------------------------------------------------------
(* The requests that may take a login of an account away come alone.       *)
Alone(e) ==
    \A r, q \in Requests :
        /\ req[r].who = e /\ req[r].op \in Disconnect
        /\ req[q].who = e /\ req[q].op \in Disconnect \cup {"leave"}
        => r = q

(* What a disconnection was told still holds of the account.               *)
Told(u, q) ==
    /\ q.op \in Disconnect => u.exists
    /\ q.pc = "google" /\ q.hasPw => u.pw
    /\ q.pc = "unlink" /\ q.op = "ghoff" => u.pw \/ u.google # None
    /\ q.pc = "unlink" /\ q.op = "goff" => u.pw \/ u.gh # None

(* An account with a login, whose github_username is that of a login.      *)
Open(u) ==
    /\ u.exists => u.pw \/ u.gh # None \/ u.google # None
    /\ u.ghName => u.gh # None

LoginAt(e) ==
    /\ Open(node[e])
    /\ Alone(e)
    /\ \A r \in Requests : req[r].who = e => Told(node[e], req[r])

LoginInv == \A e \in Emails : e \notin edited \cup crossed => LoginAt(e)

(* A request that disconnects nothing has nothing to be told.              *)
LEMMA NothingTold ==
    ASSUME NEW q \in Reqs, Fits(q), q.op \notin Disconnect, NEW u
    PROVE  Told(u, q)
BY DEF Told, Fits, Reqs, Login, Link, Disconnect, Work

LEMMA AloneStays ==
    ASSUME NEW r \in Requests, Moved(r), NEW e \in Emails, Alone(e)
    PROVE  Alone(e)'
<1>1. \A q \in Requests : req'[q].op # "none" => req'[q].op = req[q].op /\ req'[q].who = req[q].who
  BY DEF Moved
<1>2. "none" \notin Disconnect \cup {"leave"}
  BY DEF Disconnect
<1> QED
  BY <1>1, <1>2 DEF Alone

(* If e itself is left alone, only what r is told has to be shown.         *)
LEMMA LoginsStay ==
    ASSUME NEW r \in Requests, Moved(r), NEW e \in Emails, LoginAt(e),
           node'[e] = node[e], req'[r].who = e => Told(node[e], req'[r])
    PROVE  LoginAt(e)'
<1>1. Alone(e)'
  BY AloneStays DEF LoginAt
<1>2. Open(node'[e])
  BY DEF LoginAt
<1>3. ASSUME NEW q \in Requests, req'[q].who = e PROVE Told(node'[e], req'[q])
  <2>1. CASE q = r
    BY <1>3, <2>1
  <2>2. CASE q # r
    BY <1>3, <2>2 DEF Moved, LoginAt
  <2> QED
    BY <2>1, <2>2
<1> QED
  BY <1>1, <1>2, <1>3, Zenon DEF LoginAt

(* If logins are added or no disconnection of e is under way, the account  *)
(* only has to stay open.                                                  *)
LEMMA LoginsGrow ==
    ASSUME TypeOK, Shape, NEW r \in Requests, Moved(r), NEW e \in Emails, LoginAt(e),
           Open(node'[e]), req'[r].op \notin Disconnect,
           \/ \A q \in Requests : req[q].who = e /\ q # r => req[q].op \notin Disconnect
           \/ /\ node'[e].exists <=> node[e].exists
              /\ node'[e].pw <=> node[e].pw
              /\ node[e].gh # None => node'[e].gh # None
              /\ node[e].google # None => node'[e].google # None
    PROVE  LoginAt(e)'
<1>1. Alone(e)'
  BY AloneStays DEF LoginAt
<1>2. ASSUME NEW q \in Requests, req'[q].who = e PROVE Told(node'[e], req'[q])
  <2>1. CASE q = r
    BY <2>1, NothingTold DEF Moved
  <2>2. CASE q # r /\ req[q].op \notin Disconnect
    BY <2>2, NothingTold DEF Moved, TypeOK, Shape
  <2>3. CASE q # r /\ req[q].op \in Disconnect
    <3>1. req'[q] = req[q] /\ Told(node[e], req[q])
      BY <1>2, <2>3 DEF Moved, LoginAt
    <3> QED
      BY <1>2, <2>3, <3>1 DEF Told
  <2> QED
    BY <2>1, <2>2, <2>3
<1> QED
  BY <1>1, <1>2, Zenon DEF LoginAt

(* A request that comes for e has been told nothing, and comes alone.      *)
LEMMA LoginStart ==
    ASSUME TypeOK, Shape, NEW r \in Requests, Start(r),
           NEW e \in Emails, e \notin crossed', LoginAt(e)
    PROVE  LoginAt(e)'
<1>1. PICK x \in Emails, op \in Ops, i \in Emails \cup {None}, ns \in SUBSET Names, l \in First :
         NewRequest(r, op, x, i, ns, l) /\ (op \in Disconnect \cup Work => node[x].exists)
  BY StartFresh
<1>2. l \in Pcs \ {"google", "unlink"}
  BY DEF First, Pcs
<1>3. NewRequest(r, op, x, i, ns, l) /\ (op \in Disconnect => node[x].exists)
  BY <1>1
<1>4. /\ req'[r] = Fresh(op, x, i, ns, l)
      /\ \A q \in Requests \ {r} : req'[q] = req[q]
  BY <1>2, <1>3, NewRequestEffect
<1>5. req'[r].op = op /\ req'[r].pc = l /\ req'[r].who = x
  BY <1>4 DEF Fresh, NoReq
<1>6. node' = node
  BY <1>3 DEF NewRequest, graph
<1>7. Open(node'[e])
  BY <1>6 DEF LoginAt
<1>8. Alone(e)'
  <2>1. CASE x # e
    BY <1>4, <1>5, <2>1 DEF Alone, LoginAt
  <2>2. CASE x = e
    <3>1. /\ op \in Disconnect => InFlight(e, Disconnect \cup {"leave"}) = {}
          /\ op = "leave" => InFlight(e, Disconnect) = {}
      BY <1>3, <2>2 DEF NewRequest, Note
    <3> QED
      BY <1>4, <1>5, <3>1 DEF Alone, LoginAt, InFlight
  <2> QED
    BY <2>1, <2>2
<1>9. ASSUME NEW q \in Requests, req'[q].who = e PROVE Told(node'[e], req'[q])
  <2>1. CASE q = r
    BY <1>2, <1>3, <1>5, <1>6, <1>9, <2>1 DEF Told
  <2>2. CASE q # r
    BY <1>4, <1>6, <1>9, <2>2 DEF LoginAt
  <2> QED
    BY <2>1, <2>2
<1> QED
  BY <1>7, <1>8, <1>9, Zenon DEF LoginAt

LEMMA LoginReading ==
    ASSUME TypeOK, Shape, NEW r \in Requests, Reading(r), NEW e \in Emails, LoginAt(e)
    PROVE  LoginAt(e)'
<1>1. Turn(r) /\ Moved(r) /\ node' = node
  BY ReadingTurns, TurnMoves DEF Turn, graph
<1>2. ASSUME req'[r].who = e PROVE Told(node[e], req'[r])
  <2>1. CASE req'[r].op \notin Disconnect
    BY <1>1, <2>1, NothingTold DEF Moved
  <2>2. CASE req'[r].op \in Disconnect
    <3>1. ~ Finish(r)
      BY <2>2, FinishEffect DEF NoReq, Disconnect
    <3>2. PICK l \in Pcs : <<req[r].pc, l>> \in Jumps /\ Goto(r, l) /\ Reason(r, l)
      BY <1>1, <3>1 DEF Turn
    <3>3. req'[r].pc = l /\ req'[r].who = req[r].who /\ req'[r].op = req[r].op
      <4>1. req[r] \in Reqs /\ req'[r] = [req[r] EXCEPT !.pc = l]
        BY <3>2, GotoEffect DEF TypeOK
      <4> QED
        BY <4>1 DEF Reqs
    <3>4. Told(node[e], req[r]) /\ Open(node[e]) /\ req[r].who = e
      BY <1>2, <3>3 DEF LoginAt
    <3>5. CASE req[r].pc = "google"
      <4>1. req[r].op = "ghoff" /\ l = "unlink"
        BY <3>2, <3>5, LeavePhases DEF Jumps
      <4>2. req[r].hasPw \/ node[e].google # None
        BY <3>2, <3>4, <3>5 DEF Reason
      <4> QED
        BY <3>3, <3>4, <3>5, <4>1, <4>2 DEF Told
    <3>6. CASE req[r].pc = "other"
      <4>1. req[r].op = "goff" /\ l = "unlink"
        BY <3>2, <3>6, LeavePhases DEF Jumps
      <4>2. node[e].pw \/ node[e].ghName
        BY <3>2, <3>4, <3>6 DEF Reason
      <4> QED
        BY <3>3, <3>4, <4>1, <4>2 DEF Told, Open
    <3>7. CASE req[r].pc \notin {"google", "other"}
      <4>1. l \notin {"google", "unlink"}
        BY <1>1, <3>2, <3>7 DEF Jumps, Turn
      <4> QED
        BY <3>3, <3>4, <4>1 DEF Told
    <3> QED
      BY <3>5, <3>6, <3>7
  <2> QED
    BY <2>1, <2>2
<1> QED
  BY <1>1, <1>2, LoginsStay

LEMMA LoginWriting ==
    ASSUME TypeOK, TypeOK', Shape, NEW r \in Requests, Writing(r), NEW e \in Emails, LoginAt(e)
    PROVE  LoginAt(e)'
<1> DEFINE x == req[r].who
           i == req[r].id
<1>1. Moved(r) /\ req[r] \in Reqs /\ Fits(req[r])
  BY WritingMoves DEF TypeOK, Shape
<1>2. node[e] \in Users /\ None \notin Emails
  BY ConstantsAssumption DEF TypeOK
<1>3. ASSUME node' = node, req[r].op \notin Disconnect PROVE LoginAt(e)'
  <2>1. Told(node[e], req'[r])
    <3>1. req'[r].op \notin Disconnect /\ req'[r] \in Reqs /\ Fits(req'[r])
      BY <1>1, <1>3 DEF Moved, Disconnect
    <3> QED
      BY <3>1, NothingTold
  <2> QED
    BY <1>1, <1>3, <2>1, LoginsStay
<1>4. CASE CreateUserFromGithub(r) \/ CreateUserFromGoogle(r)
  <2>1. Creates(r) /\ req[r].op \notin Disconnect /\ i \in Emails
    BY <1>1, <1>4, CreateCreates, LeavePhases DEF Creates, Login, Link, Disconnect, Fits
  <2>2. CASE node' = node
    BY <1>3, <2>1, <2>2
  <2>3. CASE node' # node /\ e # i
    <3>1. node'[e] = node[e]
      BY <2>1, <2>3 DEF Creates, TypeOK
    <3>2. req'[r].op \notin Disconnect
      BY <1>1, <2>1 DEF Moved, Disconnect
    <3>3. Told(node[e], req'[r])
      BY <1>1, <3>2, NothingTold DEF Moved
    <3> QED
      BY <1>1, <3>1, <3>3, LoginsStay
  <2>4. CASE node' # node /\ e = i
    <3>1. ~ node[e].exists /\ node'[e] \in {FromGithub(e), FromGoogle(e)}
      BY <2>1, <2>4 DEF Creates, TypeOK
    <3>2. Open(FromGithub(e))
      BY <1>2 DEF Open, FromGithub, WithGithub, NoUser
    <3>3. Open(FromGoogle(e))
      BY <1>2 DEF Open, FromGoogle, WithGoogle, NoUser
    <3>4. \A q \in Requests : req[q].who = e => req[q].op \notin Disconnect
      BY <3>1 DEF LoginAt, Told
    <3>5. req'[r].op \notin Disconnect
      BY <1>1, <2>1 DEF Moved, Disconnect
    <3>6. Open(node'[e])
      BY <3>1, <3>2, <3>3
    <3> QED
      BY <1>1, <3>4, <3>5, <3>6, LoginsGrow
  <2> QED
    BY <2>2, <2>3, <2>4
<1>5. CASE Promote(r)
  <2>1. req[r].op \notin Disconnect /\ i \in Emails
    BY <1>1, <1>5, LeavePhases DEF Promote, Login, Link, Disconnect, Fits
  <2>2. node'[e] = node[e] \/ node'[e] = [node[e] EXCEPT !.admin = TRUE]
    BY <1>5, <2>1 DEF Promote, Promoted, TypeOK
  <2>3. /\ node'[e].exists <=> node[e].exists
        /\ node'[e].pw <=> node[e].pw
        /\ node'[e].ghName <=> node[e].ghName
    BY <1>2, <2>2 DEF Users
  <2>4. node'[e].gh = node[e].gh /\ node'[e].google = node[e].google
    BY <1>2, <2>2 DEF Users
  <2>5. Open(node'[e])
    BY <2>3, <2>4 DEF Open, LoginAt
  <2>6. req'[r].op \notin Disconnect
    BY <1>1, <2>1 DEF Moved, Disconnect
  <2> QED
    BY <1>1, <2>3, <2>4, <2>5, <2>6, LoginsGrow
<1>6. CASE LinkGithub(r) \/ LinkGoogle(r)
  <2>1. Links(r) /\ req[r].op \notin Disconnect /\ i \in Emails
    BY <1>1, <1>6, LinkLinks, LeavePhases DEF Links, Login, Link, Disconnect, Fits
  <2>2. node'[e] \in {node[e], WithGithub(node[e], i), WithGoogle(node[e], i)}
    BY <2>1 DEF Links, TypeOK
  <2>3. /\ node'[e].exists <=> node[e].exists
        /\ node'[e].pw <=> node[e].pw
    BY <1>2, <2>1, <2>2 DEF Users, WithGithub, WithGoogle
  <2>4. /\ node[e].gh # None => node'[e].gh # None
        /\ node[e].google # None => node'[e].google # None
    BY <1>2, <2>1, <2>2 DEF Users, WithGithub, WithGoogle
  <2>5. node'[e].ghName => node'[e].gh # None
    BY <1>2, <2>1, <2>2 DEF Users, WithGithub, WithGoogle, LoginAt, Open
  <2>6. Open(node'[e])
    BY <2>3, <2>4, <2>5 DEF Open, LoginAt
  <2>7. req'[r].op \notin Disconnect
    BY <1>1, <2>1 DEF Moved, Disconnect
  <2> QED
    BY <1>1, <2>3, <2>4, <2>6, <2>7, LoginsGrow
<1>7. CASE UnlinkGithub(r) \/ UnlinkGoogle(r)
  <2>1. req[r].pc = "unlink" /\ req[r].op \in Disconnect /\ Finish(r)
    BY <1>7, LeavePhases DEF UnlinkGithub, UnlinkGoogle, Unlinked
  <2>2. req'[r].op \notin Disconnect
    BY <2>1, FinishEffect DEF NoReq, Disconnect
  <2>3. CASE e # x
    <3>1. node'[e] = node[e]
      BY <1>7, <2>3 DEF UnlinkGithub, UnlinkGoogle, Unlinked, TypeOK
    <3>2. Told(node[e], req'[r])
      BY <1>1, <2>2, NothingTold DEF Moved
    <3> QED
      BY <1>1, <3>1, <3>2, LoginsStay
  <2>4. CASE e = x
    <3>1. Told(node[e], req[r]) /\ Open(node[e])
      BY <2>4 DEF LoginAt
    <3>2. \A q \in Requests : req[q].who = e /\ q # r => req[q].op \notin Disconnect
      BY <2>1, <2>4 DEF LoginAt, Alone
    <3>3. CASE UnlinkGithub(r)
      <4>1. req[r].op = "ghoff" /\ node'[e] = WithoutGithub(node[e])
        BY <2>1, <2>4, <3>3 DEF UnlinkGithub, GitHub, Unlinked, Disconnect, TypeOK
      <4>2. node[e].pw \/ node[e].google # None
        BY <2>1, <3>1, <4>1 DEF Told
      <4>3. /\ WithoutGithub(node[e]).google = node[e].google
            /\ WithoutGithub(node[e]).pw <=> node[e].pw
            /\ ~ WithoutGithub(node[e]).ghName
        BY <1>2 DEF Users, WithoutGithub
      <4>4. Open(node'[e])
        BY <4>1, <4>2, <4>3 DEF Open
      <4> QED
        BY <1>1, <2>2, <3>2, <4>4, LoginsGrow
    <3>4. CASE UnlinkGoogle(r)
      <4>1. req[r].op = "goff" /\ node'[e] = WithoutGoogle(node[e])
        BY <2>1, <2>4, <3>4 DEF UnlinkGoogle, GitHub, Unlinked, Disconnect, TypeOK
      <4>2. node[e].pw \/ node[e].gh # None
        BY <2>1, <3>1, <4>1 DEF Told
      <4>3. /\ WithoutGoogle(node[e]).gh = node[e].gh
            /\ WithoutGoogle(node[e]).pw <=> node[e].pw
            /\ WithoutGoogle(node[e]).ghName <=> node[e].ghName
        BY <1>2 DEF Users, WithoutGoogle
      <4>4. Open(node'[e])
        BY <3>1, <4>1, <4>2, <4>3 DEF Open
      <4> QED
        BY <1>1, <2>2, <3>2, <4>4, LoginsGrow
    <3> QED
      BY <1>7, <3>3, <3>4
  <2> QED
    BY <2>3, <2>4
<1>8. CASE HasPassword(r)
  <2>1. node' = node /\ req[r].op = "ghoff"
    BY <1>8, LeavePhases DEF HasPassword, graph
  <2>2. /\ req'[r].pc = "google" /\ req'[r].op = req[r].op /\ req'[r].who = x
        /\ req'[r].hasPw = node[x].pw
    BY <1>1, <1>8 DEF HasPassword, GetUserByEmail, TypeOK, Reqs
  <2>3. ASSUME req'[r].who = e PROVE Told(node[e], req'[r])
    <3>1. Told(node[e], req[r])
      BY <2>2, <2>3 DEF LoginAt
    <3> QED
      BY <2>2, <2>3, <3>1 DEF Told
  <2> QED
    BY <1>1, <2>1, <2>3, LoginsStay
<1>9. CASE MergeProject(r) \/ WriteDocs(r)
  <2>1. node' = node /\ req[r].op \notin Disconnect
    BY <1>9, LeavePhases DEF MergeProject, WriteDocs, Work, Disconnect
  <2> QED
    BY <1>3, <2>1
<1>10. CASE ListOwned(r) \/ Purge(r)
  <2>1. node' = node /\ req[r].op \notin Disconnect
    BY <1>10, LeavePhases DEF ListOwned, Purge, graph, Disconnect
  <2> QED
    BY <1>3, <2>1
<1>11. CASE DeleteUser(r)
  <2>1. req[r].op = "leave"
    BY <1>11, LeavePhases DEF DeleteUser
  <2>2. req'[r].op \notin Disconnect
    BY <1>1, <2>1 DEF Moved, Disconnect
  <2>3. CASE node' = node
    BY <1>3, <2>1, <2>3 DEF Disconnect
  <2>4. CASE node' # node /\ e # x
    <3>1. node'[e] = node[e]
      BY <1>11, <2>4 DEF DeleteUser, TypeOK
    <3>2. Told(node[e], req'[r])
      BY <1>1, <2>2, NothingTold DEF Moved
    <3> QED
      BY <1>1, <3>1, <3>2, LoginsStay
  <2>5. CASE node' # node /\ e = x
    <3>1. node'[e] = NoUser
      BY <1>11, <2>5 DEF DeleteUser, TypeOK
    <3>2. Open(node'[e])
      BY <3>1 DEF Open, NoUser
    <3>3. \A q \in Requests : req[q].who = e /\ q # r => req[q].op \notin Disconnect
      BY <2>1, <2>5 DEF LoginAt, Alone
    <3> QED
      BY <1>1, <2>2, <3>2, <3>3, LoginsGrow
  <2> QED
    BY <2>3, <2>4, <2>5
<1> QED
  BY <1>4, <1>5, <1>6, <1>7, <1>8, <1>9, <1>10, <1>11 DEF Writing

(* The routes leave every account a login, unless two of them met or       *)
(* somebody typed a github_username in: LoginKept for any accounts.        *)
THEOREM LoginsAreKept == Spec => []LoginKept
<1>1. Init => LoginInv
  <2> SUFFICES ASSUME Init, NEW e \in Emails PROVE LoginAt(e)
    BY DEF LoginInv
  <2>1. \A r \in Requests : req[r].op = "none" /\ req[r].pc = "idle"
    BY DEF Init, NoReq
  <2>2. Alone(e) /\ \A r \in Requests : Told(node[e], req[r])
    BY <2>1 DEF Alone, Told, Disconnect
  <2>3. Open(node[e])
    <3>1. node[e] \in Founded(e)
      BY DEF Init
    <3>2. CASE node[e] = NoUser
      BY <3>2 DEF NoUser, Open
    <3>3. CASE node[e] # NoUser
      BY <3>1, <3>3 DEF Founded, Open, Users
    <3> QED
      BY <3>2, <3>3
  <2> QED
    BY <2>2, <2>3 DEF LoginAt
<1>2. TypeOK /\ Shape /\ (TypeOK /\ Shape)' /\ LoginInv /\ [Next]_vars => LoginInv'
  <2> SUFFICES ASSUME TypeOK, Shape, TypeOK', Shape', LoginInv, [Next]_vars,
                      NEW e \in Emails, e \notin edited' \cup crossed'
               PROVE  LoginAt(e)'
    BY DEF LoginInv
  <2>1. ASSUME NEW r \in Requests, Start(r) PROVE LoginAt(e)'
    <3>1. PICK y \in Emails, op \in Ops, i \in Emails \cup {None}, ns \in SUBSET Names, l \in First :
             NewRequest(r, op, y, i, ns, l)
      BY <2>1, StartFresh
    <3>2. edited' = edited /\ crossed \subseteq crossed'
      BY <3>1 DEF NewRequest, Note
    <3> QED
      BY <2>1, <3>2, LoginStart DEF LoginInv
  <2>2. ASSUME NEW r \in Requests, Reading(r) PROVE LoginAt(e)'
    <3>1. edited' = edited /\ crossed' = crossed
      BY <2>2, ReadingTurns DEF Turn, history
    <3> QED
      BY <2>2, <3>1, LoginReading DEF LoginInv
  <2>3. ASSUME NEW r \in Requests, Writing(r) PROVE LoginAt(e)'
    <3>1. edited' = edited /\ crossed' = crossed
      BY <2>3 DEF Writing, CreateUserFromGithub, CreateUserFromGoogle, Created, Promote,
                  LinkGithub, LinkGoogle, Linked, UnlinkGithub, UnlinkGoogle, Unlinked,
                  HasPassword, MergeProject, WriteDocs, ListOwned, DeleteUser, Purge, history
    <3> QED
      BY <2>3, <3>1, LoginWriting DEF LoginInv
  <2>4. ASSUME NEW y \in Emails, NEW named \in BOOLEAN, UpdateMe(y, named) PROVE LoginAt(e)'
    <3>1. LoginAt(e) /\ (y = e => ~ named) /\ req' = req
      BY <2>4 DEF UpdateMe, LoginInv
    <3>2. node'[e] \in {node[e], WithName(node[e], FALSE)}
      BY <2>4, <3>1 DEF UpdateMe, UpdateUser, TypeOK
    <3>3. node[e] \in Users
      BY DEF TypeOK
    <3>4. /\ node'[e].exists <=> node[e].exists
          /\ node'[e].pw <=> node[e].pw
          /\ node'[e].ghName => node[e].ghName
      BY <3>2, <3>3 DEF Users, WithName
    <3>5. node'[e].gh = node[e].gh /\ node'[e].google = node[e].google
      BY <3>2, <3>3 DEF Users, WithName
    <3>6. Open(node'[e])
      BY <3>1, <3>4, <3>5 DEF Open, LoginAt
    <3>7. \A q \in Requests : req'[q].who = e => Told(node'[e], req'[q])
      BY <3>1, <3>4, <3>5 DEF Told, LoginAt
    <3>8. Alone(e)'
      BY <3>1 DEF Alone, LoginAt
    <3> QED
      BY <3>6, <3>7, <3>8, Zenon DEF LoginAt
  <2>5. CASE UNCHANGED vars
    BY <2>5 DEF vars, graph, history, LoginInv, LoginAt, Alone
  <2> QED
    BY <2>1, <2>2, <2>3, <2>4, <2>5, ProceedSplits DEF Next
<1>3. LoginInv => LoginKept
  BY DEF LoginInv, LoginKept, LoginAt, Open, CanLogin
<1> QED
  BY <1>1, <1>2, <1>3, TypesAndShape, PTL DEF Spec

-----------------------------------------------------------------------------
(* Nobody works on a project of an account that is leaving.                *)
Apart(e) ==
    \A r, q \in Requests :
        ~ (/\ req[r].who = e /\ req[r].op \in Work
           /\ req[q].who = e /\ req[q].op = "leave")

Purging(e, n) ==
    \E r \in Requests : req[r].who = e /\ req[r].pc = "purge" /\ n \in req[r].names

(* A leave has listed all there is, a writer owns what it writes.          *)
Knows(u, own, q) ==
    /\ q.pc \in {"admins", "delete"} => own \subseteq q.names
    /\ q.pc = "write" => q.names \subseteq own
    /\ q.op \in Work => u.exists

PurgeAt(e) ==
    /\ Owned(e) # {} => node[e].exists
    /\ Apart(e)
    /\ \A n \in Names : <<e, n>> \in (proj \cup docs) \ kept => <<e, n>> \in owns \/ Purging(e, n)
    /\ \A r \in Requests : req[r].who = e => Knows(node[e], Owned(e), req[r])

PurgeInv == \A e \in Emails : e \notin overlap => PurgeAt(e)

LEMMA ApartStays ==
    ASSUME NEW r \in Requests, Moved(r), NEW e \in Emails, Apart(e)
    PROVE  Apart(e)'
<1>1. \A q \in Requests : req'[q].op # "none" => req'[q].op = req[q].op /\ req'[q].who = req[q].who
  BY DEF Moved
<1>2. "none" \notin Work \cup {"leave"}
  BY DEF Work
<1> QED
  BY <1>1, <1>2 DEF Apart

(* If the projects of e are left alone, only what r knows has to be shown. *)
LEMMA PurgeStays ==
    ASSUME TypeOK, NEW r \in Requests, Moved(r), NEW e \in Emails, PurgeAt(e),
           UNCHANGED <<owns, proj, docs, kept>>, node[e].exists => node'[e].exists,
           req[r].pc # "purge",
           req'[r].who = e => Knows(node'[e], Owned(e), req'[r])
    PROVE  PurgeAt(e)'
<1>1. Apart(e)'
  BY ApartStays DEF PurgeAt
<1>2. Owned(e)' = Owned(e)
  BY DEF Owned
<1>3. Owned(e)' # {} => node'[e].exists
  BY <1>2 DEF PurgeAt
<1>4. \A n \in Names : Purging(e, n) => Purging(e, n)'
  BY DEF Purging, Moved
<1>5. \A n \in Names : <<e, n>> \in (proj' \cup docs') \ kept' => <<e, n>> \in owns' \/ Purging(e, n)'
  BY <1>4 DEF PurgeAt
<1>6. ASSUME NEW q \in Requests, req'[q].who = e PROVE Knows(node'[e], Owned(e)', req'[q])
  <2>1. CASE q = r
    BY <1>2, <1>6, <2>1
  <2>2. CASE q # r
    <3>1. req'[q] = req[q] /\ Knows(node[e], Owned(e), req[q])
      BY <1>6, <2>2 DEF Moved, PurgeAt
    <3> QED
      BY <1>2, <3>1 DEF Knows
  <2> QED
    BY <2>1, <2>2
<1> QED
  BY <1>1, <1>3, <1>5, <1>6, Zenon DEF PurgeAt

(* A request that comes for e neither writes nor lists yet.                *)
LEMMA PurgeStart ==
    ASSUME TypeOK, Shape, NEW r \in Requests, Start(r),
           NEW e \in Emails, e \notin overlap', PurgeAt(e)
    PROVE  PurgeAt(e)'
<1>1. PICK x \in Emails, op \in Ops, i \in Emails \cup {None}, ns \in SUBSET Names, l \in First :
         NewRequest(r, op, x, i, ns, l) /\ (op \in Disconnect \cup Work => node[x].exists)
  BY StartFresh
<1>2. l \in Pcs /\ l \notin {"admins", "delete", "purge", "write"}
  BY DEF First, Pcs
<1>3. NewRequest(r, op, x, i, ns, l) /\ (op \in Work => node[x].exists)
  BY <1>1, Zenon
<1>4. /\ req'[r] = Fresh(op, x, i, ns, l) /\ req[r].pc = "idle"
      /\ \A q \in Requests \ {r} : req'[q] = req[q]
  <2>1. l \in Pcs /\ NewRequest(r, op, x, i, ns, l)
    BY <1>2, <1>3
  <2> QED
    BY <2>1, NewRequestEffect, ZenonT(60)
<1>5. req'[r].op = op /\ req'[r].pc = l /\ req'[r].who = x
  BY <1>4 DEF Fresh, NoReq
<1>6. UNCHANGED <<node, owns, proj, docs, kept>> /\ Owned(e)' = Owned(e)
  BY <1>3 DEF NewRequest, Note, graph, Owned
<1>7. Apart(e)'
  <2>1. CASE x # e
    BY <1>4, <1>5, <2>1 DEF Apart, PurgeAt
  <2>2. CASE x = e
    <3>1. /\ op \in Work => InFlight(e, {"leave"}) = {}
          /\ op = "leave" => InFlight(e, Work) = {}
      BY <1>3, <2>2 DEF NewRequest, Note
    <3>2. "leave" \notin Work
      BY DEF Work
    <3> QED
      BY <1>4, <1>5, <3>1, <3>2 DEF Apart, PurgeAt, InFlight
  <2> QED
    BY <2>1, <2>2
<1>8. ASSUME NEW q \in Requests, req'[q].who = e PROVE Knows(node'[e], Owned(e)', req'[q])
  <2>1. CASE q = r
    BY <1>2, <1>3, <1>5, <1>6, <1>8, <2>1 DEF Knows
  <2>2. CASE q # r
    BY <1>4, <1>6, <1>8, <2>2 DEF PurgeAt
  <2> QED
    BY <2>1, <2>2
<1>9. \A n \in Names : Purging(e, n) => Purging(e, n)'
  BY <1>4 DEF Purging
<1>10. \A n \in Names : <<e, n>> \in (proj' \cup docs') \ kept' => <<e, n>> \in owns' \/ Purging(e, n)'
  BY <1>6, <1>9 DEF PurgeAt
<1>11. Owned(e)' # {} => node'[e].exists
  BY <1>6 DEF PurgeAt
<1> QED
  BY <1>7, <1>8, <1>10, <1>11, Zenon DEF PurgeAt

LEMMA PurgeReading ==
    ASSUME TypeOK, Shape, NEW r \in Requests, Reading(r), NEW e \in Emails, PurgeAt(e)
    PROVE  PurgeAt(e)'
<1>1. Turn(r) /\ Moved(r) /\ UNCHANGED <<node, owns, proj, docs, kept>>
  BY ReadingTurns, TurnMoves DEF Turn, graph, history
<1>2. req[r].pc # "purge"
  BY <1>1 DEF Turn
<1>3. ASSUME req'[r].who = e PROVE Knows(node'[e], Owned(e), req'[r])
  <2>1. CASE Finish(r)
    BY <2>1, FinishEffect DEF NoReq, Knows, Work
  <2>2. CASE ~ Finish(r)
    <3>1. PICK l \in Pcs : <<req[r].pc, l>> \in Jumps /\ Goto(r, l) /\ Reason(r, l)
      BY <1>1, <2>2 DEF Turn
    <3>2. /\ req'[r].pc = l /\ req'[r].who = req[r].who
          /\ req'[r].op = req[r].op /\ req'[r].names = req[r].names
      <4>1. req[r] \in Reqs /\ req'[r] = [req[r] EXCEPT !.pc = l]
        BY <3>1, GotoEffect DEF TypeOK
      <4> QED
        BY <4>1 DEF Reqs
    <3>3. Knows(node[e], Owned(e), req[r]) /\ req[r].who = e
      BY <1>3, <3>2 DEF PurgeAt
    <3>4. l = "write" => req[r].names \subseteq Owned(e)
      <4>1. l = "write" => req[r].pc = "owner"
        BY <1>1, <3>1 DEF Turn, Jumps
      <4>2. l = "write" => Owns(r)
        BY <3>1, <4>1 DEF Reason
      <4>3. req[r].names \subseteq Names
        BY DEF TypeOK, Reqs
      <4> QED
        BY <3>3, <4>2, <4>3 DEF Owns, Target, Owned
    <3>5. l \in {"admins", "delete"} => req[r].pc = "admins"
      BY <1>1, <3>1 DEF Turn, Jumps
    <3> QED
      BY <1>1, <3>2, <3>3, <3>4, <3>5 DEF Knows
  <2> QED
    BY <2>1, <2>2
<1> QED
  BY <1>1, <1>2, <1>3, PurgeStays

LEMMA PurgeWriting ==
    ASSUME TypeOK, TypeOK', Shape, NEW r \in Requests, Writing(r), NEW e \in Emails, PurgeAt(e)
    PROVE  PurgeAt(e)'
<1> DEFINE x == req[r].who
           i == req[r].id
<1>1. Moved(r) /\ req[r] \in Reqs /\ Fits(req[r]) /\ Apart(e)'
  BY WritingMoves, ApartStays DEF TypeOK, Shape, PurgeAt
<1>2. ASSUME UNCHANGED <<owns, proj, docs, kept>>, node[e].exists => node'[e].exists,
             req[r].op \notin Work \cup {"leave"}
      PROVE  PurgeAt(e)'
  <2>1. req[r].pc # "purge"
    BY <1>2, LeavePhases
  <2>2. req'[r].op \notin Work \cup {"leave"} /\ req'[r] \in Reqs /\ Fits(req'[r])
    BY <1>1, <1>2 DEF Moved, Work
  <2>3. Knows(node'[e], Owned(e), req'[r])
    BY <2>2 DEF Knows, Fits, Reqs, Login, Link, Disconnect, Work
  <2> QED
    BY <1>1, <1>2, <2>1, <2>3, PurgeStays
<1>3. CASE CreateUserFromGithub(r) \/ CreateUserFromGoogle(r)
  <2>1. Creates(r)
    BY <1>3, CreateCreates
  <2>2. UNCHANGED <<owns, proj, docs, kept>> /\ req[r].op \notin Work \cup {"leave"}
    BY <2>1, LeavePhases DEF Creates, history, Login, Link, Work
  <2>3. node[e].exists => node'[e].exists
    BY <2>1 DEF Creates, TypeOK
  <2> QED
    BY <1>2, <2>2, <2>3
<1>4. CASE Promote(r)
  <2>1. UNCHANGED <<owns, proj, docs, kept>> /\ req[r].op \notin Work \cup {"leave"}
    BY <1>4, LeavePhases DEF Promote, history, Login, Link, Work
  <2>2. node'[e] = node[e] \/ node'[e] = [node[e] EXCEPT !.admin = TRUE]
    BY <1>4 DEF Promote, Promoted, TypeOK
  <2>3. node[e].exists => node'[e].exists
    BY <2>2 DEF TypeOK, Users
  <2> QED
    BY <1>2, <2>1, <2>3
<1>5. CASE LinkGithub(r) \/ LinkGoogle(r)
  <2>1. Links(r)
    BY <1>5, LinkLinks
  <2>2. UNCHANGED <<owns, proj, docs, kept>> /\ req[r].op \notin Work \cup {"leave"}
    BY <2>1, LeavePhases DEF Links, history, Login, Link, Work
  <2>3. node'[e] \in {node[e], WithGithub(node[e], i), WithGoogle(node[e], i)}
    BY <2>1 DEF Links, TypeOK
  <2>4. node[e].exists => node'[e].exists
    BY <2>3 DEF TypeOK, Users, WithGithub, WithGoogle
  <2> QED
    BY <1>2, <2>2, <2>4
<1>6. CASE UnlinkGithub(r) \/ UnlinkGoogle(r)
  <2>1. UNCHANGED <<owns, proj, docs, kept>> /\ req[r].op \notin Work \cup {"leave"}
    BY <1>6, LeavePhases DEF UnlinkGithub, UnlinkGoogle, Unlinked, history, Disconnect, Work
  <2>2. node'[e] \in {node[e], WithoutGithub(node[e]), WithoutGoogle(node[e])}
    BY <1>6 DEF UnlinkGithub, UnlinkGoogle, Unlinked, TypeOK
  <2>3. node[e].exists => node'[e].exists
    BY <2>2 DEF TypeOK, Users, WithoutGithub, WithoutGoogle
  <2> QED
    BY <1>2, <2>1, <2>3
<1>7. CASE HasPassword(r)
  <2>1. UNCHANGED <<node, owns, proj, docs, kept>> /\ req[r].op \notin Work \cup {"leave"}
    BY <1>7, LeavePhases DEF HasPassword, graph, history, Work
  <2> QED
    BY <1>2, <2>1
<1>8. CASE MergeProject(r)
  <2>1. /\ UNCHANGED <<node, docs, kept>> /\ req[r].op \in Work
        /\ proj' = Merged(r, proj) /\ owns' = Merged(r, owns)
    BY <1>8, LeavePhases DEF MergeProject, history
  <2>2. req'[r] = [req[r] EXCEPT !.pc = "write"]
    BY <1>8, JumpMoves DEF MergeProject, Jumps
  <2>3. req'[r].pc = "write" /\ req'[r].names = req[r].names /\ req'[r].op = req[r].op
        /\ req'[r].who = x /\ req[r].names \subseteq Names
    BY <1>1, <2>2 DEF Reqs
  <2>4. \A n \in Names : Purging(e, n) => Purging(e, n)'
    BY <1>1, <1>8 DEF Purging, Moved, MergeProject
  <2>5. CASE e # x
    <3>1. \A n \in Names : /\ <<e, n>> \in owns' <=> <<e, n>> \in owns
                           /\ <<e, n>> \in proj' <=> <<e, n>> \in proj
      BY <2>1, <2>5 DEF Merged, Target
    <3>2. Owned(e)' = Owned(e)
      BY <3>1 DEF Owned
    <3>3. ASSUME NEW q \in Requests, req'[q].who = e PROVE Knows(node'[e], Owned(e)', req'[q])
      BY <1>1, <2>1, <2>3, <2>5, <3>2, <3>3 DEF Moved, PurgeAt
    <3>4. \A n \in Names : <<e, n>> \in (proj' \cup docs') \ kept' => <<e, n>> \in owns' \/ Purging(e, n)'
      BY <2>1, <2>4, <3>1 DEF PurgeAt
    <3>5. Owned(e)' # {} => node'[e].exists
      BY <2>1, <3>2 DEF PurgeAt
    <3> QED
      BY <1>1, <3>3, <3>4, <3>5, Zenon DEF PurgeAt
  <2>6. CASE e = x
    <3>1. node[e].exists /\ (\A q \in Requests : req[q].who = e => req[q].op # "leave")
      BY <2>1, <2>6 DEF PurgeAt, Knows, Apart
    <3>2. proj' = proj \cup Target(r) /\ owns' = owns \cup Target(r)
      BY <2>1, <2>6, <3>1 DEF Merged
    <3>3. \A n \in Names : <<e, n>> \in Target(r) <=> n \in req[r].names
      BY <2>6 DEF Target
    <3>4. Owned(e)' = Owned(e) \cup req[r].names
      BY <2>3, <3>2, <3>3 DEF Owned
    <3>5. \A n \in Names : <<e, n>> \in (proj' \cup docs') \ kept' => <<e, n>> \in owns' \/ Purging(e, n)'
      BY <2>1, <2>4, <3>2 DEF PurgeAt
    <3>6. ASSUME NEW q \in Requests, req'[q].who = e PROVE Knows(node'[e], Owned(e)', req'[q])
      <4>1. CASE q = r
        BY <2>1, <2>3, <3>1, <3>4, <4>1 DEF Knows
      <4>2. CASE q # r
        <5>1. req'[q] = req[q] /\ Knows(node[e], Owned(e), req[q])
          BY <1>1, <3>6, <4>2 DEF Moved, PurgeAt
        <5>2. req[q].pc \notin {"admins", "delete"}
          BY <3>1, <3>6, <5>1, LeavePhases
        <5> QED
          BY <2>1, <3>4, <5>1, <5>2 DEF Knows
      <4> QED
        BY <4>1, <4>2
    <3>7. node'[e].exists
      BY <2>1, <3>1
    <3> QED
      BY <1>1, <3>5, <3>6, <3>7, Zenon DEF PurgeAt
  <2> QED
    BY <2>5, <2>6
<1>9. CASE WriteDocs(r)
  <2>1. /\ UNCHANGED <<node, owns, proj, kept>> /\ docs' = docs \cup Target(r)
        /\ req[r].pc = "write" /\ Finish(r)
    BY <1>9 DEF WriteDocs, history
  <2>2. Owned(e)' = Owned(e)
    BY <2>1 DEF Owned
  <2>3. \A n \in Names : Purging(e, n) => Purging(e, n)'
    BY <1>1, <2>1 DEF Purging, Moved
  <2>4. \A n \in Names : <<e, n>> \in Target(r) => <<e, n>> \in owns
    BY <2>1 DEF Target, PurgeAt, Knows, Owned
  <2>5. \A n \in Names : <<e, n>> \in (proj' \cup docs') \ kept' => <<e, n>> \in owns' \/ Purging(e, n)'
    BY <2>1, <2>3, <2>4 DEF PurgeAt
  <2>6. ASSUME NEW q \in Requests, req'[q].who = e PROVE Knows(node'[e], Owned(e)', req'[q])
    <3>1. CASE q = r
      BY <2>1, <3>1, FinishEffect DEF NoReq, Knows, Work
    <3>2. CASE q # r
      BY <1>1, <2>1, <2>2, <2>6, <3>2 DEF Moved, PurgeAt
    <3> QED
      BY <3>1, <3>2
  <2>7. Owned(e)' # {} => node'[e].exists
    BY <2>1, <2>2 DEF PurgeAt
  <2> QED
    BY <1>1, <2>5, <2>6, <2>7, Zenon DEF PurgeAt
<1>10. CASE ListOwned(r)
  <2>1. UNCHANGED <<node, owns, proj, docs, kept>> /\ req[r].pc = "list" /\ req[r].op = "leave"
    BY <1>10, LeavePhases DEF ListOwned, graph, history
  <2>2. req'[r].pc = "admins" /\ req'[r].names = Owned(x) /\ req'[r].op = "leave" /\ req'[r].who = x
    BY <1>1, <1>10, <2>1 DEF ListOwned, TypeOK, Reqs
  <2>3. req'[r].who = e => Knows(node'[e], Owned(e), req'[r])
    BY <2>2 DEF Knows, Work
  <2> QED
    BY <1>1, <2>1, <2>3, PurgeStays
<1>11. CASE DeleteUser(r)
  <2>1. /\ UNCHANGED <<proj, docs, kept>> /\ req[r].pc = "delete" /\ req[r].op = "leave"
    BY <1>11, LeavePhases DEF DeleteUser, history
  <2>2. CASE ~ node[x].exists
    <3>1. Finish(r) /\ UNCHANGED <<node, owns>>
      BY <1>11, <2>2 DEF DeleteUser
    <3>2. Knows(node'[e], Owned(e), req'[r])
      BY <3>1, FinishEffect DEF NoReq, Knows, Work
    <3> QED
      BY <1>1, <2>1, <3>1, <3>2, PurgeStays
  <2>3. CASE node[x].exists
    <3>1. /\ node' = [node EXCEPT ![x] = NoUser] /\ owns' = {y \in owns : y[1] # x}
          /\ Goto(r, "purge")
      BY <1>11, <2>3 DEF DeleteUser
    <3>2. req'[r] = [req[r] EXCEPT !.pc = "purge"]
      BY <2>1, <3>1, JumpMoves DEF Jumps
    <3>3. req'[r].pc = "purge" /\ req'[r].names = req[r].names /\ req'[r].who = x /\ req'[r].op = "leave"
      BY <1>1, <2>1, <3>2 DEF Reqs
    <3>4. \A n \in Names : Purging(e, n) => Purging(e, n)'
      BY <1>1, <2>1 DEF Purging, Moved
    <3>5. CASE e # x
      <4>1. node'[e] = node[e]
        BY <3>1, <3>5 DEF TypeOK
      <4>2. \A n \in Names : <<e, n>> \in owns' <=> <<e, n>> \in owns
        BY <3>1, <3>5
      <4>3. Owned(e)' = Owned(e)
        BY <4>2 DEF Owned
      <4>4. \A n \in Names : <<e, n>> \in (proj' \cup docs') \ kept' => <<e, n>> \in owns' \/ Purging(e, n)'
        BY <2>1, <3>4, <4>2 DEF PurgeAt
      <4>5. ASSUME NEW q \in Requests, req'[q].who = e PROVE Knows(node'[e], Owned(e)', req'[q])
        BY <1>1, <3>3, <3>5, <4>1, <4>3, <4>5 DEF Moved, PurgeAt
      <4>6. Owned(e)' # {} => node'[e].exists
        BY <4>1, <4>3 DEF PurgeAt
      <4> QED
        BY <1>1, <4>4, <4>5, <4>6, Zenon DEF PurgeAt
    <3>6. CASE e = x
      <4>1. Owned(e)' = {}
        BY <3>1, <3>6 DEF Owned
      <4>2. Owned(e) \subseteq req[r].names
        BY <2>1, <3>6 DEF PurgeAt, Knows
      <4>3. \A n \in Names : <<e, n>> \in owns => Purging(e, n)'
        BY <3>3, <3>6, <4>2 DEF Purging, Owned
      <4>4. \A n \in Names : <<e, n>> \in (proj' \cup docs') \ kept' => <<e, n>> \in owns' \/ Purging(e, n)'
        BY <2>1, <3>4, <4>3 DEF PurgeAt
      <4>5. ASSUME NEW q \in Requests, req'[q].who = e PROVE Knows(node'[e], Owned(e)', req'[q])
        <5>1. CASE q = r
          BY <3>3, <5>1 DEF Knows, Work
        <5>2. CASE q # r
          <6>1. req'[q] = req[q] /\ req[q].op \notin Work
            BY <1>1, <2>1, <3>6, <4>5, <5>2 DEF Moved, PurgeAt, Apart
          <6>2. req[q].pc # "write"
            BY <6>1, LeavePhases
          <6> QED
            BY <4>1, <6>1, <6>2 DEF Knows
        <5> QED
          BY <5>1, <5>2
      <4> QED
        BY <1>1, <4>1, <4>4, <4>5, Zenon DEF PurgeAt
    <3> QED
      BY <3>5, <3>6
  <2> QED
    BY <2>2, <2>3
<1>12. CASE Purge(r)
  <2>1. UNCHANGED <<node, owns>> /\ req[r].pc = "purge" /\ req[r].op = "leave"
    BY <1>12, LeavePhases DEF Purge
  <2>2. Owned(e)' = Owned(e)
    BY <2>1 DEF Owned
  <2>3. req'[r].pc \in {"idle", "purge"} /\ req'[r].op \notin Work
    <3>1. CASE Finish(r)
      BY <3>1, FinishEffect DEF NoReq, Work
    <3>2. CASE \E n \in req[r].names : req' = [req EXCEPT ![r].names = @ \ {n}]
      <4>1. PICK n \in req[r].names : req' = [req EXCEPT ![r].names = @ \ {n}]
        BY <3>2
      <4>2. req'[r].pc = "purge" /\ req'[r].op = "leave"
        BY <1>1, <2>1, <4>1 DEF TypeOK, Reqs
      <4> QED
        BY <4>2 DEF Work
    <3> QED
      BY <1>12, <3>1, <3>2 DEF Purge
  <2>4. ASSUME NEW n \in Names, <<e, n>> \in (proj' \cup docs') \ kept'
        PROVE  <<e, n>> \in owns' \/ Purging(e, n)'
    <3>1. <<e, n>> \in (proj \cup docs) \ kept
      BY <1>12, <2>4 DEF Purge
    <3>2. CASE <<e, n>> \in owns
      BY <2>1, <3>2
    <3>3. CASE Purging(e, n)
      <4>1. PICK q \in Requests : req[q].who = e /\ req[q].pc = "purge" /\ n \in req[q].names
        BY <3>3 DEF Purging
      <4>2. CASE q # r
        BY <1>1, <4>1, <4>2 DEF Purging, Moved
      <4>3. CASE q = r
        <5>1. PICK m \in req[r].names :
                 /\ req' = [req EXCEPT ![r].names = @ \ {m}]
                 /\ \/ proj' = proj \ {<<x, m>>} /\ docs' = docs \ {<<x, m>>}
                    \/ kept' = kept \cup {<<x, m>>}
          BY <1>12, <4>1, <4>3 DEF Purge
        <5>2. n # m
          BY <2>4, <4>1, <4>3, <5>1
        <5>3. req'[r].who = e /\ req'[r].pc = "purge" /\ n \in req'[r].names
          BY <1>1, <4>1, <4>3, <5>1, <5>2 DEF TypeOK, Reqs
        <5> QED
          BY <5>3 DEF Purging
      <4> QED
        BY <4>2, <4>3
    <3> QED
      BY <3>1, <3>2, <3>3 DEF PurgeAt
  <2>5. ASSUME NEW q \in Requests, req'[q].who = e PROVE Knows(node'[e], Owned(e)', req'[q])
    <3>1. CASE q = r
      BY <2>3, <3>1 DEF Knows
    <3>2. CASE q # r
      BY <1>1, <2>1, <2>2, <2>5, <3>2 DEF Moved, PurgeAt
    <3> QED
      BY <3>1, <3>2
  <2>6. Owned(e)' # {} => node'[e].exists
    BY <2>1, <2>2 DEF PurgeAt
  <2> QED
    BY <1>1, <2>4, <2>5, <2>6, Zenon DEF PurgeAt
<1> QED
  BY <1>3, <1>4, <1>5, <1>6, <1>7, <1>8, <1>9, <1>10, <1>11, <1>12 DEF Writing

(* Nothing of a deleted account's projects is left once its requests are   *)
(* over, but what failed or was worked on meanwhile: NothingLeftBehind.    *)
THEOREM NothingIsLeftBehind == Spec => []NothingLeftBehind
<1>1. Init => PurgeInv
  <2> SUFFICES ASSUME Init, NEW e \in Emails PROVE PurgeAt(e)
    BY DEF PurgeInv
  <2>1. \A r \in Requests : req[r].op = "none" /\ req[r].pc = "idle"
    BY DEF Init, NoReq
  <2>2. Apart(e) /\ \A r \in Requests : Knows(node[e], Owned(e), req[r])
    BY <2>1 DEF Apart, Knows, Work
  <2>3. Owned(e) # {} => node[e].exists
    BY DEF Init, Owned
  <2>4. proj = owns /\ docs = owns
    BY DEF Init
  <2> QED
    BY <2>2, <2>3, <2>4 DEF PurgeAt
<1>2. TypeOK /\ Shape /\ (TypeOK /\ Shape)' /\ PurgeInv /\ [Next]_vars => PurgeInv'
  <2> SUFFICES ASSUME TypeOK, Shape, TypeOK', Shape', PurgeInv, [Next]_vars,
                      NEW e \in Emails, e \notin overlap'
               PROVE  PurgeAt(e)'
    BY DEF PurgeInv
  <2>1. ASSUME NEW r \in Requests, Start(r) PROVE PurgeAt(e)'
    <3>1. PICK y \in Emails, op \in Ops, i \in Emails \cup {None}, ns \in SUBSET Names, l \in First :
             NewRequest(r, op, y, i, ns, l)
      BY <2>1, StartFresh
    <3>2. overlap \subseteq overlap'
      BY <3>1 DEF NewRequest, Note
    <3> QED
      BY <2>1, <3>2, PurgeStart DEF PurgeInv
  <2>2. ASSUME NEW r \in Requests, Reading(r) PROVE PurgeAt(e)'
    <3>1. overlap' = overlap
      BY <2>2, ReadingTurns DEF Turn, history
    <3> QED
      BY <2>2, <3>1, PurgeReading DEF PurgeInv
  <2>3. ASSUME NEW r \in Requests, Writing(r) PROVE PurgeAt(e)'
    <3>1. overlap' = overlap
      BY <2>3 DEF Writing, CreateUserFromGithub, CreateUserFromGoogle, Created, Promote,
                  LinkGithub, LinkGoogle, Linked, UnlinkGithub, UnlinkGoogle, Unlinked,
                  HasPassword, MergeProject, WriteDocs, ListOwned, DeleteUser, Purge, history
    <3> QED
      BY <2>3, <3>1, PurgeWriting DEF PurgeInv
  <2>4. ASSUME NEW y \in Emails, NEW named \in BOOLEAN, UpdateMe(y, named) PROVE PurgeAt(e)'
    <3>1. PurgeAt(e) /\ UNCHANGED <<owns, proj, docs, kept, req>>
      BY <2>4 DEF UpdateMe, PurgeInv
    <3>2. node'[e] \in {node[e], WithName(node[e], named)}
      BY <2>4 DEF UpdateMe, UpdateUser, TypeOK
    <3>3. node'[e].exists <=> node[e].exists
      BY <3>2 DEF TypeOK, Users, WithName
    <3>4. \A q \in Requests : req'[q].who = e => Knows(node'[e], Owned(e)', req'[q])
      BY <3>1, <3>3 DEF Knows, PurgeAt, Owned
    <3>5. /\ Owned(e)' # {} => node'[e].exists
          /\ Apart(e)'
          /\ \A n \in Names : <<e, n>> \in (proj' \cup docs') \ kept' => <<e, n>> \in owns' \/ Purging(e, n)'
      BY <3>1, <3>3 DEF PurgeAt, Owned, Apart, Purging
    <3> QED
      BY <3>4, <3>5, Zenon DEF PurgeAt
  <2>5. CASE UNCHANGED vars
    BY <2>5 DEF vars, graph, history, PurgeInv, PurgeAt, Apart, Purging, Owned
  <2> QED
    BY <2>1, <2>2, <2>3, <2>4, <2>5, ProceedSplits DEF Next
<1>3. TypeOK /\ Shape /\ PurgeInv => NothingLeftBehind
  <2> SUFFICES ASSUME TypeOK, Shape, PurgeInv, NEW e \in Emails, ~ node[e].exists,
                      e \notin overlap, InFlight(e, {"leave"} \cup Work) = {}
               PROVE  ({e} \X Names) \cap (proj \cup docs) \subseteq kept
    BY Zenon DEF NothingLeftBehind
  <2>1. PurgeAt(e)
    BY DEF PurgeInv
  <2>2. ASSUME NEW n \in Names, <<e, n>> \in proj \cup docs PROVE <<e, n>> \in kept
    <3>1. <<e, n>> \notin owns
      BY <2>1 DEF PurgeAt, Owned
    <3>2. ~ Purging(e, n)
      BY LeavePhases DEF Purging, InFlight
    <3> QED
      BY <2>1, <2>2, <3>1, <3>2 DEF PurgeAt
  <2> QED
    BY <2>2
<1> QED
  BY <1>1, <1>2, <1>3, TypesAndShape, PTL DEF Spec

-----------------------------------------------------------------------------
(* What an account owns or is about to own.                                *)
MergingIn(R, e) ==
    {n \in Names : \E r \in Requests : R[r].pc = "merge" /\ R[r].who = e /\ n \in R[r].names}
Merging(e)  == MergingIn(req, e)
Claimed(e)  == Owned(e) \cup Merging(e)
ClaimInv    == \A e \in Emails : Cardinality(Claimed(e)) <= Limit + Cardinality(Requests) - 1

(* Sets of project names are finite, and smaller sets have smaller counts. *)
LEMMA NameCounts ==
    /\ \A A \in SUBSET Names : IsFiniteSet(A) /\ Cardinality(A) \in Nat
    /\ \A A, B \in SUBSET Names : A \subseteq B => Cardinality(A) <= Cardinality(B)
    /\ \A A, B \in SUBSET Names : Cardinality(A \cup B) <= Cardinality(A) + Cardinality(B)
    /\ Cardinality(Requests) \in Nat
<1>1. IsFiniteSet(Names) /\ IsFiniteSet(Requests)
  BY ConstantsAssumption
<1>2. \A A \in SUBSET Names : IsFiniteSet(A) /\ Cardinality(A) \in Nat
  BY <1>1, FS_Subset, FS_CardinalityType
<1>3. \A A, B \in SUBSET Names : A \subseteq B => Cardinality(A) <= Cardinality(B)
  BY <1>2, FS_Subset
<1>4. ASSUME NEW A \in SUBSET Names, NEW B \in SUBSET Names
      PROVE  Cardinality(A \cup B) <= Cardinality(A) + Cardinality(B)
  <2>1. A \cap B \in SUBSET Names
    OBVIOUS
  <2>2. /\ Cardinality(A \cup B) = Cardinality(A) + Cardinality(B) - Cardinality(A \cap B)
        /\ Cardinality(A) \in Nat /\ Cardinality(B) \in Nat /\ Cardinality(A \cap B) \in Nat
    BY <1>2, <2>1, FS_Union
  <2> QED
    BY <2>2
<1> QED
  BY <1>1, <1>2, <1>3, <1>4, FS_CardinalityType

(* A claim names one project: there are no more of them than requests.     *)
LEMMA OneNameEach ==
    ASSUME NEW R \in [Requests -> Reqs], \A r \in Requests : Fits(R[r]), NEW e \in Emails
    PROVE  Cardinality(MergingIn(R, e)) <= Cardinality(Requests)
<1> DEFINE M == MergingIn(R, e)
           Claims(r, n) == R[r].pc = "merge" /\ R[r].who = e /\ n \in R[r].names
           by == [n \in M |-> CHOOSE r \in Requests : Claims(r, n)]
<1>1. \A n \in M : by[n] \in Requests /\ Claims(by[n], n)
  BY DEF MergingIn
<1>2. ASSUME NEW r \in Requests, R[r].pc = "merge" PROVE \E m \in Names : R[r].names = {m}
  <2>1. R[r] \in Reqs /\ Fits(R[r])
    OBVIOUS
  <2>2. R[r].op \in Work
    BY <1>2, <2>1 DEF Fits, Reqs, Login, Link, Disconnect, Work
  <2> QED
    BY <2>1, <2>2 DEF Fits
<1>3. ASSUME NEW n \in M, NEW m \in M, by[n] = by[m] PROVE n = m
  BY <1>1, <1>2, <1>3
<1>4. by \in [M -> Requests]
  BY <1>1
<1>5. /\ IsFiniteSet(M) /\ Cardinality(M) \in Nat
      /\ IsFiniteSet(Requests) /\ Cardinality(Requests) \in Nat
  BY NameCounts, ConstantsAssumption DEF MergingIn
<1> HIDE DEF by, M
<1>6. ~ (Cardinality(Requests) < Cardinality(M))
  BY <1>3, <1>4, <1>5, FS_PigeonHole
<1>7. Cardinality(M) <= Cardinality(Requests)
  BY <1>5, <1>6
<1> QED
  BY <1>7 DEF M

(* The bound survives whatever adds no claim.                              *)
LEMMA ClaimsShrink ==
    ASSUME NEW e \in Emails, Claimed(e)' \subseteq Claimed(e),
           Cardinality(Claimed(e)) <= Limit + Cardinality(Requests) - 1
    PROVE  Cardinality(Claimed(e)') <= Limit + Cardinality(Requests) - 1
<1>1. Claimed(e) \in SUBSET Names /\ Claimed(e)' \in SUBSET Names
  BY DEF Claimed, Owned, Merging, MergingIn
<1>2. Cardinality(Claimed(e)') <= Cardinality(Claimed(e))
  BY <1>1, NameCounts
<1>3. Cardinality(Claimed(e)') \in Nat /\ Cardinality(Claimed(e)) \in Nat
  BY <1>1, NameCounts
<1> QED
  BY <1>2, <1>3, NameCounts, ConstantsAssumption

LEMMA ClaimStep ==
    ASSUME TypeOK, Shape, TypeOK', Shape', ClaimInv, [Next]_vars, NEW e \in Emails
    PROVE  Cardinality(Claimed(e)') <= Limit + Cardinality(Requests) - 1
<1>1. Cardinality(Claimed(e)) <= Limit + Cardinality(Requests) - 1
  BY DEF ClaimInv
<1>2. SUFFICES \/ Claimed(e)' \subseteq Claimed(e)
               \/ Cardinality(Claimed(e)') <= Limit + Cardinality(Requests) - 1
  BY <1>1, ClaimsShrink
<1>3. ASSUME NEW r \in Requests, owns' \subseteq owns,
             \A q \in Requests \ {r} : req'[q] = req[q], req'[r].pc # "merge"
      PROVE  Claimed(e)' \subseteq Claimed(e)
  <2>1. Owned(e)' \subseteq Owned(e)
    BY <1>3 DEF Owned
  <2>2. Merging(e)' \subseteq Merging(e)
    BY <1>3 DEF Merging, MergingIn
  <2> QED
    BY <2>1, <2>2 DEF Claimed
<1>4. ASSUME NEW r \in Requests, Start(r) PROVE Claimed(e)' \subseteq Claimed(e)
  <2>1. PICK y \in Emails, op \in Ops, i \in Emails \cup {None}, ns \in SUBSET Names, l \in First :
           NewRequest(r, op, y, i, ns, l)
    BY <1>4, StartFresh
  <2>2. l \in Pcs \ {"merge"} /\ owns' = owns
    BY <2>1 DEF First, Pcs, NewRequest, graph
  <2>3. /\ req'[r] = Fresh(op, y, i, ns, l)
        /\ \A q \in Requests \ {r} : req'[q] = req[q]
    BY <2>1, <2>2, NewRequestEffect
  <2>4. req'[r].pc # "merge"
    BY <2>2, <2>3 DEF Fresh, NoReq
  <2> QED
    BY <1>3, <2>2, <2>3, <2>4
<1>5. ASSUME NEW r \in Requests, Reading(r)
      PROVE  \/ Claimed(e)' \subseteq Claimed(e)
             \/ Cardinality(Claimed(e)') <= Limit + Cardinality(Requests) - 1
  <2>1. Turn(r) /\ Moved(r) /\ owns' = owns
    BY <1>5, ReadingTurns, TurnMoves DEF Turn, graph
  <2>2. CASE req'[r].pc # "merge"
    BY <1>3, <2>1, <2>2 DEF Moved
  <2>3. CASE req'[r].pc = "merge"
    <3>1. ~ Finish(r)
      BY <2>3, FinishEffect DEF NoReq
    <3>2. PICK l \in Pcs : <<req[r].pc, l>> \in Jumps /\ Goto(r, l) /\ Reason(r, l)
      BY <2>1, <3>1 DEF Turn
    <3>3. /\ req'[r].pc = l /\ req'[r].who = req[r].who /\ req'[r].names = req[r].names
          /\ req[r].names \subseteq Names
      <4>1. req[r] \in Reqs /\ req'[r] = [req[r] EXCEPT !.pc = l]
        BY <3>2, GotoEffect DEF TypeOK
      <4> QED
        BY <4>1 DEF Reqs
    <3>4. Owned(e)' = Owned(e)
      BY <2>1 DEF Owned
    <3>5. CASE req[r].who # e
      <4>1. Merging(e)' \subseteq Merging(e)
        BY <2>1, <3>3, <3>5 DEF Moved, Merging, MergingIn
      <4> QED
        BY <3>4, <4>1 DEF Claimed
    <3>6. CASE req[r].who = e /\ req[r].pc = "owner"
      <4>1. Owns(r)
        BY <2>3, <3>2, <3>3, <3>6 DEF Reason
      <4>2. req[r].names \subseteq Owned(e)
        BY <3>3, <3>6, <4>1 DEF Owns, Target, Owned
      <4>3. Merging(e)' \subseteq Merging(e) \cup Owned(e)
        BY <2>1, <3>3, <4>2 DEF Moved, Merging, MergingIn
      <4> QED
        BY <3>4, <4>3 DEF Claimed
    <3>7. CASE req[r].who = e /\ req[r].pc = "count"
      <4>1. Cardinality(Owned(e)) < Limit
        BY <3>2, <3>7 DEF Reason, WithinLimit
      <4>2. Cardinality(Merging(e)') <= Cardinality(Requests)
        BY OneNameEach DEF TypeOK, Shape, Merging
      <4>3. Owned(e) \in SUBSET Names /\ Merging(e)' \in SUBSET Names
        BY DEF Owned, Merging, MergingIn
      <4>4. Claimed(e)' = Owned(e) \cup Merging(e)'
        BY <3>4 DEF Claimed
      <4>5. Cardinality(Claimed(e)') <= Cardinality(Owned(e)) + Cardinality(Merging(e)')
        BY <4>3, <4>4, NameCounts
      <4>6. /\ Cardinality(Owned(e)) \in Nat /\ Cardinality(Merging(e)') \in Nat
            /\ Cardinality(Requests) \in Nat /\ Limit \in Nat
            /\ Cardinality(Claimed(e)') \in Nat
        BY <4>3, <4>4, NameCounts, ConstantsAssumption
      <4> QED
        BY <4>1, <4>2, <4>5, <4>6
    <3>8. req[r].pc \in {"owner", "count"}
      BY <2>1, <2>3, <3>2, <3>3 DEF Turn, Jumps
    <3> QED
      BY <3>5, <3>6, <3>7, <3>8
  <2> QED
    BY <2>2, <2>3
<1>6. ASSUME NEW r \in Requests, Writing(r) PROVE Claimed(e)' \subseteq Claimed(e)
  <2>1. Moved(r)
    BY <1>6, WritingMoves
  <2>2. CASE MergeProject(r)
    <3>1. req'[r].pc = "write" /\ owns' \subseteq owns \cup Target(r) /\ req[r].pc = "merge"
      <4>1. req[r] \in Reqs /\ req'[r] = [req[r] EXCEPT !.pc = "write"]
        BY <2>2, JumpMoves DEF MergeProject, Jumps, TypeOK
      <4> QED
        BY <2>2, <4>1 DEF MergeProject, Merged, Reqs
    <3>2. Owned(e)' \subseteq Owned(e) \cup Merging(e)
      BY <3>1 DEF Owned, Merging, MergingIn, Target
    <3>3. Merging(e)' \subseteq Merging(e)
      BY <2>1, <3>1 DEF Moved, Merging, MergingIn
    <3> QED
      BY <3>2, <3>3 DEF Claimed
  <2>3. CASE WriteDocs(r)
    <3>1. Finish(r) /\ owns' = owns
      BY <2>3 DEF WriteDocs
    <3>2. req'[r].pc # "merge"
      BY <3>1, FinishEffect DEF NoReq
    <3> QED
      BY <1>3, <2>1, <3>1, <3>2 DEF Moved
  <2>4. CASE ~ MergeProject(r) /\ ~ WriteDocs(r)
    <3>1. req[r].pc \in {"create", "promote", "link", "unlink", "password", "list", "delete", "purge"}
      BY <1>6, <2>4 DEF Writing, CreateUserFromGithub, CreateUserFromGoogle, Created, Promote,
                  LinkGithub, LinkGoogle, Linked, UnlinkGithub, UnlinkGoogle, Unlinked,
                  HasPassword, ListOwned, DeleteUser, Purge
    <3>2. owns' \subseteq owns
      BY <1>6, <2>4 DEF Writing, CreateUserFromGithub, CreateUserFromGoogle, Created, Promote,
                  LinkGithub, LinkGoogle, Linked, UnlinkGithub, UnlinkGoogle, Unlinked,
                  HasPassword, ListOwned, DeleteUser, Purge, graph
    <3>3. req[r].op \notin Work
      BY <3>1, LeavePhases
    <3>4. req'[r].op \notin Work
      BY <2>1, <3>3 DEF Moved, Work
    <3>5. req'[r].pc # "merge"
      BY <2>1, <3>4 DEF Moved, Fits, Reqs, Login, Link, Disconnect, Work
    <3> QED
      BY <1>3, <2>1, <3>2, <3>5 DEF Moved
  <2> QED
    BY <2>2, <2>3, <2>4
<1>7. ASSUME NEW y \in Emails, NEW named \in BOOLEAN, UpdateMe(y, named)
      PROVE  Claimed(e)' \subseteq Claimed(e)
  BY <1>7 DEF UpdateMe, Claimed, Owned, Merging, MergingIn
<1>8. CASE UNCHANGED vars
  BY <1>8 DEF vars, graph, Claimed, Owned, Merging, MergingIn
<1> QED
  BY <1>4, <1>5, <1>6, <1>7, <1>8, ProceedSplits DEF Next

(* The plan's number of projects is exceeded by overlapping claims only,   *)
(* one for each further request, for accounts that began within the bound: *)
(* ProjectsBounded for any number of requests.                             *)
THEOREM ProjectsAreBounded ==
    ASSUME Cardinality(Founding) <= Limit + Cardinality(Requests) - 1
    PROVE  Spec => []ProjectsBounded
<1>1. Init => ClaimInv
  <2> SUFFICES ASSUME Init, NEW e \in Emails
               PROVE  Cardinality(Claimed(e)) <= Limit + Cardinality(Requests) - 1
    BY DEF ClaimInv
  <2>1. \A r \in Requests : req[r].pc = "idle"
    BY DEF Init, NoReq
  <2>2. Founding \in SUBSET Names /\ Limit \in Nat
    BY ConstantsAssumption
  <2>3. Claimed(e) \subseteq Founding
    BY <2>1 DEF Init, Claimed, Owned, Merging, MergingIn
  <2>4. Cardinality(Claimed(e)) <= Cardinality(Founding)
    BY <2>2, <2>3, NameCounts
  <2>5. Cardinality(Claimed(e)) \in Nat /\ Cardinality(Founding) \in Nat /\ Cardinality(Requests) \in Nat
    BY <2>2, <2>3, NameCounts
  <2> QED
    BY <2>2, <2>4, <2>5
<1>2. TypeOK /\ Shape /\ (TypeOK /\ Shape)' /\ ClaimInv /\ [Next]_vars => ClaimInv'
  BY ClaimStep DEF ClaimInv
<1>3. ClaimInv => ProjectsBounded
  <2> SUFFICES ASSUME ClaimInv, NEW e \in Emails
               PROVE  Cardinality(Owned(e)) <= Limit + Cardinality(Requests) - 1
    BY DEF ProjectsBounded
  <2>1. Owned(e) \in SUBSET Names /\ Claimed(e) \in SUBSET Names /\ Owned(e) \subseteq Claimed(e)
    BY DEF Owned, Claimed, Merging, MergingIn
  <2>2. /\ Cardinality(Owned(e)) <= Cardinality(Claimed(e)) /\ Cardinality(Owned(e)) \in Nat
        /\ Cardinality(Claimed(e)) \in Nat /\ Cardinality(Requests) \in Nat
    BY <2>1, NameCounts
  <2> QED
    BY <2>2, ConstantsAssumption DEF ClaimInv
<1> QED
  BY <1>1, <1>2, <1>3, TypesAndShape, PTL DEF Spec

=============================================================================
