-------------------------------- MODULE Users --------------------------------
(***************************************************************************)
(* Accounts, roles, quotas and the requests for quota (internal/api's      *)
(* handlers_users.go over internal/store's users and user_endpoints).      *)
(*                                                                         *)
(* A session is a client with a token, which carries the role its account  *)
(* had at the login, and with one request at a time.  A step is one        *)
(* statement on the store with what the handler computes until the next.   *)
(***************************************************************************)
EXTENDS Naturals, FiniteSets

CONSTANTS
  Session,
  Account,   \* ids of accounts, never reused
  Req,       \* ids of resource requests, never reused
  Env,       \* environments
  Local,     \* the local one, which every account has a quota on
  Dim,       \* the dimensions of a quota: CPU, memory, disk
  MaxAmount, \* bound on a quota
  Bodies,    \* the quotas that admins set
  Wants,     \* the amounts that requests and reviews name
  Nil,       \* no account, no grant, no request, no token
  Faulty     \* may calls fail?

Role == {"admin", "member"}
Quota == [Dim -> 0..MaxAmount]
NoQuota == [d \in Dim |-> 0]
Request == [u : Account, e : Env, want : Quota,
            status : {"pending", "approved", "rejected"}]
Token == [u : Account, role : Role]

ASSUME ConstantsAssumption ==
  /\ Local \in Env
  /\ MaxAmount \in Nat
  /\ Bodies \subseteq Quota
  /\ Wants \subseteq Quota
  /\ Faulty \in BOOLEAN

ASSUME NilAssumption == Nil \notin Account \cup Req \cup Env \cup Role \cup Quota \cup Request \cup Token

VARIABLES
  role,     \* the role of each account in the users table
  quota,    \* users' base quota (local), and user_endpoints (the others)
  born,     \* the accounts that were ever created
  reqs,     \* the resource_requests table
  filed,    \* the requests that were ever filed
  token,    \* each session's token
  pc,       \* the call each session's request makes next
  loc,      \* the local variables of each request
  granted,  \* history: requests whose grant was committed
  again     \* history: requests reviewed when not pending, twice at once, or in part

vars == <<role, quota, born, reqs, filed, token, pc, loc, granted, again>>

Locals == [u : Account \cup {Nil}, e : Env \cup {Nil}, id : Req \cup {Nil},
           role : Role \cup {Nil},
           ask : Quota,        \* what a request wants, or a review sets; 0 for nothing
           grant : Quota,      \* what a review writes
           late : BOOLEAN]     \* history: what was read has changed, or was not read
NoLocal == [u |-> Nil, e |-> Nil, id |-> Nil, role |-> Nil,
            ask |-> NoQuota, grant |-> NoQuota, late |-> FALSE]

Calls == {"idle", "get", "count", "setrole", "insert", "current", "grant",
          "approve", "reject"}
Reviewing == {"current", "grant", "approve", "reject"}

TypeOK ==
  /\ role \in [Account -> Role \cup {Nil}]
  /\ quota \in [Account -> [Env -> Quota \cup {Nil}]]
  /\ born \in SUBSET Account
  /\ reqs \in [Req -> Request \cup {Nil}]
  /\ filed \in SUBSET Req
  /\ token \in [Session -> Token \cup {Nil}]
  /\ pc \in [Session -> Calls]
  /\ loc \in [Session -> Locals]
  /\ granted \in SUBSET Req
  /\ again \in SUBSET Req

-----------------------------------------------------------------------------

Users == {u \in Account : role[u] # Nil}
Admins == {u \in Account : role[u] = "admin"}

\* p makes the call `at` next; those in late work with what is no longer so.
Step(p, l, at, late) ==
  /\ loc' = [q \in Session |-> IF q = p THEN l
                               ELSE IF q \in late THEN [loc[q] EXCEPT !.late = TRUE]
                               ELSE loc[q]]
  /\ pc' = [pc EXCEPT ![p] = at]
Goto(p, at) == Step(p, loc[p], at, {})
Answer(p, late) == Step(p, NoLocal, "idle", late)

\* Requests that read the roles and act on them, and that read a quota and have
\* still to write it.
Counting == {p \in Session : pc[p] \in {"count", "setrole"}}
Granting(u, e) == {p \in Session : pc[p] = "grant" /\ loc[p].u = u /\ loc[p].e = e}

\* The token decides: the middleware does not read the account.
May(p) == pc[p] = "idle" /\ token[p] # Nil
MayAdmin(p) == May(p) /\ token[p].role = "admin"

(***************************************************************************)
(* Accounts and roles.                                                     *)
(***************************************************************************)

Login(p, u) ==
  /\ pc[p] = "idle"
  /\ role[u] # Nil
  /\ token' = [token EXCEPT ![p] = [u |-> u, role |-> role[u]]]
  /\ UNCHANGED <<role, quota, born, reqs, filed, pc, loc, granted, again>>

Created(u, r, q) ==
  /\ u \notin born
  /\ born' = born \cup {u}
  /\ role' = [role EXCEPT ![u] = r]
  /\ quota' = [quota EXCEPT ![u] = [e \in Env |-> IF e = Local THEN q ELSE Nil]]

CreateUser(p, u, r, q) ==
  /\ MayAdmin(p)
  /\ Created(u, r, q)
  /\ UNCHANGED <<reqs, filed, token, pc, loc, granted, again>>

\* The last admin is refused to be demoted; a promotion needs no check.
SetUserRole(p, u, r) ==
  /\ MayAdmin(p)
  /\ u \in born
  /\ Step(p, [NoLocal EXCEPT !.u = u, !.role = r],
          IF r = "member" THEN "get" ELSE "setrole", {})
  /\ UNCHANGED <<role, quota, born, reqs, filed, token, granted, again>>

Unchecked(p) == Faulty /\ Step(p, [loc[p] EXCEPT !.late = TRUE], "setrole", {})

\* GetUserByID; only an admin has to be counted.  Errors are ignored.
GetUser(p) ==
  /\ pc[p] = "get"
  /\ \/ Goto(p, IF role[loc[p].u] = "admin" THEN "count" ELSE "setrole")
     \/ Unchecked(p)
  /\ UNCHANGED <<role, quota, born, reqs, filed, token, granted, again>>

\* Mutant: demoting is refused when there is no admin at all.
CountAdminsLess(p) ==
  /\ pc[p] = "count"
  /\ IF Cardinality(Admins) < 1 THEN Answer(p, {}) ELSE Goto(p, "setrole")
  /\ UNCHANGED <<role, quota, born, reqs, filed, token, granted, again>>

CountAdmins(p) ==
  /\ pc[p] = "count"
  /\ \/ IF Cardinality(Admins) <= 1 THEN Answer(p, {}) ELSE Goto(p, "setrole")
     \/ Unchecked(p)
  /\ UNCHANGED <<role, quota, born, reqs, filed, token, granted, again>>

\* Who counts the admins while one of them goes, and who demotes u, which was no
\* admin, while it becomes one.
Miscounting(u) == IF u \in Admins THEN Counting ELSE {}
Overtaken(u) ==
  {p \in Session : u \notin Admins /\ pc[p] = "setrole" /\ loc[p].u = u}

SetRole(p) ==
  LET u == loc[p].u IN
  /\ pc[p] = "setrole"
  /\ role' = IF u \in Users THEN [role EXCEPT ![u] = loc[p].role] ELSE role
  /\ Answer(p, IF loc[p].role = "member" THEN Miscounting(u) ELSE Overtaken(u))
  /\ UNCHANGED <<quota, born, reqs, filed, token, granted, again>>

\* Anybody's account but one's own; grants and requests go with it.
DeleteUser(p, u) ==
  /\ MayAdmin(p)
  /\ u # token[p].u
  /\ u \in Users
  /\ role' = [role EXCEPT ![u] = Nil]
  /\ quota' = [quota EXCEPT ![u] = [e \in Env |-> Nil]]
  /\ reqs' = [id \in Req |-> IF reqs[id] # Nil /\ reqs[id].u = u THEN Nil ELSE reqs[id]]
  /\ Step(p, NoLocal, "idle", Miscounting(u) \cup UNION {Granting(u, e) : e \in Env})
  /\ UNCHANGED <<born, filed, token, granted, again>>

(***************************************************************************)
(* Quotas.                                                                 *)
(***************************************************************************)

UpdateUserQuota(p, u, q) ==
  /\ MayAdmin(p)
  /\ u \in Users
  /\ quota' = [quota EXCEPT ![u][Local] = q]
  /\ Step(p, NoLocal, "idle", Granting(u, Local))
  /\ UNCHANGED <<role, born, reqs, filed, token, granted, again>>

\* Replace the grants on the other environments, in one transaction.
SetUserEnvironments(p, u, envs, q) ==
  /\ MayAdmin(p)
  /\ u \in Users
  /\ envs \subseteq Env \ {Local}
  /\ quota' = [quota EXCEPT ![u] =
        [e \in Env |-> IF e = Local THEN @[e] ELSE IF e \in envs THEN q ELSE Nil]]
  /\ Step(p, NoLocal, "idle", UNION {Granting(u, e) : e \in Env \ {Local}})
  /\ UNCHANGED <<role, born, reqs, filed, token, granted, again>>

\* A member asks for quota where it has access.
CreateRequest(p, e, want) ==
  LET u == token[p].u IN
  /\ May(p)
  /\ want # NoQuota
  /\ e = Local \/ token[p].role = "admin" \/ quota[u][e] # Nil
  /\ Step(p, [NoLocal EXCEPT !.u = u, !.e = e, !.ask = want], "insert", {})
  /\ UNCHANGED <<role, quota, born, reqs, filed, token, granted, again>>

\* The account has to exist.
Insert(p) ==
  LET l == loc[p] IN
  /\ pc[p] = "insert"
  /\ \/ /\ l.u \in Users
        /\ \E id \in Req \ filed :
             /\ filed' = filed \cup {id}
             /\ reqs' = [reqs EXCEPT ![id] = [u |-> l.u, e |-> l.e, want |-> l.ask,
                                              status |-> "pending"]]
     \/ (l.u \notin Users \/ filed = Req) /\ UNCHANGED <<reqs, filed>>
  /\ Answer(p, {})
  /\ UNCHANGED <<role, quota, born, token, granted, again>>

-----------------------------------------------------------------------------
(***************************************************************************)
(* The review of a request.                                                *)
(***************************************************************************)

\* An admin's amount, else the requested one; 0 stands for neither.
Asked(over, want) == [d \in Dim |-> IF over[d] > 0 THEN over[d] ELSE want[d]]

\* Mutant: an approval adds to what the account has.
PickAdds(ask, cur) == [d \in Dim |-> ask[d] + cur[d]]
\* Mutant: what nobody asked for becomes 0.
PickAsked(ask, cur) == ask
\* ... else what the account has now.
Pick(ask, cur) == [d \in Dim |-> IF ask[d] > 0 THEN ask[d] ELSE cur[d]]

\* GetRequest; nothing asks whether the request is still pending.
Review(p, id, at, over) ==
  LET r == reqs[id] IN
  /\ MayAdmin(p)
  /\ r # Nil
  /\ Step(p, IF at = "reject" THEN [NoLocal EXCEPT !.id = id]
             ELSE [NoLocal EXCEPT !.id = id, !.u = r.u, !.e = r.e,
                                  !.ask = Asked(over, r.want)], at, {})
  /\ again' = IF r.status # "pending" \/ \E q \in Session : pc[q] \in Reviewing /\ loc[q].id = id
              THEN again \cup {id} ELSE again
  /\ UNCHANGED <<role, quota, born, reqs, filed, token, granted>>

Approve(p, id, over) == Review(p, id, "current", over)
Reject(p, id) == Review(p, id, "reject", NoQuota)

\* The quota there is, or none; an error counts as none.
Current(p) ==
  LET l == loc[p]
      cur == IF quota[l.u][l.e] = Nil THEN NoQuota ELSE quota[l.u][l.e]
  IN
  /\ pc[p] = "current"
  /\ \/ Step(p, [l EXCEPT !.grant = Pick(l.ask, cur)], "grant", {})
     \/ Faulty /\ Step(p, [l EXCEPT !.grant = l.ask, !.late = TRUE], "grant", {})
  /\ UNCHANGED <<role, quota, born, reqs, filed, token, granted, again>>

\* UpdateUserQuota, or GrantUserEndpointQuota, which also grants access.
Granted(l) ==
  /\ quota' = IF l.u \in Users THEN [quota EXCEPT ![l.u][l.e] = l.grant] ELSE quota
  /\ granted' = granted \cup {l.id}

\* Mutant: the error of the grant is ignored.
GrantIgnored(p) ==
  LET l == loc[p] IN
  /\ pc[p] = "grant"
  /\ \/ Granted(l)
     \/ Faulty /\ UNCHANGED <<quota, granted>>
  /\ Step(p, [NoLocal EXCEPT !.id = l.id], "approve", Granting(l.u, l.e))
  /\ UNCHANGED <<role, born, reqs, filed, token, again>>

\* A grant for an account that is gone changes nothing; on another environment
\* it is an error.
Grant(p) ==
  LET l == loc[p] IN
  /\ pc[p] = "grant"
  /\ \/ /\ l.u \in Users \/ l.e = Local
        /\ Granted(l)
        /\ Step(p, [NoLocal EXCEPT !.id = l.id], "approve", Granting(l.u, l.e))
     \/ /\ l.u \notin Users /\ l.e # Local
        /\ Answer(p, {})
        /\ UNCHANGED <<quota, granted>>
  /\ UNCHANGED <<role, born, reqs, filed, token, again>>

Marked(id, status) ==
  reqs' = IF reqs[id] = Nil THEN reqs ELSE [reqs EXCEPT ![id].status = status]

MarkApproved(p) ==
  /\ pc[p] = "approve"
  /\ Marked(loc[p].id, "approved")
  /\ Answer(p, {})
  /\ UNCHANGED <<role, quota, born, filed, token, granted, again>>

\* Mutant: a rejection does not return.
MarkRejectedGoesOn(p) ==
  /\ pc[p] = "reject"
  /\ Marked(loc[p].id, "rejected")
  /\ Step(p, [NoLocal EXCEPT !.id = loc[p].id, !.u = reqs[loc[p].id].u,
                             !.e = reqs[loc[p].id].e], "current", {})
  /\ UNCHANGED <<role, quota, born, filed, token, granted, again>>

MarkRejected(p) ==
  /\ pc[p] = "reject"
  /\ Marked(loc[p].id, "rejected")
  /\ Answer(p, {})
  /\ UNCHANGED <<role, quota, born, filed, token, granted, again>>

-----------------------------------------------------------------------------

\* A call fails and the request with it; a grant may have been committed.  What
\* a review granted stays, under a request that was not marked.
Fault(p) ==
  LET l == loc[p] IN
  /\ Faulty
  /\ pc[p] # "idle"
  /\ \/ Answer(p, {}) /\ UNCHANGED <<quota, granted>>
     \/ /\ pc[p] = "grant"
        /\ l.u \in Users
        /\ Granted(l)
        /\ Answer(p, Granting(l.u, l.e))
  /\ again' = IF pc[p] \in {"grant", "approve"} THEN again \cup {l.id} ELSE again
  /\ UNCHANGED <<role, born, reqs, filed, token>>

\* A start on a store without users creates the first admin.
Bootstrap(u) ==
  /\ Users = {}
  /\ \A p \in Session : pc[p] = "idle"
  /\ Created(u, "admin", NoQuota)
  /\ UNCHANGED <<reqs, filed, token, pc, loc, granted, again>>

Init ==
  /\ role = [u \in Account |-> Nil]
  /\ quota = [u \in Account |-> [e \in Env |-> Nil]]
  /\ born = {}
  /\ reqs = [id \in Req |-> Nil]
  /\ filed = {}
  /\ token = [p \in Session |-> Nil]
  /\ pc = [p \in Session |-> "idle"]
  /\ loc = [p \in Session |-> NoLocal]
  /\ granted = {}
  /\ again = {}

Send(p) ==
  \/ \E u \in Account :
       \/ Login(p, u) \/ DeleteUser(p, u)
       \/ \E r \in Role : SetUserRole(p, u, r) \/ \E q \in Bodies : CreateUser(p, u, r, q)
       \/ \E q \in Bodies : \/ UpdateUserQuota(p, u, q)
                            \/ \E envs \in SUBSET Env : SetUserEnvironments(p, u, envs, q)
  \/ \E e \in Env, want \in Wants : CreateRequest(p, e, want)
  \/ \E id \in Req : Reject(p, id) \/ \E over \in Wants \cup {NoQuota} : Approve(p, id, over)

Call(p) ==
  \/ GetUser(p) \/ CountAdmins(p) \/ SetRole(p) \/ Insert(p)
  \/ Current(p) \/ Grant(p) \/ MarkApproved(p) \/ MarkRejected(p)

Next ==
  \/ \E p \in Session : Send(p) \/ Call(p) \/ Fault(p)
  \/ \E u \in Account : Bootstrap(u)

Spec == Init /\ [][Next]_vars

-----------------------------------------------------------------------------
(***************************************************************************)
(* Properties.                                                             *)
(***************************************************************************)

\* The last admin goes only by a demotion whose count was overtaken by another
\* request (or whose check failed), or is deleted by a session whose own account
\* is an admin's no more (handlers_users.go: handleSetUserRole counts the admins,
\* handleDeleteUser refuses one's own account).
LastAdminStays ==
  [][Admins # {} /\ Admins' = {} =>
       \/ \E p \in Session : pc[p] = "setrole" /\ pc'[p] = "idle" /\ loc[p].late
       \/ \E p \in Session, u \in Admins : DeleteUser(p, u) /\ token[p].u \notin Admins]_vars

\* A review leaves every dimension alone that neither the request nor the admin
\* named, unless the quota was changed between its read and its write, or could
\* not be read (handlers_users.go: "so approving a storage-only request keeps
\* their CPU/RAM intact").
KeptIntact ==
  [][\A p \in Session :
       pc[p] = "grant" /\ pc'[p] # "grant" /\ ~loc[p].late =>
         LET old == quota[loc[p].u][loc[p].e]
             new == quota'[loc[p].u][loc[p].e]
         IN  new # old => \A d \in Dim : loc[p].ask[d] = 0 =>
                            new[d] = IF old = Nil THEN 0 ELSE old[d]]_vars

\* A request that says approved has had its quota granted, whatever failed in
\* between (handlers_users.go: the grant comes first and its error ends the
\* review).
ApprovedWasGranted ==
  \A id \in Req : reqs[id] # Nil /\ reqs[id].status = "approved" => id \in granted

\* A request that says rejected has granted nothing, unless it was decided more
\* than once or its approval failed half-way (handlers_users.go: a rejection
\* returns before any quota is written).
RejectedGrantsNothing ==
  \A id \in Req :
    reqs[id] # Nil /\ reqs[id].status = "rejected" => id \notin granted \/ id \in again
=============================================================================
