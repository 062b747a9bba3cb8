---------------------------- MODULE ProxyRegistry ----------------------------
(***************************************************************************)
(* The proxy registry (internal/proxy) and the Envoy snapshots it          *)
(* publishes, one per environment (internal/xds).                          *)
(*                                                                         *)
(* Manual routes change under Registry.mu only, and the same critical      *)
(* section publishes them.  The service manager changes its services       *)
(* first and then calls Sync; environments are created, renamed and        *)
(* deleted without any publish.  A publish reads the environments, the     *)
(* services and the routes one after the other and then pushes one         *)
(* snapshot per node, in no particular order.                              *)
(***************************************************************************)
EXTENDS Naturals, Sequences, FiniteSets

CONSTANTS
  Proc,     \* the goroutines: requests, and Main
  Main,     \* the syncs at start-up
  Remote,   \* ids of remote environments
  Local,    \* the local environment, which always exists
  Name,     \* slugs of the environments' names
  Service,  \* service names
  Rank,     \* where a service name comes in the alphabetical order
  Sub,      \* custom subdomains: sequences of labels
  Target,   \* containers that manual routes lead to
  Nil,      \* no row, no snapshot, an unlocked mutex
  Faulty,   \* may store calls and pushes fail?
  MaxCrashes

Env == {Local} \cup Remote      \* the node of an environment has its name
NoSub == <<>>
LocalSlug == "local"

Unborn == "unborn"              \* ids are never reused
Deleted == "deleted"

ManualRoute == [env : Env, to : Target]
Upstream == [env : Env, sub : Sub \cup {NoSub}]

ASSUME ConstantsAssumption ==
  /\ Main \in Proc
  /\ Local \notin Remote
  /\ {Unborn, Deleted} \cap Name = {}
  /\ Rank \in [Service -> Nat]
  /\ \A s, t \in Service : Rank[s] = Rank[t] => s = t
  /\ NoSub \notin Sub
  /\ Service \cap Target = {}
  /\ Nil \notin Proc \cup ManualRoute \cup Upstream \cup Sub
  /\ Faulty \in BOOLEAN
  /\ MaxCrashes \in Nat

VARIABLES
  eps,      \* the name of each remote environment in the endpoints table
  svcs,     \* the services with a port and a replica, by name
  routes,   \* the routes table, by subdomain
  snap,     \* the routes in the snapshot of each node
  mu,       \* who holds Registry.mu
  pc,       \* what each goroutine does next
  loc,      \* the local variables of each goroutine
  owed,     \* history: a publish failed and none has succeeded in reading since
  moved,    \* history: an environment changed and no publish has read them since
  crashes

vars == <<eps, svcs, routes, snap, mu, pc, loc, owed, moved, crashes>>

Endpoints == [Remote -> Name \cup {Unborn, Deleted}]
View == [eps : Endpoints,
         svcs : [Service -> Upstream \cup {Nil}],
         routes : [Sub -> ManualRoute \cup {Nil}]]

\* What a goroutine does under Registry.mu: set or delete a route and publish,
\* or (no subdomain) publish only.
Job == [sub : Sub \cup {Nil}, to : ManualRoute \cup {Nil}]
SyncJob == [sub |-> Nil, to |-> Nil]

Host == (Service \X (Name \cup {LocalSlug})) \cup Sub
Entry == [host : Host, to : Service \cup Target]

Stored == [eps |-> eps, svcs |-> svcs, routes |-> routes]

\* The jobs of a request, the environments read and the tables to push.
Locals == [jobs : Seq(Job), view : Endpoints \cup {Nil},
           todo : SUBSET [node : Env, table : SUBSET Entry]]
NoLocal == [jobs |-> <<>>, view |-> Nil, todo |-> {}]

TypeOK ==
  /\ Stored \in View
  /\ snap \in [Env -> (SUBSET Entry) \cup {Nil}]
  /\ mu \in Proc \cup {Nil}
  /\ pc \in [Proc -> {"idle", "lock", "eps", "svcs", "push"}]
  /\ loc \in [Proc -> Locals]
  /\ owed \in BOOLEAN
  /\ moved \in BOOLEAN
  /\ crashes \in 0..MaxCrashes

-----------------------------------------------------------------------------
(***************************************************************************)
(* What publish computes from the rows v it read.                          *)
(***************************************************************************)

Live(v) == {s \in Service : v.svcs[s] # Nil}
Exists(v, e) == v.eps[e] \in Name

\* Mutant: an environment that is not listed has no slug of its own.
SlugOfRow(v, env) == IF env \in Remote THEN v.eps[env] ELSE LocalSlug
Slug(v, env) == IF env \in Remote /\ Exists(v, env) THEN v.eps[env] ELSE LocalSlug

\* Mutant: a custom subdomain replaces the automatic host.
DomainsCustomOnly(v, s) ==
  IF v.svcs[s].sub # NoSub THEN {v.svcs[s].sub}
                           ELSE {<<s, Slug(v, v.svcs[s].env)>>}

\* The automatic host and, beside it, the custom one.
Domains(v, s) ==
  {<<s, Slug(v, v.svcs[s].env)>>} \cup ({v.svcs[s].sub} \ {NoSub})

\* Services that claim host h on node n; makeRouteConfig gives it to the first.
Claims(v, n, h) == {s \in Live(v) : v.svcs[s].env = n /\ h \in Domains(v, s)}
First(S) == CHOOSE s \in S : \A t \in S : Rank[s] <= Rank[t]

\* Subdomains claimed by services, whatever their environment.
ServiceSubs(v) == {v.svcs[s].sub : s \in Live(v)} \ {NoSub}
\* Mutant: a service hides manual routes only where makeRouteConfig finds both.
ShownAll(v) == {sub \in Sub : v.routes[sub] # Nil}
\* The manual routes that are published.
Shown(v) == {sub \in Sub : v.routes[sub] # Nil /\ sub \notin ServiceSubs(v)}

\* The virtual hosts of node n: services first, then the manual routes.
Table(v, n) ==
  LET hosts == UNION {Domains(v, s) : s \in {t \in Live(v) : v.svcs[t].env = n}}
      shown == {sub \in Shown(v) : v.routes[sub].env = n}
  IN  {[host |-> h, to |-> First(Claims(v, n, h))] : h \in hosts}
        \cup {[host |-> sub, to |-> v.routes[sub].to] : sub \in shown \ hosts}

\* The nodes a publish pushes to.
Nodes(v) ==
  {Local} \cup {e \in Remote : Exists(v, e)}
    \cup {v.svcs[s].env : s \in Live(v)} \cup {v.routes[sub].env : sub \in Shown(v)}

\* The addresses the API shows for service s.
ServiceDomains(s) == Domains(Stored, s)

-----------------------------------------------------------------------------

Booting == pc[Main] # "idle"
Known == {Local} \cup {e \in Remote : eps[e] # Unborn}  \* clients were shown them
May(p) == p # Main /\ pc[p] = "idle" /\ ~Booting

Begin(p, jobs) ==
  /\ pc' = [pc EXCEPT ![p] = "lock"]
  /\ loc' = [loc EXCEPT ![p] = [NoLocal EXCEPT !.jobs = jobs]]

\* The job at hand is over, well or not; an edit ignores the error of its first.
Done(p) ==
  LET rest == Tail(loc[p].jobs) IN
  /\ mu' = IF mu = p THEN Nil ELSE mu
  /\ pc' = [pc EXCEPT ![p] = IF rest = <<>> THEN "idle" ELSE "lock"]
  /\ loc' = [loc EXCEPT ![p] = [NoLocal EXCEPT !.jobs = rest]]

(***************************************************************************)
(* Requests.                                                               *)
(***************************************************************************)

Upsert(p, sub, r) ==
  /\ May(p)
  /\ r.env \in Known
  /\ Begin(p, <<[sub |-> sub, to |-> r]>>)
  /\ UNCHANGED <<eps, svcs, routes, snap, mu, owed, moved, crashes>>

Delete(p, sub) ==
  /\ May(p)
  /\ Begin(p, <<[sub |-> sub, to |-> Nil]>>)
  /\ UNCHANGED <<eps, svcs, routes, snap, mu, owed, moved, crashes>>

\* A container of the local host is edited: the route of its old subdomain is
\* retired, then that of the new one set; either may be none.
EditContainer(p, old, new, t) ==
  LET retire == IF old \in {NoSub, new} THEN <<>> ELSE <<[sub |-> old, to |-> Nil]>>
      set == IF new = NoSub THEN <<>>
             ELSE <<[sub |-> new, to |-> [env |-> Local, to |-> t]]>>
  IN
  /\ May(p)
  /\ retire \o set # <<>>
  /\ Begin(p, retire \o set)
  /\ UNCHANGED <<eps, svcs, routes, snap, mu, owed, moved, crashes>>

\* The service manager creates, changes or drops a service, and calls Sync.
ChangeService(p, s, u) ==
  /\ May(p)
  /\ svcs[s] # u
  /\ u # Nil => /\ u.env \in Known
                /\ svcs[s] # Nil => svcs[s].env = u.env
  /\ svcs' = [svcs EXCEPT ![s] = u]
  /\ Begin(p, <<SyncJob>>)
  /\ UNCHANGED <<eps, routes, snap, mu, owed, moved, crashes>>

\* An edge Envoy was deployed on an environment's host.
DeployEdge(p) ==
  /\ May(p)
  /\ Begin(p, <<SyncJob>>)
  /\ UNCHANGED <<eps, svcs, routes, snap, mu, owed, moved, crashes>>

\* Environments are created, renamed and deleted without a publish.
ChangeEndpoint(e, name) ==
  /\ ~Booting
  /\ eps[e] # Deleted
  /\ eps[e] # name
  /\ eps[e] = Unborn => name \in Name
  /\ eps' = [eps EXCEPT ![e] = name]
  /\ moved' = TRUE
  /\ UNCHANGED <<svcs, routes, snap, mu, pc, loc, owed, crashes>>

(***************************************************************************)
(* The critical section of Upsert, Delete and Sync.                        *)
(***************************************************************************)

Locked(p) ==
  LET job == Head(loc[p].jobs) IN
  /\ pc[p] = "lock"
  /\ mu' = p
  /\ routes' = IF job = SyncJob THEN routes
                                ELSE [routes EXCEPT ![job.sub] = job.to]
  /\ pc' = [pc EXCEPT ![p] = "eps"]
  /\ UNCHANGED <<eps, svcs, snap, loc, owed, moved, crashes>>

\* Mutant: Registry.mu is not taken.
LockUnlocked(p) == Locked(p)

\* Lock Registry.mu and write the route.
Lock(p) == mu = Nil /\ Locked(p)

\* publish: ListEndpoints, then Upstreams, then ListRoutes (which only this
\* critical section could change).
ReadEndpoints(p) ==
  /\ pc[p] = "eps"
  /\ pc' = [pc EXCEPT ![p] = "svcs"]
  /\ loc' = [loc EXCEPT ![p].view = eps]
  /\ moved' = FALSE
  /\ UNCHANGED <<eps, svcs, routes, snap, mu, owed, crashes>>

ReadServices(p) ==
  LET v == [eps |-> loc[p].view, svcs |-> svcs, routes |-> routes] IN
  /\ pc[p] = "svcs"
  /\ pc' = [pc EXCEPT ![p] = "push"]
  /\ loc' = [loc EXCEPT ![p].view = Nil,
        ![p].todo = {[node |-> n, table |-> Table(v, n)] : n \in Nodes(v)}]
  /\ owed' = FALSE
  /\ UNCHANGED <<eps, svcs, routes, snap, mu, moved, crashes>>

\* Publish one node's snapshot; the last one ends the critical section.
Push(p) ==
  /\ pc[p] = "push"
  /\ \E u \in loc[p].todo :
       /\ snap' = [snap EXCEPT ![u.node] = u.table]
       /\ IF loc[p].todo = {u}
          THEN Done(p)
          ELSE loc' = [loc EXCEPT ![p].todo = @ \ {u}] /\ UNCHANGED <<mu, pc>>
  /\ UNCHANGED <<eps, svcs, routes, owed, moved, crashes>>

\* A call fails: the job is abandoned where it is.  A service manager's
\* operation may also fail before it calls Sync.
Fault(p) ==
  /\ Faulty
  /\ pc[p] # "idle"
  /\ pc[p] = "lock" => Head(loc[p].jobs) = SyncJob \/ mu = Nil
  /\ Done(p)
  /\ owed' = (owed \/ pc[p] # "lock" \/ Head(loc[p].jobs) = SyncJob)
  /\ UNCHANGED <<eps, svcs, routes, snap, moved, crashes>>

\* Snapshots and goroutines are lost.  Main syncs twice: SyncAll and its own.
Restarted(p) == IF p = Main THEN [NoLocal EXCEPT !.jobs = <<SyncJob, SyncJob>>]
                            ELSE NoLocal

Crash ==
  /\ crashes < MaxCrashes
  /\ crashes' = crashes + 1
  /\ snap' = [n \in Env |-> Nil]
  /\ mu' = Nil
  /\ pc' = [p \in Proc |-> IF p = Main THEN "lock" ELSE "idle"]
  /\ loc' = [p \in Proc |-> Restarted(p)]
  /\ owed' = FALSE
  /\ moved' = FALSE
  /\ UNCHANGED <<eps, svcs, routes>>

-----------------------------------------------------------------------------

\* The server starts on rows that earlier runs left; an empty database will do.
Init ==
  /\ eps = [e \in Remote |-> Unborn]
  /\ svcs = [s \in Service |-> Nil]
  /\ routes = [sub \in Sub |-> Nil]
  /\ snap = [n \in Env |-> Nil]
  /\ mu = Nil
  /\ pc = [p \in Proc |-> IF p = Main THEN "lock" ELSE "idle"]
  /\ loc = [p \in Proc |-> Restarted(p)]
  /\ owed = FALSE
  /\ moved = FALSE
  /\ crashes = 0

Request(p) ==
  \/ \E sub \in Sub, r \in ManualRoute : Upsert(p, sub, r)
  \/ \E sub \in Sub : Delete(p, sub)
  \/ \E old, new \in Sub \cup {NoSub}, t \in Target : EditContainer(p, old, new, t)
  \/ \E s \in Service, u \in Upstream \cup {Nil} : ChangeService(p, s, u)
  \/ DeployEdge(p)

Publish(p) == Lock(p) \/ ReadEndpoints(p) \/ ReadServices(p) \/ Push(p)

Next ==
  \/ \E p \in Proc : Request(p) \/ Publish(p) \/ Fault(p)
  \/ \E e \in Remote, name \in Name \cup {Deleted} : ChangeEndpoint(e, name)
  \/ Crash

Spec == Init /\ [][Next]_vars

-----------------------------------------------------------------------------
(***************************************************************************)
(* Properties.                                                             *)
(***************************************************************************)

\* p has yet to publish node n, and will publish what the rows say.
WillPublish(p, n) ==
  \/ pc[p] = "lock" /\ Head(loc[p].jobs) = SyncJob
  \/ pc[p] \in {"eps", "svcs"}
  \/ pc[p] = "push" /\ [node |-> n, table |-> Table(Stored, n)] \in loc[p].todo

\* The snapshot of every node that has an environment or an upstream is that of
\* the rows, unless a goroutine is about to publish it, a failed operation left
\* it to the next publish, or an environment changed since the last one: no two
\* writers, on whatever nodes, overwrite a newer table with an older one, and a
\* publish leaves no node out (registry.go: one critical section; an empty
\* snapshot clears a node whose last route was just deleted).
NodesFresh ==
  \A n \in Nodes(Stored) :
    snap[n] = Table(Stored, n) \/ owed \/ moved \/ \E p \in Proc : WillPublish(p, n)

\* No operation runs, and none failed since the last publish.
Quiet == ~owed /\ \A p \in Proc : pc[p] = "idle"

\* At rest, a custom subdomain that a service claims leads to a service on every
\* node, never to a container of a manual route (registry.go: "Services win over
\* a manual route that claims the same custom subdomain").
ServicesWin ==
  Quiet /\ ~moved =>
    \A n \in Nodes(Stored), e \in Entry :
      e \in snap[n] /\ e.host \in ServiceSubs(Stored) => e.to \in Service

Served(s) ==
  LET n == svcs[s].env
      auto == <<s, Slug(Stored, n)>>
      Leads(h, t) == [host |-> h, to |-> t] \in snap[n]
  IN
  /\ \E t \in Service : Leads(auto, t) /\ (t = s \/ svcs[t].sub = auto)
  /\ \A h \in ServiceDomains(s) : \E t \in Service : Leads(h, t)

\* At rest, when no environment changed since the last publish, every address
\* the API shows for a service is served on the node of its environment, also
\* when the environment is gone.  The automatic one leads to the service itself,
\* unless a service claims just that host as its custom subdomain: creating a
\* service checks no subdomain.
ShownAddressesServed == Quiet /\ ~moved => \A s \in Live(Stored) : Served(s)

\* What the holder of Registry.mu has read and has still to push.
InPush == IF mu = Nil THEN {} ELSE loc[mu].todo

Registry == INSTANCE Publication WITH
  Node <- Env, cur <- [n \in Env |-> Table(Stored, n)], live <- Nodes(Stored),
  next <- InPush

\* Publications of several nodes, with their reads and pushes one by one, failing
\* at any of them or stopped with the server, are what Publication allows: they do
\* not overlap, and each pushes to every node the table of the rows it read (of
\* one moment, unless an environment changed between the reads).
Publishes == Registry!Spec
=============================================================================
