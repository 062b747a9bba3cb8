--------------------------- MODULE ServiceManager ---------------------------
(***************************************************************************)
(* The service manager (internal/service) with the calls it makes on the   *)
(* store, on the Docker daemon and on the proxy registry.                  *)
(*                                                                         *)
(* Every request runs in a goroutine of its own, the autoscaler in another *)
(* one, and main reconciles every service before it serves.  A step of     *)
(* this specification is one call on the store, on Docker or on the        *)
(* registry; what a goroutine computes between two calls belongs to the    *)
(* earlier one.  Manager.mu is held by Update and Redeploy only, for the   *)
(* whole call; Registry.mu by Sync.                                        *)
(***************************************************************************)
EXTENDS Integers, FiniteSets

CONSTANTS
  Proc,         \* the goroutines: requests, and Main
  Main,         \* SyncAll at start-up, then the autoscaler's loop
  Service,      \* service names
  Image,        \* image references
  Subdomain,    \* custom subdomains, "" included
  MaxReplicas,  \* bound on a replica count
  CID,          \* container ids
  SvcId,        \* row ids of the services table
  Nil,          \* no row, no snapshot, an unlocked mutex
  Requests,     \* the bodies of create and update requests
  Ops,          \* the operations that clients and the autoscaler call
  Faulty,       \* may store and Docker calls fail, and containers exit?
  MaxCrashes    \* bound on the crashes of the server

Count == 0..MaxReplicas
Index == 0..(MaxReplicas - 1)

\* What a request chooses of a service: the columns UpdateService writes.
Config == [replicas: Count, min: Count, max: Count, auto: BOOLEAN,
           port: BOOLEAN, image: Image, sub: Subdomain]

Row == [id: SvcId, cfg: Config]
Container == [s: Service, i: Index, id: CID, image: Image, up: BOOLEAN]
Listed == [i: Index, id: CID, up: BOOLEAN]   \* what a goroutine keeps of one
Entry == [s: Service, row: Row]       \* an element of ListServices' result
Route == [s: Service, sub: Subdomain, hosts: Count]

Rolling == {"update", "redeploy"}
Starting == {"boot", "resync"}
ClientOps == Rolling \cup {"create", "scale", "subdomain", "delete"}

ASSUME ConstantsAssumption ==
  /\ Main \in Proc
  /\ MaxReplicas \in Nat \ {0}
  /\ Requests \subseteq Config
  /\ SvcId # {}
  /\ Ops \subseteq ClientOps \cup {"autoscale"}
  /\ Faulty \in BOOLEAN
  /\ MaxCrashes \in Nat
  /\ Nil \notin Proc \cup Service \cup SvcId \cup Row

VARIABLES
  rows,     \* the services table, by name
  cont,     \* the service containers on the Docker host
  snap,     \* the service routes of the published Envoy snapshot
  mu,       \* who holds Manager.mu
  rmu,      \* who holds Registry.mu
  pc,       \* the call each goroutine makes next
  loc,      \* the local variables of each goroutine
  owed,     \* history: a writer failed and no Sync has read the rows since
  crashes   \* how often the server crashed

vars == <<rows, cont, snap, mu, rmu, pc, loc, owed, crashes>>

Local == [op: ClientOps \cup Starting \cup {"none"},
          s: Service \cup {Nil}, id: SvcId \cup {Nil}, cfg: Config \cup {Nil},
          seen: SUBSET Listed,       \* its containers listed or created so far
          todo: SUBSET Entry,        \* services a loop has still to visit
          view: SUBSET Route]        \* what publish read under Registry.mu

NoLocal == [op |-> "none", s |-> Nil, id |-> Nil, cfg |-> Nil,
            seen |-> {}, todo |-> {}, view |-> {}]

Calls == {"idle", "write", "list", "start", "kill", "deploy", "startnew",
          "trim", "drop", "sync", "push", "boot", "sample", "get"}

TypeOK ==
  /\ rows \in [Service -> Row \cup {Nil}]
  /\ cont \subseteq Container
  /\ snap \in (SUBSET Route) \cup {Nil}
  /\ mu \in Proc \cup {Nil}
  /\ rmu \in Proc \cup {Nil}
  /\ pc \in [Proc -> Calls]
  /\ loc \in [Proc -> Local]
  /\ owed \in BOOLEAN
  /\ crashes \in 0..MaxCrashes

-----------------------------------------------------------------------------
(***************************************************************************)
(* What the goroutines compute.                                            *)
(***************************************************************************)

\* Mutant: a negative count is not clamped.
AtLeastNegative(n, lo) == n
AtLeast(n, lo) == IF n < lo THEN lo ELSE n
Clamp(n, lo, hi) == IF n < lo THEN lo ELSE IF n > hi THEN hi ELSE n

\* The defaults and clamps both handlers apply to a request body.
Normal(req) ==
  LET r  == AtLeast(req.replicas, 1)
      lo == AtLeast(req.min, 1)
  IN  [req EXCEPT !.replicas = r, !.min = lo,
                  !.max = AtLeast(AtLeast(req.max, r), lo)]

Live == {s \in Service : rows[s] # Nil}
ListServices == {[s |-> s, row |-> rows[s]] : s \in Live}

\* A route per service with a port and a replica; its hosts are the desired
\* replica names, running or not, so their number says which they are.
Upstreams ==
  {[s |-> s, sub |-> rows[s].cfg.sub, hosts |-> rows[s].cfg.replicas] :
     s \in {t \in Live : rows[t].cfg.port /\ rows[t].cfg.replicas > 0}}

\* Docker and PostgreSQL give what they create an id nobody has seen.  An id is
\* only compared with ids under the same name, and one that no row, container
\* or goroutine holds any more may be used again.
FreshCids(s, i) ==
  CID \ ({c.id : c \in {d \in cont : d.s = s /\ d.i = i}}
           \cup UNION {{c.id : c \in {d \in loc[p].seen : d.i = i}} : p \in Proc})
FreshRowIds == SvcId \ ({rows[s].id : s \in Live} \cup {loc[p].id : p \in Proc})
FreshRowId == CHOOSE id \in FreshRowIds : TRUE

\* The container that goroutine p knows as k; the id tells it from a later
\* container of the same name.
Is(c, p, k) == c.s = loc[p].s /\ c.i = k.i /\ c.id = k.id

\* Replicas a goroutine has still to create, listed containers it has still
\* to start, and listed containers beyond the wanted count.  (Delete wants 0.)
Missing(l)  == {i \in Index : i < l.cfg.replicas /\ \A c \in l.seen : c.i # i}
Down(l)     == {c \in l.seen : ~c.up}
Tried(l, k) == [l EXCEPT !.seen = (@ \ {k}) \cup {[k EXCEPT !.up = TRUE]}]
\* Mutant: the container at the wanted count itself is kept.
LeftoverOffByOne(l) == {c \in l.seen : c.i > l.cfg.replicas}
Leftover(l) == {c \in l.seen : c.i >= l.cfg.replicas}
NextIndex(l)    == CHOOSE i \in Missing(l) : \A j \in Missing(l) : i <= j

\* The call that follows each phase of an operation.
AfterTrim(l) ==
  CASE Leftover(l) # {}                       -> "trim"
    [] Leftover(l) = {} /\ l.op = "delete"    -> "drop"
    [] Leftover(l) = {} /\ l.op = "boot"      -> "boot"
    [] OTHER                                  -> "sync"
AfterDeploy(l) ==
  CASE Missing(l) # {} /\ l.op \in Rolling    -> "kill"
    [] Missing(l) # {} /\ l.op \notin Rolling -> "deploy"
    [] Missing(l) = {} /\ l.op = "update"     -> "list"
    [] Missing(l) = {} /\ l.op = "redeploy"   -> "sync"
    [] OTHER                                  -> AfterTrim(l)
\* Mutant: a listed container that does not run is left as it is.
AfterStartSkipped(l) == AfterDeploy(l)
AfterStart(l) == IF Down(l) # {} THEN "start" ELSE AfterDeploy(l)
AfterList(l)  == IF l.op \in {"update", "delete"} THEN AfterTrim(l)
                                                  ELSE AfterStart(l)
AfterWrite(l) ==
  CASE l.op = "subdomain" -> "sync"
    [] l.op = "scale"     -> "list"
    [] OTHER              -> AfterDeploy(l)

\* The columns each UPDATE statement sets; it finds its row by id.
Assign(op, old, new) ==
  CASE op = "update"    -> new
    [] op = "scale"     -> [old EXCEPT !.replicas = new.replicas]
    [] op = "redeploy"  -> [old EXCEPT !.image = new.image]
    [] op = "subdomain" -> [old EXCEPT !.sub = new.sub]
Written(l) ==
  [s \in Service |->
     IF s = l.s /\ rows[s] # Nil /\ rows[s].id = l.id
     THEN [rows[s] EXCEPT !.cfg = Assign(l.op, @, l.cfg)] ELSE rows[s]]
Dropped(l) == [s \in Service |-> IF s = l.s /\ rows[s] # Nil /\ rows[s].id = l.id
                                 THEN Nil ELSE rows[s]]

\* A goroutine with locals l that is about to make the call `at` changed the
\* rows (or, starting, found no snapshot) and has not yet called Sync.
DirtyAt(l, at) ==
  \/ l.op \in Starting /\ at # "push"
  \/ l.op \in ClientOps \ {"delete"} /\ at \notin {"write", "push"}
  \/ l.op = "delete" /\ at = "sync"
Dirty(p) == DirtyAt(loc[p], pc[p])

-----------------------------------------------------------------------------
(***************************************************************************)
(* Beginning and ending an operation.                                      *)
(***************************************************************************)

Booting == loc[Main].op \in Starting
May(p, op) == op \in Ops /\ p # Main /\ pc[p] = "idle" /\ ~Booting

\* p goes on with the call `at` and locals l, of which Sync needs none.
Step(p, l, at) ==
  /\ loc' = [loc EXCEPT ![p] =
        IF at = "sync" THEN [NoLocal EXCEPT !.op = l.op, !.todo = l.todo] ELSE l]
  /\ pc'  = [pc EXCEPT ![p] = at]

\* p calls op on service s, whose row it read or created as [id, cfg].
Begin(p, op, s, row, at) ==
  LET l == [NoLocal EXCEPT !.op = op, !.s = s, !.id = row.id, !.cfg = row.cfg,
                           !.todo = loc[p].todo]
  IN  Step(p, l, at)

\* What follows the end, or the failure, of an operation.
Done(p) ==
  LET rest == [NoLocal EXCEPT !.todo = loc[p].todo] IN
  /\ CASE loc[p].op = "boot" -> Step(p, [NoLocal EXCEPT !.op = "resync"], "sync")
       [] loc[p].op # "boot" /\ rest.todo # {} -> Step(p, rest, "sample")
       [] OTHER -> Step(p, NoLocal, "idle")
  /\ mu'  = IF mu = p THEN Nil ELSE mu
  /\ rmu' = IF rmu = p THEN Nil ELSE rmu

\* The operation returns an error: what it did stays done, and there is no
\* Sync.  `wrote` says that the failing call itself changed the rows.
Abort(p, wrote) ==
  /\ Done(p)
  /\ owed' = (owed \/ Dirty(p) \/ pc[p] = "push" \/ wrote)
  /\ UNCHANGED <<snap, crashes>>

Create(p, s, req) ==
  /\ May(p, "create")
  /\ rows[s] = Nil                    \* else the INSERT fails: name is UNIQUE
  /\ FreshRowIds # {}
  /\ LET row == [id |-> FreshRowId, cfg |-> Normal(req)] IN
       /\ rows' = [rows EXCEPT ![s] = row]
       /\ Begin(p, "create", s, row, "list")
  /\ UNCHANGED <<cont, snap, mu, rmu, owed, crashes>>

\* The first call of the others reads the row; a missing row is an error that
\* changes nothing.
Scale(p, s, n) ==
  /\ \/ May(p, "scale")
     \/ pc[p] = "get" /\ s = loc[p].s /\ n = loc[p].cfg.replicas
  /\ rows[s] # Nil
  /\ Begin(p, "scale", s, [rows[s] EXCEPT !.cfg.replicas = AtLeast(n, 0)], "write")
  /\ UNCHANGED <<rows, cont, snap, mu, rmu, owed, crashes>>

SetSubdomain(p, s, sub) ==
  /\ May(p, "subdomain")
  /\ rows[s] # Nil
  /\ Begin(p, "subdomain", s, [rows[s] EXCEPT !.cfg.sub = sub], "write")
  /\ UNCHANGED <<rows, cont, snap, mu, rmu, owed, crashes>>

Delete(p, s) ==
  /\ May(p, "delete")
  /\ rows[s] # Nil
  /\ Begin(p, "delete", s, [rows[s] EXCEPT !.cfg.replicas = 0], "list")
  /\ UNCHANGED <<rows, cont, snap, mu, rmu, owed, crashes>>

\* Update and Redeploy lock Manager.mu and then read the row.
Update(p, s, req) ==
  /\ May(p, "update")
  /\ mu = Nil
  /\ rows[s] # Nil
  /\ mu' = p
  /\ Begin(p, "update", s, [rows[s] EXCEPT !.cfg = Normal(req)], "write")
  /\ UNCHANGED <<rows, cont, snap, rmu, owed, crashes>>

\* Mutant: Redeploy does not lock Manager.mu.
RedeployUnlocked(p, s, image) ==
  /\ May(p, "redeploy")
  /\ rows[s] # Nil
  /\ Begin(p, "redeploy", s,
           [rows[s] EXCEPT !.cfg.image = IF image = "" THEN @ ELSE image], "write")
  /\ UNCHANGED <<rows, cont, snap, mu, rmu, owed, crashes>>

\* No new image: the current one is pulled again.
Redeploy(p, s, image) ==
  /\ May(p, "redeploy")
  /\ mu = Nil
  /\ rows[s] # Nil
  /\ mu' = p
  /\ Begin(p, "redeploy", s,
           [rows[s] EXCEPT !.cfg.image = IF image = "" THEN @ ELSE image], "write")
  /\ UNCHANGED <<rows, cont, snap, rmu, owed, crashes>>

-----------------------------------------------------------------------------
(***************************************************************************)
(* The calls of an operation.                                              *)
(***************************************************************************)

Write(p) ==
  /\ pc[p] = "write"
  /\ rows' = Written(loc[p])
  /\ Step(p, loc[p], AfterWrite(loc[p]))
  /\ UNCHANGED <<cont, snap, mu, rmu, owed, crashes>>

List(p) ==
  LET l == [loc[p] EXCEPT !.seen = {[i |-> c.i, id |-> c.id, up |-> c.up] :
                                      c \in {d \in cont : d.s = loc[p].s}}] IN
  /\ pc[p] = "list"
  /\ Step(p, l, AfterList(l))
  /\ UNCHANGED <<rows, cont, snap, mu, rmu, owed, crashes>>

\* Start a listed container that was not running; a failure is ignored.
Start(p) ==
  /\ pc[p] = "start"
  /\ \E k \in Down(loc[p]) :
       LET l == Tried(loc[p], k) IN
       /\ \/ cont' = {IF Is(c, p, k) THEN [c EXCEPT !.up = TRUE] ELSE c : c \in cont}
          \/ Faulty /\ cont' = cont
       /\ Step(p, l, AfterStart(l))
  /\ UNCHANGED <<rows, snap, mu, rmu, owed, crashes>>

\* A rolling operation removes the replica it is about to recreate, by name.
Kill(p) ==
  LET l == loc[p] IN
  /\ pc[p] = "kill"
  /\ \/ cont' = {c \in cont : c.s # l.s \/ c.i # NextIndex(l)}
     \/ Faulty /\ cont' = cont
  /\ Step(p, l, "deploy")
  /\ UNCHANGED <<rows, snap, mu, rmu, owed, crashes>>

NameTaken(l) == \E c \in cont : c.s = l.s /\ c.i = NextIndex(l)

\* ContainerCreate; container names are unique on a Docker host.
Deploy(p) ==
  LET l == loc[p]
      i == NextIndex(l)
      id == CHOOSE x \in FreshCids(l.s, i) : TRUE
  IN
  /\ pc[p] = "deploy"
  /\ ~NameTaken(l)
  /\ FreshCids(l.s, i) # {}
  /\ cont' = cont \cup {[s |-> l.s, i |-> i, id |-> id,
                         image |-> l.cfg.image, up |-> FALSE]}
  /\ Step(p, [l EXCEPT !.seen = @ \cup {[i |-> i, id |-> id, up |-> FALSE]}],
          "startnew")
  /\ UNCHANGED <<rows, snap, mu, rmu, owed, crashes>>

NameConflict(p) ==
  /\ pc[p] = "deploy"
  /\ NameTaken(loc[p])
  /\ Abort(p, FALSE)
  /\ UNCHANGED <<rows, cont>>

\* ContainerStart of the container just created.
StartNew(p) ==
  /\ pc[p] = "startnew"
  /\ \E c \in cont, k \in Down(loc[p]) :
       /\ Is(c, p, k)
       /\ cont' = (cont \ {c}) \cup {[c EXCEPT !.up = TRUE]}
       /\ Step(p, Tried(loc[p], k), AfterDeploy(Tried(loc[p], k)))
  /\ UNCHANGED <<rows, snap, mu, rmu, owed, crashes>>

\* Another goroutine removed it in between.
StartVanished(p) ==
  /\ pc[p] = "startnew"
  /\ \A c \in cont, k \in Down(loc[p]) : ~Is(c, p, k)
  /\ Abort(p, FALSE)
  /\ UNCHANGED <<rows, cont>>

\* Remove a listed container, by id; a failure is ignored.
Trim(p) ==
  /\ pc[p] = "trim"
  /\ \E k \in Leftover(loc[p]) :
       LET l == [loc[p] EXCEPT !.seen = @ \ {k}] IN
       /\ \/ cont' = {c \in cont : ~Is(c, p, k)}
          \/ Faulty /\ cont' = cont
       /\ Step(p, l, AfterTrim(l))
  /\ UNCHANGED <<rows, snap, mu, rmu, owed, crashes>>

Drop(p) ==
  /\ pc[p] = "drop"
  /\ rows' = Dropped(loc[p])
  /\ Step(p, loc[p], "sync")
  /\ UNCHANGED <<cont, snap, mu, rmu, owed, crashes>>

Publishing(p) ==
  /\ rmu' = p
  /\ Step(p, [loc[p] EXCEPT !.view = Upstreams], "push")
  /\ owed' = FALSE
  /\ UNCHANGED <<rows, cont, snap, mu, crashes>>

\* Mutants: Sync does not lock Registry.mu; the manager's Upstreams, which Sync
\* calls, locks Manager.mu.
SyncReadUnlocked(p) == pc[p] = "sync" /\ Publishing(p)
SyncReadLocksBoth(p) == pc[p] = "sync" /\ rmu = Nil /\ mu = Nil /\ Publishing(p)

\* Registry.Sync: lock Registry.mu, read the services, publish, unlock.
SyncRead(p) ==
  /\ pc[p] = "sync"
  /\ rmu = Nil
  /\ Publishing(p)

SyncPush(p) ==
  /\ pc[p] = "push"
  /\ snap' = loc[p].view
  /\ Done(p)
  /\ UNCHANGED <<rows, cont, owed, crashes>>

-----------------------------------------------------------------------------
(***************************************************************************)
(* Main: SyncAll at start-up, a second Sync, then the autoscaler.          *)
(***************************************************************************)

\* Mutant: SyncAll syncs without reconciling.
BootSyncOnly ==
  /\ pc[Main] = "boot"
  /\ Step(Main, [NoLocal EXCEPT !.op = "boot"], "sync")
  /\ UNCHANGED <<rows, cont, snap, mu, rmu, owed, crashes>>

\* SyncAll reconciles the services one after the other and then syncs.
BootNext ==
  /\ pc[Main] = "boot"
  /\ \/ \E e \in loc[Main].todo :
          Step(Main, [NoLocal EXCEPT !.op = "boot", !.s = e.s, !.id = e.row.id,
                        !.cfg = e.row.cfg, !.todo = loc[Main].todo \ {e}], "list")
     \/ /\ loc[Main].todo = {}
        /\ Step(Main, [NoLocal EXCEPT !.op = "boot"], "sync")
  /\ UNCHANGED <<rows, cont, snap, mu, rmu, owed, crashes>>

\* The ticker fires.
Tick ==
  /\ "autoscale" \in Ops
  /\ pc[Main] = "idle"
  /\ \E e \in ListServices : e.row.cfg.auto
  /\ Step(Main, [NoLocal EXCEPT !.todo = {e \in ListServices : e.row.cfg.auto}],
          "sample")
  /\ UNCHANGED <<rows, cont, snap, mu, rmu, owed, crashes>>

\* Mutant: one step up or down, but no clamp.
DesiredUnclamped(n, cfg) ==
  {n} \cup (IF n < cfg.max THEN {n + 1} ELSE {})
      \cup (IF n > cfg.min THEN {n - 1} ELSE {})

\* The wanted replica count of a service with n running replicas.  The CPU
\* load decides between the counts; the row is the one the tick listed.
Desired(n, cfg) ==
  {Clamp(d, cfg.min, cfg.max) :
     d \in {n} \cup (IF n < cfg.max THEN {n + 1} ELSE {})
               \cup (IF n > cfg.min THEN {n - 1} ELSE {})}

Running(s) == {c \in cont : c.s = s /\ c.up}

\* Sample one service, which may fail; when another count is wanted, call Scale.
Sample ==
  /\ pc[Main] = "sample"
  /\ \E e \in loc[Main].todo :
       LET n    == Cardinality(Running(e.s))
           rest == [NoLocal EXCEPT !.todo = loc[Main].todo \ {e}]
       IN  \/ /\ Faulty \/ n = 0 \/ n \in Desired(n, e.row.cfg)
              /\ Step(Main, rest, IF rest.todo = {} THEN "idle" ELSE "sample")
           \/ /\ n > 0
              /\ \E d \in Desired(n, e.row.cfg) \ {n} :
                   Step(Main, [rest EXCEPT !.s = e.s,
                                 !.cfg = [e.row.cfg EXCEPT !.replicas = d]], "get")
  /\ UNCHANGED <<rows, cont, snap, mu, rmu, owed, crashes>>

\* Scale finds no row.
Gone ==
  /\ pc[Main] = "get"
  /\ rows[loc[Main].s] = Nil
  /\ Done(Main)
  /\ UNCHANGED <<rows, cont, snap, owed, crashes>>

-----------------------------------------------------------------------------
(***************************************************************************)
(* The environment: failing calls, exiting containers, crashes.            *)
(***************************************************************************)

\* A call whose error the code returns fails: without effect, or (a timeout)
\* after the database committed it.
Fault(p) ==
  /\ Faulty
  /\ \/ /\ pc[p] \in {"boot", "get", "write", "deploy", "startnew", "drop",
                      "sync", "push"}
        /\ Abort(p, FALSE)
        /\ UNCHANGED rows
     \/ /\ pc[p] = "list" /\ loc[p].op # "update"
        /\ Abort(p, FALSE)
        /\ UNCHANGED rows
     \/ /\ pc[p] = "write"
        /\ Abort(p, TRUE)
        /\ rows' = Written(loc[p])
     \/ /\ pc[p] = "drop"
        /\ Abort(p, TRUE)
        /\ rows' = Dropped(loc[p])
     \/ /\ pc[p] = "list" /\ loc[p].op = "update"     \* no trim, no error
        /\ Step(p, loc[p], "sync")
        /\ UNCHANGED <<rows, snap, mu, rmu, owed, crashes>>
  /\ UNCHANGED cont

\* A container exits, or Docker's restart policy brings it back.
Exit ==
  /\ Faulty
  /\ \E c \in cont : cont' = (cont \ {c}) \cup {[c EXCEPT !.up = ~@]}
  /\ UNCHANGED <<rows, snap, mu, rmu, pc, loc, owed, crashes>>

\* Everything in memory is lost; the database and the containers stay.
Crash ==
  /\ crashes < MaxCrashes
  /\ crashes' = crashes + 1
  /\ pc' = [p \in Proc |-> IF p = Main THEN "boot" ELSE "idle"]
  /\ loc' = [p \in Proc |-> IF p = Main
               THEN [NoLocal EXCEPT !.op = "boot", !.todo = ListServices]
               ELSE NoLocal]
  /\ mu' = Nil
  /\ rmu' = Nil
  /\ snap' = Nil
  /\ owed' = FALSE
  /\ UNCHANGED <<rows, cont>>

-----------------------------------------------------------------------------

\* The server starts on a database and a Docker host that an earlier run left:
\* the services it knows have yet to be created on this host.
Init ==
  /\ rows \in [Service -> {Nil} \cup {[id |-> CHOOSE id \in SvcId : TRUE,
                                      cfg |-> Normal(req)] : req \in Requests}]
  /\ cont = {}
  /\ snap = Nil
  /\ mu = Nil
  /\ rmu = Nil
  /\ pc = [p \in Proc |-> IF p = Main THEN "boot" ELSE "idle"]
  /\ loc = [p \in Proc |-> IF p = Main
              THEN [NoLocal EXCEPT !.op = "boot", !.todo = ListServices]
              ELSE NoLocal]
  /\ owed = FALSE
  /\ crashes = 0

Request(p) ==
  \E s \in Service :
    \/ \E req \in Requests : Create(p, s, req) \/ Update(p, s, req)
    \/ \E n \in -1..MaxReplicas : Scale(p, s, n)
    \/ \E sub \in Subdomain : SetSubdomain(p, s, sub)
    \/ \E image \in Image \cup {""} : Redeploy(p, s, image)
    \/ Delete(p, s)

\* The calls that wait for nobody.
Call(p) ==
  \/ Write(p) \/ List(p) \/ Start(p) \/ Kill(p)
  \/ Deploy(p) \/ NameConflict(p) \/ StartNew(p) \/ StartVanished(p)
  \/ Trim(p) \/ Drop(p) \/ SyncPush(p)

Background == BootNext \/ Tick \/ Sample \/ Gone

Next ==
  \/ \E p \in Proc : Request(p) \/ Call(p) \/ SyncRead(p) \/ Fault(p)
  \/ Background
  \/ Exit
  \/ Crash

Spec == Init /\ [][Next]_vars

\* Goroutines run, the ticker ticks, and Go's mutex starves no waiter.
Fairness ==
  /\ \A p \in Proc : WF_vars(Call(p)) /\ SF_vars(SyncRead(p))
  /\ WF_vars(Background)
  /\ WF_vars(pc[Main] = "get" /\ \E s \in Service, n \in Count : Scale(Main, s, n))

FairSpec == Spec /\ Fairness

-----------------------------------------------------------------------------
(***************************************************************************)
(* Properties.                                                             *)
(***************************************************************************)

Quiet == \A p \in Proc : pc[p] = "idle"
Replicas(s) == {c \in cont : c.s = s}
Wanted(s) == {i \in Index : rows[s] # Nil /\ i < rows[s].cfg.replicas}

\* When the snapshot Envoy has is not that of the rows, a goroutine that
\* changed the rows is on its way to Sync, a Sync that read these rows is
\* publishing them, or a failed writer left them to the next Sync.  So writers
\* that run side by side never leave Envoy on an older snapshot than the last
\* one read (registry.go: Sync holds mu across the read and the publish).
FreshOrOwed ==
  \/ snap = Upstreams
  \/ owed
  \/ \E p \in Proc : Dirty(p)
  \/ \E p \in Proc : pc[p] = "push" /\ loc[p].view = Upstreams

\* After any mix of concurrent Updates and Redeploys, a service has the wanted
\* replicas and no other, all running the image of its row (service.go:
\* Manager.mu keeps two rollouts from interleaving).
RolledOut ==
  Quiet => \A s \in Service :
    /\ {c.i : c \in Replicas(s)} = Wanted(s)
    /\ \A c \in Replicas(s) : c.up /\ c.image = rows[s].cfg.image

\* While a service is rolled, at most one of the replicas it keeps is down
\* (service.go: "one at a time (rolling)").  Replicas are created in order, so
\* one that is missing above all the others has yet to be created.
AtMostOneDown ==
  \A s \in Service :
    Cardinality({i \in Wanted(s) : /\ \A c \in Running(s) : c.i # i
                                   /\ \E c \in Replicas(s) : c.i > i}) <= 1

\* Without failing calls, a container always belongs to a service the store
\* knows, also in the middle of an operation and after a crash there: Create
\* inserts the row first and Delete removes it last.
Owned == \A c \in cont : rows[c.s] # Nil

\* Operations that run one after the other, a crash and a restart among them,
\* leave a service with the wanted replicas, each of them running.
Converged ==
  Quiet => \A s \in Service : /\ {c.i : c \in Replicas(s)} = Wanted(s)
                              /\ \A c \in Replicas(s) : c.up

\* A server that lost the snapshot in a crash brings every service of the
\* store up again and publishes its route (main.go: SyncAll, then Sync).
Recovers ==
  snap = Nil ~> /\ snap = Upstreams
                /\ \A s \in Service : {c.i : c \in Running(s)} = Wanted(s)

\* Every operation ends: no goroutine waits for ever for Registry.mu, which
\* Update and Redeploy lock while they hold Manager.mu.
Terminates == \A p \in Proc : pc[p] # "idle" ~> pc[p] = "idle"

\* The autoscaler brings a running service within the bounds of its row, from
\* whatever replica count it was created with, and keeps it there.
AutoSettles ==
  \A s \in Service :
    <>[](rows[s] # Nil /\ rows[s].cfg.auto =>
           Cardinality(Running(s)) \in rows[s].cfg.min..rows[s].cfg.max)

\* service.go: "Delete removes all replicas and the service record".
DeleteRemovesReplicas ==
  Quiet => \A c \in cont : rows[c.s] # Nil

\* What the holder of Registry.mu has read and has still to push, to the one
\* Envoy that this module looks at.
Envoy == "envoy"
InPush == IF rmu = Nil THEN {} ELSE {[node |-> Envoy, table |-> loc[rmu].view]}

Registry == INSTANCE Publication WITH
  Node <- {Envoy}, cur <- [n \in {Envoy} |-> Upstreams], live <- {Envoy},
  snap <- [n \in {Envoy} |-> snap], next <- InPush, moved <- FALSE

\* Whatever operations run side by side, fail or stop with the server, what they
\* do to the snapshot is what Publication allows: one publication at a time, each
\* of routes that were those of the rows when it read them (registry.go: Sync
\* holds mu across the read and the publish).
Publishes == Registry!Spec
=============================================================================
