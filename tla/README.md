# EasyDeploy in TLA+

Specifications of the EasyDeploy server (`src/server`), the TLC configurations
that check them on small instances, and theorems about them that TLAPS checks for
every value of the constants.

EasyDeploy is one Go process beside a PostgreSQL database, one Docker daemon per
host and one Envoy per host. Every HTTP request runs in a goroutine of its own;
`main` reconciles the services before it serves and then runs the autoscaler.
The database, the containers and the volumes survive a stop of the server. The
Envoy snapshots, the Docker clients, the tunnels and the helper cache live in its
memory only.

## 1. Inventory

| Component | Source | State | Operations |
|---|---|---|---|
| service manager | `internal/service`, `store/services.go`, `api/handlers_services.go` | services table, service containers, `Manager.mu` | Create, Scale, Update, Redeploy, SetSubdomain, Delete, SyncAll, RunAutoscaler |
| proxy registry | `internal/proxy/registry.go`, the routes of `store/store.go` | routes table, `Registry.mu` | Upsert, Delete, Sync, publish |
| xDS control plane | `internal/xds` | a snapshot and a version per node | Update, makeRouteConfig |
| volumes | `docker/volumes.go`, `store/volume_specs.go`, `api/handlers_manage.go` | Docker volumes, size budgets, helper containers and their cache, `volMu` | create, resize, remove, the file operations |
| endpoint client cache | `internal/endpoint`, `store/endpoints.go` | endpoints table, cache of Docker clients | ClientFor, Create, Update, Delete, Status |
| tunnel manager | `internal/tunnel` | tunnels table, running tunnels and their cancel functions | Start, Stop, serve, IsRunning |
| users, roles, quotas | `api/handlers_users.go`, `store/users.go` | users, per-environment quotas, requests | sign-up and quota requests, review, role change, delete, quota checks |
| container handlers | `api/handlers.go`, `docker/manage.go`, `docker/client.go` | users' containers | create, recreate, start, stop, remove |
| authentication, image registries, secrets | `internal/auth`, `internal/registry`, `internal/secret` | one row per credential | sign, verify, encrypt |
| build, exec, edge and remote hosts | `docker/build.go`, `exec.go`, `edge.go`, `remote.go` | none of the server's own | streams to and from remote daemons |
| web console | `web/src` | React state | views of the API |

### How they interact

- A service operation changes rows, then containers, then calls
  `Registry.Sync`. `Sync` locks `Registry.mu` and calls back into
  `Manager.Upstreams`, also while `Update` and `Redeploy` hold `Manager.mu`.
- `publish` reads the environments, the services and the routes, and pushes one
  snapshot per node through the xDS manager. Environments are created, renamed
  and deleted without a publish.
- The autoscaler lists the services, samples Docker and calls `Scale` beside
  whatever the requests do.
- A volume's budget is a row that the quota check reads; the volume itself is
  Docker's, and a helper container keeps it in use.
- The endpoint client cache gives every handler the Docker client of an
  environment; the tunnel manager makes connections to private daemons.

### What is hard, and what makes each component correct

| Component | Hard behaviour | Correct when |
|---|---|---|
| service manager | writers side by side; rolling replacement; failing calls half-way; a stop between two calls; bounds read before they are used | Envoy ends on the last rows; rollouts do not mix and take one replica at a time; no container without a row; a restart brings everything back; every operation ends |
| proxy registry, xDS | three reads and several pushes; environments that change meanwhile; two claimants of one host | no node is left on an older table or out of a publish; services win over manual routes; the addresses shown are served |
| volumes | check, create and record are separate calls; the helper of a volume is made, adopted and removed by different requests; a restart forgets the cache | budgets stay within the quota and with their owner; a helper never blocks the removal it was released for |
| endpoint clients | a client dialled from a row that was changed before it is cached | after an update the old address is not used |
| tunnels | a stop or a second start between the dial and the store of the cancel function; a dropped connection | what a stop finds under an id is a connection that a start bound; none gets out of reach |
| users, quotas | count-then-write; read-then-grant; review of a request already reviewed; the containers counted one by one, the row and the rollout as separate calls, and changes nobody checks | one admin remains; what a request says was done; a review keeps what nobody named; what runs fits the quota |

`PROJECT.json` lists every hazard at its line, with the property that covers it
or the reason why none does.

## 2. Plan

Done, in this order (what has the most concurrency first):

1. `ServiceManager`, with `MCServiceManager` and `ServiceManagerProofs`.
2. `ProxyRegistry`, with `MCProxyRegistry` and `ProxyRegistryProofs`: the xDS
   snapshots and the registry composed in one module, because a property of
   either is about both.
3. `Volumes`, with `MCVolumes` and `VolumesProofs`; `Sums`, what the proofs about
   quotas need to know of sums over finite sets.
4. `Publication`, the abstract specification of what the registry promises.
   `ServiceManager`, which uses the registry by that promise (its `Sync` is one
   read and one push), and `ProxyRegistry`, which keeps it (every read and every
   push), both implement it: `Publishes` in both, checked and proved.
5. `Endpoints`, with `MCEndpoints` and `EndpointsProofs`.
6. `Tunnels`, with `MCTunnels` and `TunnelsProofs`.
7. `Users`, with `MCUsers` and `UsersProofs`.
8. `Quotas`, with `MCQuotas` and `QuotasProofs`: the quota check composed with the
   service operations it admits and those nobody checks.

Left: `Quotas` with a second environment, so that an edit checked on another
environment than its service's is a check of its own; what operations leave behind
when calls fail, and what a scaling beside a rollout does. Dropped from an earlier
plan: the recreate of a user's container (`docker/manage.go:104`) and the console's
guard against late answers (`web/src/App.tsx`); each is a few lines without another
actor that touches the same state, and a model would only repeat them.

## 3. The modules and the code

A step of a module is one call on the store, on Docker or on another component,
together with what the goroutine computes until the next one; `pc[p]` names the
call that `p` makes next and `loc[p]` holds its local variables. A mutex is a
variable with its holder. `Faulty` lets any call whose error the code returns
fail, with or without its effect: that is also how the 60 s request timeout and a
lost connection appear. `Crash` stops the server between any two calls.

### ServiceManager

| TLA+ | Code |
|---|---|
| `rows`, `cont`, `snap` | the services table, the labelled containers, the published snapshot |
| `mu`, `rmu` | `Manager.mu` (Update, Redeploy), `Registry.mu` (Sync) |
| `Create`, `Scale`, `Update`, `Redeploy`, `SetSubdomain`, `Delete` | the methods of `Manager` up to their first call |
| `Write`, `Drop` | the row's update and delete |
| `List`, `Start`, `Kill`, `Deploy`, `NameConflict`, `StartNew`, `StartVanished`, `Trim` | the Docker calls of `reconcile` and of the rolling loops |
| `SyncRead`, `SyncPush` | `publish`: what it reads and what it pushes under `Registry.mu` |
| `BootNext` | `SyncAll` and the second `Sync` of `main` |
| `Tick`, `Sample`, `Gone` | `RunAutoscaler`, `scaleOnce`, and a `Scale` whose row is gone |
| `Exit`, `Fault`, `Crash` | a container that stops, a call that fails, a server that stops |

Ports, resources and environment variables of a service, the build of an image
and the measured load are data no property depends on: the load is any outcome
of `scaleOnce`. A service keeps its environment, so one Docker host stands for
all of them.

### ProxyRegistry

`eps`, `svcs` and `routes` are the three tables a publish reads, `snap` the
virtual hosts of each node's snapshot. `Upsert`, `Delete` and `EditContainer` are
the handlers that change routes, `ChangeService` any change by the service
manager followed by its `Sync`, `ChangeEndpoint` an environment that is created,
renamed or deleted. `Lock`, `ReadEndpoints`, `ReadServices` and `Push` are the
steps of the critical section; `Table` is `makeRouteConfig` with its "first
claimant of a domain wins". A host is a sequence of labels: the
automatic one has two, `service.environment`, and a custom subdomain may have any
number, so the two kinds can meet. The version number of a
snapshot, clusters and listeners are not modelled.

### Volumes

`vols` holds the owner label of each Docker volume, `specs` the budget rows,
`helper` the container with the helper name of a volume, `cache` and `mu`
`Client.volHelpers` and `volMu`. `Own`, `Check` and `Deny` are
`requireVolumeOwner` and `enforceVolumeQuota`; `DockerCreate` and `Record`,
`Release`, `Kill`, `DockerRemove` and `Forget` the calls of create, resize and
remove; `Cached`, `NotCached`, `Adopt`, `Find`, `Clear`, `Make`, `StartHelper`
and `NoHelper` those of `volumeHelper`, which every file operation goes through.
`again` in a request's locals is history only. A volume that an admin creates
carries no owner label, and a volume in use by a user's own container is a
removal that fails.

`InPush` is the abstract specification's view of the registry: what the holder of
`Registry.mu` has read and has still to push.

### Publication

The variables have no counterpart of their own in the code; each module maps its
state to them.

| Publication | ServiceManager | ProxyRegistry |
|---|---|---|
| `cur`, what a node should serve now | the routes of the rows, `Upstreams` | the table of the rows, `Table(Stored, n)` |
| `live`, the nodes to reach | its one Envoy | `Nodes(Stored)` |
| `snap` | `snap` | `snap` |
| `next`, what is still to push | `InPush` | `InPush` |
| `moved`, rows change under the reads | never: one read | an environment changed since the registry last read them |

### Endpoints

`rows` is the endpoints table, `clients` the cache; a client is the host and the
TLS material it was dialled with. `ClientFor`, `Get` and `Put` are the cache
lookup, the read of the row with the dial, and the store into the cache; `Read`,
`Write` and `Evict` the three steps of `Update`; `Delete` and `Erase` those of
`Delete`. `late` and `stale` are history: a row that changed since a goroutine read
it, and an id whose client outlived its row.

### Tunnels

`rows` is the enabled flag of each SSH tunnel, `running` the map of the same name,
`conn` the SSH connections. `Check`, `Dial`, `Listen` and `Store` are the steps of
`Start` (the two critical sections are `Check` and `Store`), `Enable` the flag that
the handler sets afterwards; `Stop` is the critical section of `Manager.Stop`, in
one step with the request (`StopTunnel`, `DeleteTunnel`), followed by `Disable` or
`Drop`. `Close` is the goroutine in `serve` that closes a cancelled connection,
`Lose` a connection that drops, after which the entry stays. Histories: `shadowed`
are live connections whose entry was overwritten, `blurred` the tunnels whose flag
may say something else than `running`. WiFi tunnels are rows only; a remote port of
0, which the remote host replaces by a free one, is not modelled.

### Users

A session is a client whose `token` carries the role its account had at the login,
as the middleware never reads the account again. `SetUserRole` goes on with
`GetUser`, `CountAdmins` and `SetRole`; `CreateRequest` with `Insert`; a review with
`Current`, `Grant` and `MarkApproved`, or with `MarkRejected`. The one-statement
handlers (`CreateUser`, `DeleteUser`, `UpdateUserQuota`, `SetUserEnvironments`) are
one step. `quota[u][e]` is the users table's base quota on the local environment and
`user_endpoints` on the others. `Bootstrap` is `bootstrapAdmin` of `main`. Histories:
`late` (what a request read has changed), `granted` and `again` (a request reviewed
when it was not pending, by two sessions at once, or in part).

### Quotas

One member on one environment, and CPU only: memory is checked by the same lines.
A container is its limit, and the service manager is that of `ServiceManager` seen
as what it does to the limits. `Scan`, `Inspect` and `Decide` are
`enforceServiceQuota` with the usage it sums: one list of the member's containers,
one inspect after the other in any order, and the comparison (`Fits`). A container
that was removed since the list counts for nothing, also when its name is taken
again, because the list holds ids (`StepRemoved`); one that cannot be inspected
counts for nothing either. `Counted` leaves the service out that is edited; the code
inspects its containers too and then skips them, which changes nothing. A `Create`
and an `Update` that is `asked` pass through the check, while an admin's edit, an
edit whose request names another environment, `Scale`, `Redeploy` and the autoscaler
do not. `Lock`, `Save`, `Set`, `List`, `Kill`, `Deploy`, `Trim`, `Erase` and `Drop` are
the calls of the manager, `Tick`, `Sample` and `Get` those of the autoscaler, `Boot` is
`SyncAll`. Histories: `checked` are the services that are as a check allowed,
`loose` says that since all was as the rows say the footprint may have grown by
what no check allowed, or that a change ran beside a check; it ends when all is as the
rows say again and fits. `Quota` is a constant, here and in `Volumes`: an admin who
lowers it below what a member uses is not modelled.

## 4. What is checked

| Run | Question | Instance |
|---|---|---|
| `concurrent` | do concurrent writers, failures and a crash leave Envoy on old routes, and is what they do to the snapshot a publication? | two requests, one service, one replica, all operations, one crash |
| `rolling` | do rollouts mix, take two replicas down, or wait for each other for ever? | two requests, two services, one to three replicas, two images |
| `recovery` | does a stop anywhere lose a container or leave a service down? | one request at a time, two services, up to two replicas, one crash |
| `autoscale` | does the autoscaler bring services within their bounds? | two services, one autoscaled from below its minimum, deletes |
| `orphan` (violation) | does Delete remove all replicas? | a Scale beside a Delete |
| `publish` | does any publish bring an old table back or leave a node out, who serves a contested host, are the addresses the API shows served? | two requests, two nodes, two environment names, one service and route, failures, one crash |
| `helpers` | can a helper block the removal of its volume? | an admin and a member on one volume, every request, failures, one restart |
| `budgets` | can others take a member over the quota between check and record? | an admin and two members, two volumes, failures |
| `endpoints` | is a cached client that of the row, and do updates keep the TLS material? | three requests on one environment, two hosts, two certificates, failures, restarts |
| `tunnels` | can an open connection get lost, does a stop find a connection that was bound, does what was stopped close? | two requests, two tunnels to one remote port, two connections, failures, drops, restarts |
| `users` | does an admin remain, does a review touch what nobody named, is what a request says true? | two sessions, two accounts, one request, two environments, two dimensions, failures |
| `quotas` | what do checks, unchecked changes and the autoscaler together leave within the quota? | two requests and the autoscaler, two services of up to two replicas, a quota of 2, four operations, one restart |

Bounds. Two requests are enough for the races listed as hazards, each of which is
between two goroutines; `budgets` has three because the victim, another member
and an admin differ in what they may do, and `endpoints` because an update is
overtaken by one request and filled behind by another. Three replicas let a service
grow and shrink by two and let a second rollout find two replicas of the first. One
crash at any point, with a full start-up after it, reaches every state a second one
starts from, apart from the counters. Ids are reused once nothing refers to them
in `ServiceManager` and `Volumes`, and connections in `Tunnels`, which keeps the
state space finite without a bound on the number of operations; the id sets are
larger than what goroutines and the host can hold at once. Where ids are never
reused (`Endpoints`, `Users`, tunnels) the code's own rule is the bound. Sizes up to
a quota of 1 in `budgets` make "one more" exceed it. In `publish` the one subdomain is
also the automatic host of the service on the local host, which is where the two
kinds of hosts meet; several services that compete for one host are covered by the
theorem only (with two services the run would not end in time). `MaxOps` of `quotas` is 4: a service, a second one, a change nobody checked
and a change of the first.
`MaxCrashes` is 1 where a module has it.

Deadlock is checked in all runs but `rolling`, `autoscale`, `orphan` and
`quotas`, where the enabled operations run out (no service is left, none can be created, or
`MaxOps` is reached) and the idle server waits.

Fairness. `ServiceManager.FairSpec` (for `Terminates`, `Recovers`, `AutoSettles`):
weak fairness of a goroutine's calls, because every call returns, at the latest
when its context ends; strong fairness of `SyncRead`, because Go's mutex hands
itself to a waiter that has starved for a millisecond; weak fairness of the
start-up and the ticker, which `main` runs in a loop. `Tunnels.FairSpec` (for
`StoppedCloses`): weak fairness of a goroutine's calls and of `Close`, the goroutine
that waits for the context of a connection. Nowhere is there fairness for requests:
nobody has to send one. `Terminates` and `AutoSettles` are checked without failing
calls, since a container that exits whenever it is started is never up;
`StoppedCloses` with them.

Every property of a passing run has a mutant in the module (an operator whose
comment begins with "Mutant") that a plausible mistake in the code would turn the
definition into, and that violates it.

### Findings

Run `orphan` is a violation of what a comment says of the code:

- `Scale` and `Delete` take no common lock: a replica created after `Delete`
  listed the containers survives its service, and nothing removes it
  (`service.go:221`), though "Delete removes all replicas and the service record"
  (`service.go:211`).

Elsewhere, too, the code does not keep what a document or a comment promises. The
models take these steps, and the passing property beside each names it as an
exception; with the exception taken out of the formula, TLC shows the step.

| Code | What happens | Text | Exception |
|---|---|---|---|
| `scaler.go:64` | the autoscaler clamps with the bounds of its tick, and writes a count above the maximum that an edit has written meanwhile | `README.md:37` "between min/max bounds" | `late` in `ServicesFit` |
| `handlers_services.go:153` | two creates are checked side by side, and neither counts the other | `README.md:48-50` "every member deploy is [...] blocked once the quota is exhausted" | `loose` in `WithinQuota` |
| `handlers_services.go:280` | a scale is not checked | `store/users.go:25` "the total resources a member may consume across all their running containers" | `loose`, `checked` |
| `handlers_manage.go:341` | two volumes of one member are checked side by side | `store/users.go:34` "total volume-size budget" | one session per member |
| `tunnel.go:138` | a start stores its cancel function over that of another start of the same tunnel, after its own connection was lost; no stop ends the other one any more, and its remote port stays taken | `tunnel.go:175` "Stop terminates a running tunnel by ID" | `shadowed` in `Reachable`, `StoppedCloses` |
| `tunnel.go:155` | a dropped connection leaves its entry: the tunnel is shown as running and cannot be started without a stop | `tunnel.go:185` "reports whether a tunnel is currently active" | `"lost"` in `RunningIsReal` |
| `endpoint.go:66` | a client that was dialled from a row before an update is cached after it | `endpoint.go:89-90` "drops the cached client so the next request rebuilds the connection" | `stale` in `FreshClients` |
| `handlers_users.go:279` | a demotion whose count was overtaken by another one, or by a deletion, takes the last admin | `handlers_users.go:257-258` "refuses to demote the last admin so the instance can't be locked out" | `late` in `LastAdminStays` |
| `handlers_users.go:443` | an approval writes what it read of the dimensions nobody named over what an admin has set meanwhile | `handlers_users.go:440` "keeps their CPU/RAM intact" | `late` in `KeptIntact` |

Also seen, and allowed by the models rather than reported: we found no document that
says otherwise, or the code shows that it is meant.

- Services. `Redeploy` records the image before it rolls (`store/services.go:149`),
  so a stop in between leaves old replicas under the new image's record; it does
  not remove replicas beyond the count either. A service scaled to 0 is not scaled
  up again by the autoscaler. A create does not validate its subdomain as
  `SetSubdomain` does. A renamed environment changes the addresses the API shows
  and no publish follows (`handlers_endpoints.go:130`); `ShownAddressesServed` is
  about environments that did not change since the last publish.
- Volumes. An admin's resize of a member's volume records no owner, which takes the
  volume out of the member's usage (`handlers_manage.go:303`). A `Forget` that comes
  after another request has recreated the volume drops the new budget.
- Quotas. A check beside a rollout misses the replica just removed, and one that was
  replaced between its list and its inspects ("vanished mid-scan; skip it",
  `docker/manage.go:41`); an edit is checked on the environment of the request, not on
  that of the service; leftovers of an edit that shrinks and the new replicas exceed
  the quota together until the leftovers are removed. `Loosen` names each.
- Users. A token keeps the role of its login, so a demoted admin's session can still
  delete the last admin; `LastAdminStays` states that exception. A request can be
  reviewed again after it was decided.
- Tunnels. Enabled tunnels are not started at the start-up.
- Endpoints. A client cached between the halves of `Delete` survives it.

## 5. What is proved

Every theorem is for all values of the constants that satisfy the module's
assumptions (named sets, `Nil` apart from them; finite ones where the code adds up
over them), with failing calls and crashes or without, unless it is said below to
assume more.

**ServiceManagerProofs**, first half: `TypeCorrect`, `SnapshotFreshOrOwed`
(`FreshOrOwed`) and `ImplementsPublication` (`Publishes`). The invariant adds to the
types: `cont` is finite; `AllFit`, what a goroutine's locals are at each call, in
particular that the loop of `reconcile` has an index left where it creates one;
`HoldsRmu`, that exactly the goroutine between read and push holds `Registry.mu`; and
`ComingFresh`, that the snapshot, or the one about to replace it, is that of the rows
unless a writer has still to `Sync` or a failed one left it. `FreshOrOwed` alone is
not inductive: a push would be free to replace a fresh snapshot by whatever another
goroutine read before. The refinement needs `HoldsRmu` only: a goroutine that pushes
is the one whose read `InPush` shows.

Second half, what operations leave behind: `ContainersOwned` (`Owned`),
`OperationsConverge` (`Converged`), `RolloutsComplete` (`RolledOut`) and
`RolloutsOneDown` (`AtMostOneDown`). They assume `InOrder`: calls do not fail, nothing
is autoscaled, and either the requests come one after the other, for any operations,
or any number of them run side by side and are `Update`, `Redeploy` and
`SetSubdomain`, which take `Manager.mu` or touch no container. The two halves of
that assumption are the instances of the runs `recovery` and `rolling`, and it cannot
go: a `Scale` takes no lock, and beside a `Delete` it breaks `Owned` (run `orphan`).
A crash is allowed at every step but in `RolloutsComplete`, because `SyncAll` keeps
the replicas of an interrupted rollout with their old image; `RolloutsOneDown` is
without `Delete`, which removes replicas in any order.

None of the four is inductive, as each speaks of the end of an operation or of one
moment of it. The invariant is `Turns` and `Rest`. `Turns` says whose turn it is:
`SyncAll` comes before all requests and a rolling operation holds `Manager.mu`, from
which `InOrder` gives that at most one goroutine replaces containers (a *mover*).
`Rest` says that names are unique, containers have a row and at most one wanted
replica below another is down (`Sound`); that the mover works for the row it read
(`Serves`) and has got as far as its next call says (`Doing`): the containers it
listed are those that are there (`Mirrors`), each replica the rolling loop is past
has the new image and is up (`Rolled`), and the `reconcile` after an `Update` finds
nothing old (`Renewed`); and that every other service is as its row says, or still on
the list that `SyncAll` walks. The proof has one lemma for each call of the mover.

**ProxyRegistryProofs**: `TypeCorrect`, `NodesStayFresh` (`NodesFresh`),
`ServicesAlwaysWin` (`ServicesWin`), `ShownAddressesAlwaysServed`
(`ShownAddressesServed`) and `ImplementsPublication` (`Publishes`). The invariant
adds `MuHeld` and `HasJobs` (who is inside the critical section and why), `ReadFresh`
(the environments that were read are those of the table unless one changed since),
`PushFresh` (the tables still to push are those of the rows, and every node is
either pushed or still to push) and `RestFresh` (when nobody holds the mutex every
node is published, or a publish is due). The lemmas on `Table`, `Domains` and `First`
say what a publish computes; that a host has a first claimant uses the
well-foundedness of the natural numbers. The two theorems about addresses follow
from them and `RestFresh`, for any number of services that claim one host. The
refinement adds `TodoPushed`: only a goroutine that pushes has anything left to push.

**VolumesProofs**: `TypeCorrect`, `HelpersReleased` (`Released`) and `QuotasHold`
(`WithinQuota`). The types
already need `Sized`: a member's request of size 0 does not pass the quota check.
The rest of the invariant is `MuHeld`, `Uncached` (nothing is cached for a volume
while a helper of it is being made), `HelperKnown` (a cached id is that of the
container with the helper's name) and `Targeted` (what `releaseHelper` is about to
remove is the helper, or a later one was made). It shows why the order in
`releaseHelper`, cache first and container second, is safe.

`QuotasHold` assumes `OneAtATime`: a member has one session, so sends one request at
a time (two creates of one member pass the check together, see the findings).
`WithinQuota` is not inductive: between the check and the record others remove and
recreate volumes. The invariant adds `StillFits`, that the check of a request about
to be recorded would pass if it were made again: what others do in between changes
no budget of this member but to nothing or to an owner of none, so the member's usage
only falls. Of the usage, a sum over a set, the proof uses the lemmas of `Sums`.

**Sums** states what the two quota checks need of `SumFunctionOnSet`, which is a
recursive function of the community modules: that it is a natural number, depends on
the values only, grows with the set, and what taking one element out leaves
and changing one value adds (`SumType`, `SumSame`, `SumSubset`, `SumRemove`,
`SumZeros`, `SumFirst`, `SumBut`). The
induction they need is over finite sets and takes the *set* of subsets for which a
fact holds (`SubsetInduction`), since the theorems of the library take a predicate,
which no prover here can instantiate. This is why `Volume` of `Volumes` and `Service`
of `Quotas` are assumed finite: each is the rows of one table.

**EndpointsProofs**: `TypeCorrect`, `ClientsStayFresh` (`FreshClients`) and
`CertsAreKept` (the action property `CertsKept`). The invariant says of every
goroutine that the row it read is the row of the table, or that it is marked late;
without that, a `Put` could cache anything.

**TunnelsProofs**: `TypeCorrect`, `ConnectionsStayReachable` (`Reachable`),
`RunningStaysReal` (`RunningIsReal`) and `FlagsAreTold` (`FlagTold`). None of the
three is inductive. The invariant about connections (`ConnInv`) adds `LocalsFit` (a
connection that a start holds is its own, not cancelled and in no entry), `HeldByOne`
and `PortsExclusive`: since a remote port has one listener, a `Store` of a live
connection finds no other live one in the entry. The one about flags (`FlagInv`) says,
of a tunnel that is not blurred, what holds during a start or a stop (`InStep`).

**UsersProofs**: `TypeCorrect`, `ApprovedAlwaysGranted` (`ApprovedWasGranted`),
`RejectedNeverGranted` (`RejectedGrantsNothing`), `LastAdminAlwaysStays`
(`LastAdminStays`) and `QuotasAreKeptIntact` (`KeptIntact`), the last two action
properties. The invariant adds `Recorded` (whatever is named was created);
`Demotable` (a demotion that nothing overtook leaves an admin), which uses the
cardinality of the set of admins; `GrantKeeps` (what a review is about to write keeps
what the account has now); and `ReviewInv` (`GrantedFirst`, and for a request that is
reviewed once, `OnceReviewed`).

**QuotasProofs**: `TypeCorrect`, `CheckedServicesFit` (`ServicesFit`) and
`FootprintWithinQuota` (`WithinQuota`), for any number of requests, with failing
calls and crashes. The types need `AtWork`, what a goroutine's locals are at each
call. `ServicesFit` is not inductive: `CheckedFit` adds that an autoscaled service
fits at its maximum too, and `Allowed` that what a checked request is about to write
fits, and that the autoscaler's count is within the bounds of the row as long as
nobody wrote the row since it read it. `WithinQuota` says nothing while a service
is checked or changes. `Orderly` does: unless the history `loose` says otherwise, one
goroutine at a time works; the other services have the replicas of their rows and leave
room for the row it writes; and the replicas of its own service are those its locals
say (`Mid`), from the first one it removes to the last leftover it trims. During a check
`Mid` says that what was counted and what is left of the list add up to what the
counted services use (`Left`), so that what `Decide` compares is their use at that
moment: without `loose` nothing on the list is replaced while it is inspected. That the sum stays within
the quota is then arithmetic on one service and the rest.

Every invariant and every action property of a passing run is stated by a theorem.
Only model-checked are the liveness properties `Terminates`, `Recovers`,
`AutoSettles` and `StoppedCloses`: they rest on fairness, whose proof needs
`ENABLED`, which the prover does not handle. The finding of run `orphan` is a
counterexample and needs no proof.

## 6. What is not modelled

- Users' own containers (`api/handlers.go`, `docker/manage.go`): single Docker calls
  on a container that nothing else refers to, after an owner check. The quota check
  of an edit is that of a service with one replica.
- WiFi tunnels and the remote port 0 (section 3); tokens do not expire; the memory
  dimension of `Quotas` is the same code as CPU; a quota that an admin lowers while it
  is used (`Quota` is a constant of `Quotas` and `Volumes`).
- The HTTP plumbing; password hashing, the signing of tokens and the cipher of
  secrets (libraries, one row per operation); image registries.
- Image builds, SSH and TLS dialling, terminals and log streams: I/O against remote
  daemons, which keeps no state in the server.
- The text of Envoy's bootstrap, clusters and listeners (layout), and the version
  number of a snapshot, which is the wall clock's.
- The web console: views of the API.
