-------------------------------- MODULE Quotas --------------------------------
(***************************************************************************)
(* The CPU quota of one member on one environment, and the services that   *)
(* use it (enforceServiceQuota in internal/api).  Memory is checked the    *)
(* same way.                                                               *)
(*                                                                         *)
(* The check lists the member's containers on the Docker host and inspects *)
(* one after the other for its limit; only then does the service manager   *)
(* write the row and replace the containers, call by call.  Scale and the  *)
(* autoscaler change the number of replicas without a check.  The manager  *)
(* is the one of ServiceManager, seen as what it does to the limits: a     *)
(* container is its limit, and the images, the routes and whether a        *)
(* container runs are left out.                                            *)
(***************************************************************************)
EXTENDS Integers, FiniteSets, FiniteSetsExt

CONSTANTS
  Proc,         \* the goroutines of requests
  Main,         \* SyncAll at start-up, then the autoscaler's loop
  Service,      \* names of the member's services
  MaxReplicas,  \* bound on a replica count
  Cpu,          \* limits of a replica that requests ask for
  Quota,        \* what the member may use
  Requests,     \* the services that create and update requests describe
  Nil,          \* no row, an unlocked mutex
  Faulty,       \* may store and Docker calls fail, and containers exit?
  MaxOps,       \* bound on the operations that are begun
  MaxCrashes    \* bound on the crashes of the server

Index == 0..(MaxReplicas - 1)
Actor == Proc \cup {Main}

\* A service: replicas of this size, and how many of them when it autoscales.
Row == [n : 0..MaxReplicas, cpu : Cpu, max : 1..MaxReplicas, auto : BOOLEAN]
\* What the handlers make of a request's body.
Normal == {r \in Row : r.n >= 1 /\ r.max >= r.n}

ASSUME ConstantsAssumption ==
  /\ Main \notin Proc
  /\ IsFiniteSet(Service)
  /\ MaxReplicas \in Nat \ {0}
  /\ Cpu \subseteq Nat \ {0}
  /\ Quota \in Nat \ {0}
  /\ Requests \subseteq Normal
  /\ Nil \notin Actor \cup Service \cup Row
  /\ Faulty \in BOOLEAN
  /\ MaxOps \in Nat
  /\ MaxCrashes \in Nat

VARIABLES
  rows,     \* the services table
  reps,     \* the limit of each replica on the Docker host, 0 without one
  mu,       \* who holds Manager.mu
  pc,       \* the call each goroutine makes next
  loc,      \* the local variables of each goroutine
  boot,     \* services that SyncAll has still to visit
  checked,  \* history: services as the last check of them allowed
  loose,    \* history: the footprint may have grown by what no check allowed
  ops,      \* how many operations were begun
  crashes   \* how often the server crashed

vars == <<rows, reps, mu, pc, loc, boot, checked, loose, ops, crashes>>

Ops == {"none", "create", "update", "redeploy", "scale", "delete", "autoscale", "boot"}
Calls == {"idle", "scan", "inspect", "lock", "save", "set", "list", "kill", "deploy",
          "trim", "erase", "drop", "sample", "get"}
Locals == [op : Ops, s : Service \cup {Nil}, row : Row \cup {Nil},
           todo : SUBSET Index,     \* replicas still to create
           left : SUBSET Index,     \* listed replicas beyond the count
           scan : SUBSET (Service \X Index),   \* listed containers still to inspect
           used : Nat,              \* the limits inspected so far
           asked : BOOLEAN,         \* history: did a check allow it?
           gone : BOOLEAN,          \* the row it read was deleted: no id matches
           late : BOOLEAN]          \* history: the row was written since it was read
NoLocal == [op |-> "none", s |-> Nil, row |-> Nil, todo |-> {}, left |-> {},
            scan |-> {}, used |-> 0, asked |-> FALSE, gone |-> FALSE, late |-> FALSE]

TypeOK ==
  /\ rows \in [Service -> Row \cup {Nil}]
  /\ reps \in [Service -> [Index -> Cpu \cup {0}]]
  /\ mu \in Actor \cup {Nil}
  /\ pc \in [Actor -> Calls]
  /\ loc \in [Actor -> Locals]
  /\ boot \in SUBSET Service
  /\ checked \in SUBSET Service
  /\ loose \in BOOLEAN
  /\ ops \in 0..MaxOps
  /\ crashes \in 0..MaxCrashes

-----------------------------------------------------------------------------
(***************************************************************************)
(* Footprints.                                                             *)
(***************************************************************************)

Present(s) == {i \in Index : reps[s][i] # 0}
Used(S) == SumFunction([s \in S |-> SumFunction(reps[s])])
\* The replicas are those the row says.
Deployed(s) ==
  \A i \in Index : reps[s][i] = IF rows[s] # Nil /\ i < rows[s].n THEN rows[s].cpu ELSE 0

\* Mutant: the maximum of an autoscaled service does not count.
MostStarted(r) == r.n
\* The replicas a service may come to have.
Most(r) == IF r.auto THEN r.max ELSE r.n

\* The services whose containers a check counts: a service that is edited does
\* not count, its replicas are replaced.
Counted(l) == IF l.op = "update" THEN Service \ {l.s} ELSE Service

\* Mutant: what the member's other services use does not count.
FitsAlone(l) == Most(l.row) * l.row.cpu <= Quota
\* What a check found in use leaves room for the most the service may use.
Fits(l) == l.used + Most(l.row) * l.row.cpu <= Quota

\* Goroutines amid a check, or amid a change of a row and its replicas.
Working(p) == pc[p] \in {"scan", "inspect", "lock", "save", "set", "list", "kill",
                         "deploy", "trim", "erase", "drop"}
Overlapping == \E p, q \in Actor : p # q /\ Working(p) /\ Working(q)

\* The footprint may have grown, if cause, until all is as the rows say and fits.
Settled ==
  /\ \A p \in Actor : ~ Working(p)
  /\ \A s \in Service : Deployed(s)
  /\ Used(Service) <= Quota
Loosen(cause) == loose' = (~ Settled' /\ (loose \/ cause \/ Overlapping'))

-----------------------------------------------------------------------------

Step(p, l, at) ==
  /\ loc' = [loc EXCEPT ![p] = l]
  /\ pc' = [pc EXCEPT ![p] = at]
Unlock(p) == mu' = IF mu = p THEN Nil ELSE mu
Answer(p) == Step(p, NoLocal, "idle") /\ Unlock(p)

\* The row of s changes under the goroutines that read it: p goes on.
StepWritten(p, l, at, s, gone) ==
  /\ loc' = [q \in Actor |->
        IF q = p THEN l
        ELSE IF loc[q].s = s
        THEN [loc[q] EXCEPT !.late = TRUE, !.gone = @ \/ gone] ELSE loc[q]]
  /\ pc' = [pc EXCEPT ![p] = at]

\* p removes containers, and goes on.  One that another check has listed cannot be
\* inspected any more, also when its name is taken again: the list holds ids.
StepRemoved(p, l, at, removed) ==
  /\ loc' = [q \in Actor |-> IF q = p THEN l ELSE [loc[q] EXCEPT !.scan = @ \ removed]]
  /\ pc' = [pc EXCEPT ![p] = at]

Served == boot = {} /\ loc[Main].op # "boot"      \* main reconciles, then serves

Begin(p, op, s, row, asked, at) ==
  /\ Served /\ pc[p] = "idle" /\ ops < MaxOps
  /\ ops' = ops + 1
  /\ Step(p, [NoLocal EXCEPT !.op = op, !.s = s, !.row = row, !.asked = asked], at)
  /\ UNCHANGED <<rows, reps, mu, boot, checked, crashes>>
  /\ Loosen(FALSE)

(***************************************************************************)
(* Requests.                                                               *)
(***************************************************************************)

Create(p, s, row) == Begin(p, "create", s, row, TRUE, "scan")

\* An admin's edit is not checked, and a member's whose request names another
\* environment than the service's is checked there.
Update(p, s, row, asked) ==
  /\ rows[s] # Nil
  /\ Begin(p, "update", s, row, asked, IF asked THEN "scan" ELSE "lock")

Redeploy(p, s) == Begin(p, "redeploy", s, Nil, FALSE, "lock")

\* Mutant: a negative count is kept.
CountAsIs(n) == n
Count(n) == IF n < 0 THEN 0 ELSE n

\* GetService comes with it.
Scale(p, s, n) ==
  /\ rows[s] # Nil
  /\ Begin(p, "scale", s, [rows[s] EXCEPT !.n = Count(n)], FALSE, "set")

Delete(p, s) == rows[s] # Nil /\ Begin(p, "delete", s, rows[s], FALSE, "erase")

\* enforceServiceQuota lists the member's containers.  What another goroutine is
\* about to create is not among them,
Scan(p) ==
  LET l == loc[p] IN
  /\ pc[p] = "scan"
  /\ Step(p, [l EXCEPT !.scan = {c \in Counted(l) \X Index : c[2] \in Present(c[1])}],
          "inspect")
  /\ UNCHANGED <<rows, reps, mu, boot, checked, ops, crashes>>
  /\ Loosen(FALSE)

\* then inspects each, in the order of the list.  One that cannot be inspected
\* counts for nothing, whatever the reason.
Inspect(p) ==
  LET l == loc[p] IN
  /\ pc[p] = "inspect"
  /\ \E c \in l.scan, found \in IF Faulty THEN BOOLEAN ELSE {TRUE} :
       /\ Step(p, [l EXCEPT !.scan = @ \ {c},
                            !.used = IF found THEN @ + reps[c[1]][c[2]] ELSE @], "inspect")
       /\ UNCHANGED <<rows, reps, mu, boot, checked, ops, crashes>>
       /\ Loosen(~ found)

\* and decides when it is through with the list.
Decide(p) ==
  LET l == loc[p] IN
  /\ pc[p] = "inspect" /\ l.scan = {}
  /\ IF Fits(l)
     THEN /\ Step(p, [l EXCEPT !.used = 0], IF l.op = "create" THEN "save" ELSE "lock")
          /\ UNCHANGED mu
     ELSE Answer(p)
  /\ UNCHANGED <<rows, reps, boot, checked, ops, crashes>>
  /\ Loosen(FALSE)

(***************************************************************************)
(* The service manager.                                                    *)
(***************************************************************************)

\* Update and Redeploy lock and read the row.
Lock(p) ==
  LET row == rows[loc[p].s] IN
  /\ pc[p] = "lock" /\ mu = Nil
  /\ \/ /\ row # Nil
        /\ mu' = p
        /\ LET l == [loc[p] EXCEPT !.gone = FALSE, !.late = FALSE] IN
           IF l.op = "update" THEN Step(p, l, "save")
           ELSE Step(p, [l EXCEPT !.row = row, !.todo = 0..(row.n - 1)],
                     IF row.n > 0 THEN "kill" ELSE "trim")
     \/ row = Nil /\ Answer(p)
  /\ UNCHANGED <<rows, reps, boot, checked, ops, crashes>>
  /\ Loosen(FALSE)

\* Names are unique.  An update writes every column by id, if the row is there.
Save(p) ==
  LET l == loc[p]
      there == rows[l.s] # Nil /\ ~ l.gone
  IN
  /\ pc[p] = "save"
  /\ \/ /\ IF l.op = "create" THEN rows[l.s] = Nil ELSE there
        /\ rows' = [rows EXCEPT ![l.s] = l.row]
        /\ checked' = IF l.asked THEN checked \cup {l.s} ELSE checked \ {l.s}
        /\ IF l.op = "create" THEN StepWritten(p, l, "list", l.s, FALSE)
           ELSE StepWritten(p, [l EXCEPT !.todo = 0..(l.row.n - 1)], "kill", l.s, FALSE)
        /\ UNCHANGED mu
     \/ /\ l.op = "update" /\ ~ there
        /\ Step(p, [l EXCEPT !.todo = 0..(l.row.n - 1)], "kill")
        /\ UNCHANGED <<rows, checked, mu>>
     \/ /\ l.op = "create" /\ rows[l.s] # Nil
        /\ Answer(p)
        /\ UNCHANGED <<rows, checked>>
  /\ UNCHANGED <<reps, boot, ops, crashes>>
  /\ Loosen(~ l.asked)

\* Scale writes the count it was given over whatever the row says now.
Set(p) ==
  LET l == loc[p] IN
  /\ pc[p] = "set"
  /\ IF rows[l.s] # Nil /\ ~ l.gone
     THEN /\ rows' = [rows EXCEPT ![l.s].n = l.row.n]
          /\ checked' = IF l.op = "scale" \/ l.late THEN checked \ {l.s} ELSE checked
     ELSE UNCHANGED <<rows, checked>>
  /\ Step(p, l, "list")
  /\ UNCHANGED <<reps, mu, boot, ops, crashes>>
  /\ Loosen(TRUE)

\* reconcile lists the replicas, and works on what it listed.
List(p) ==
  LET l == loc[p]
      todo == {i \in Index \ Present(l.s) : i < l.row.n}
  IN
  /\ pc[p] = "list"
  /\ Step(p, [l EXCEPT !.todo = todo, !.left = {i \in Present(l.s) : i >= l.row.n}],
          IF todo = {} THEN "trim" ELSE "deploy")
  /\ UNCHANGED <<rows, reps, mu, boot, checked, ops, crashes>>
  /\ Loosen(FALSE)

Kill(p) ==
  LET l == loc[p]
      i == Min(l.todo)
  IN
  /\ pc[p] = "kill"
  /\ reps' = [reps EXCEPT ![l.s][i] = 0]
  /\ StepRemoved(p, l, "deploy", {<<l.s, i>>})
  /\ UNCHANGED <<rows, mu, boot, checked, ops, crashes>>
  /\ Loosen(FALSE)

\* A replica is created under its name, which has to be free, with the limit of
\* the row that was read.
Deploy(p) ==
  LET l == loc[p]
      i == Min(l.todo)
      rest == l.todo \ {i}
  IN
  /\ pc[p] = "deploy"
  /\ IF reps[l.s][i] = 0
     THEN /\ reps' = [reps EXCEPT ![l.s][i] = l.row.cpu]
          /\ Step(p, [l EXCEPT !.todo = rest],
                  IF rest = {} THEN "trim"
                  ELSE IF l.op \in {"update", "redeploy"} THEN "kill" ELSE "deploy")
          /\ UNCHANGED <<mu, boot>>
     ELSE /\ Answer(p)
          /\ boot' = IF p = Main THEN {} ELSE boot
          /\ UNCHANGED reps
  /\ UNCHANGED <<rows, checked, ops, crashes>>
  /\ Loosen(reps[l.s][i] # 0)

\* Replicas beyond the count: reconcile removes those it had listed, Update lists
\* them now, Redeploy leaves them.  Errors are ignored, and a listed replica may
\* have been replaced.
Trim(p) ==
  LET l == loc[p]
      left == CASE l.op = "update" -> {i \in Present(l.s) : i >= l.row.n}
                [] l.op = "redeploy" -> {}
                [] OTHER -> l.left
  IN
  /\ pc[p] = "trim"
  /\ \E S \in IF Faulty \/ l.op # "update" THEN SUBSET left ELSE {left} :
       /\ reps' = [reps EXCEPT ![l.s] = [i \in Index |-> IF i \in S THEN 0 ELSE @[i]]]
       /\ StepRemoved(p, NoLocal, "idle", {l.s} \X S)
       /\ Unlock(p)
       /\ UNCHANGED <<rows, boot, checked, ops, crashes>>
       /\ Loosen(S # left)

\* Delete removes the replicas it lists, ignoring errors, and then the row.
Erase(p) ==
  LET s == loc[p].s IN
  /\ pc[p] = "erase"
  /\ \E kept \in IF Faulty THEN SUBSET Present(s) ELSE {{}} :
       /\ StepRemoved(p, loc[p], "drop", {s} \X (Index \ kept))
       /\ reps' = [reps EXCEPT ![s] = [i \in Index |-> IF i \in kept THEN @[i] ELSE 0]]
       /\ Loosen(kept # {})
  /\ UNCHANGED <<rows, mu, boot, checked, ops, crashes>>

Drop(p) ==
  LET s == loc[p].s IN
  /\ pc[p] = "drop"
  /\ IF rows[s] # Nil /\ ~ loc[p].gone
     THEN rows' = [rows EXCEPT ![s] = Nil] /\ StepWritten(p, NoLocal, "idle", s, TRUE)
     ELSE UNCHANGED rows /\ Answer(p)
  /\ checked' = IF rows' = rows THEN checked ELSE checked \ {s}
  /\ UNCHANGED <<reps, mu, boot, ops, crashes>>
  /\ Loosen(FALSE)

(***************************************************************************)
(* main: SyncAll, then the autoscaler.                                     *)
(***************************************************************************)

Boot(s) ==
  /\ s \in boot /\ pc[Main] = "idle"
  /\ boot' = boot \ {s}
  /\ IF rows[s] = Nil THEN UNCHANGED <<pc, loc>>
     ELSE Step(Main, [NoLocal EXCEPT !.op = "boot", !.s = s, !.row = rows[s]], "list")
  /\ UNCHANGED <<rows, reps, mu, checked, ops, crashes>>
  /\ Loosen(FALSE)

\* The autoscaler reads the bounds of a service,
Tick(s) ==
  /\ rows[s] # Nil /\ rows[s].auto
  /\ Begin(Main, "autoscale", s, rows[s], FALSE, "sample")

Clamp(n, max) == IF n < 1 THEN 1 ELSE IF n > max THEN max ELSE n

\* then what its running replicas use, and calls Scale for one more or one less.
Sample ==
  LET l == loc[Main]
      present == Cardinality(Present(l.s))
  IN
  /\ pc[Main] = "sample"
  /\ \E running \in IF Faulty THEN 0..present ELSE {present}, by \in {0, 1, 2} :
       LET n == Clamp(running + by - 1, l.row.max) IN
       IF running > 0 /\ n # running /\ (by = 2 => running < l.row.max)
       THEN Step(Main, [l EXCEPT !.row.n = n], "get") /\ UNCHANGED mu
       ELSE Answer(Main)
  /\ UNCHANGED <<rows, reps, boot, checked, ops, crashes>>
  /\ Loosen(FALSE)

Get ==
  LET l == loc[Main] IN
  /\ pc[Main] = "get"
  /\ IF rows[l.s] = Nil THEN Answer(Main)
     ELSE /\ Step(Main, [l EXCEPT !.row = [rows[l.s] EXCEPT !.n = l.row.n], !.gone = FALSE], "set")
          /\ UNCHANGED mu
  /\ UNCHANGED <<rows, reps, boot, checked, ops, crashes>>
  /\ Loosen(FALSE)

(***************************************************************************)
(* Failures.                                                               *)
(***************************************************************************)

\* A failing call, but for an inspect, ends an operation in between; the replicas
\* that are missing come back whenever its service is reconciled.
Fault(p) ==
  /\ Faulty /\ pc[p] \notin {"idle", "inspect"}
  /\ Answer(p)
  /\ boot' = IF p = Main THEN {} ELSE boot
  /\ UNCHANGED <<rows, reps, checked, ops, crashes>>
  /\ Loosen(Working(p))

Crash ==
  /\ crashes < MaxCrashes
  /\ crashes' = crashes + 1
  /\ mu' = Nil
  /\ pc' = [p \in Actor |-> "idle"]
  /\ loc' = [p \in Actor |-> NoLocal]
  /\ boot' = Service
  /\ UNCHANGED <<rows, reps, checked, ops>>
  /\ Loosen(\E p \in Actor : Working(p))

-----------------------------------------------------------------------------

Init ==
  /\ rows = [s \in Service |-> Nil]
  /\ reps = [s \in Service |-> [i \in Index |-> 0]]
  /\ mu = Nil
  /\ pc = [p \in Actor |-> "idle"]
  /\ loc = [p \in Actor |-> NoLocal]
  /\ boot = {}
  /\ checked = {}
  /\ loose = FALSE
  /\ ops = 0
  /\ crashes = 0

Request(p, s) ==
  \/ \E row \in Requests : Create(p, s, row)
  \/ \E row \in Requests, asked \in BOOLEAN : Update(p, s, row, asked)
  \/ \E n \in -1..MaxReplicas : Scale(p, s, n)
  \/ Redeploy(p, s)
  \/ Delete(p, s)

Call(p) ==
  \/ Scan(p) \/ Inspect(p) \/ Decide(p) \/ Lock(p) \/ Save(p) \/ Set(p)
  \/ List(p) \/ Kill(p) \/ Deploy(p) \/ Trim(p) \/ Erase(p) \/ Drop(p) \/ Fault(p)

Next ==
  \/ \E p \in Proc, s \in Service : Request(p, s)
  \/ \E p \in Actor : Call(p)
  \/ \E s \in Service : Boot(s) \/ Tick(s)
  \/ Sample \/ Get
  \/ Crash

Spec == Init /\ [][Next]_vars

-----------------------------------------------------------------------------
(***************************************************************************)
(* Properties.                                                             *)
(***************************************************************************)

\* What a service asks for, alone, fits the quota of its member, whatever the
\* autoscaler made of it; unless it was scaled by hand, edited without a check or
\* written by an autoscaler that had read its bounds before an edit
\* (handlers_services.go: "Enforce the member's quota against the maximum this
\* service can consume (its top replica count when autoscaling)").
ServicesFit ==
  \A s \in checked : rows[s] # Nil => rows[s].n * rows[s].cpu <= Quota

\* While nothing is being checked or changed, the member's replicas fit the quota,
\* unless since all was as the rows say and fitted a check or a change overlapped
\* another one, a change ended in between, an inspect failed, or a count or a limit
\* was changed without a check (handlers_services.go: a request is validated
\* "against their quota, counting their live usage on the *target* environment").
WithinQuota ==
  (\A p \in Actor : ~ Working(p)) /\ ~ loose => Used(Service) <= Quota
=============================================================================
