------------------------- MODULE ProxyRegistryProofs -------------------------
(***************************************************************************)
(* Proofs about ProxyRegistry, for every set of goroutines, environments,  *)
(* services and subdomains, with failing calls and crashes or not.         *)
(*                                                                         *)
(* NodesFresh is not inductive: that a push does not bring an old table    *)
(* back depends on one goroutine at a time being between its reads and its *)
(* last push (MuHeld) and on what it has read (ReadFresh, PushFresh).      *)
(***************************************************************************)
EXTENDS ProxyRegistry, WellFoundedInduction, TLAPS

\* Who holds Registry.mu, and who has a job.
MuHeld == \A p \in Proc : pc[p] \in {"eps", "svcs", "push"} <=> mu = p
HasJobs == \A p \in Proc : pc[p] # "idle" <=> loc[p].jobs # <<>>

\* A later publish will see to what is stale now.
Waiting(p) == pc[p] = "lock" /\ Head(loc[p].jobs) = SyncJob
Awaited == owed \/ moved \/ \E p \in Proc : Waiting(p)

Published(n) == snap[n] = Table(Stored, n)

ReadFresh ==
  \A p \in Proc : pc[p] = "svcs" =>
    loc[p].view \in Endpoints /\ (moved \/ loc[p].view = eps)
PushFresh ==
  \A p \in Proc : pc[p] = "push" =>
    \/ Awaited
    \/ /\ \A u \in loc[p].todo : u.table = Table(Stored, u.node)
       /\ \A n \in Nodes(Stored) : Published(n) \/ \E u \in loc[p].todo : u.node = n
RestFresh == mu = Nil => Awaited \/ \A n \in Nodes(Stored) : Published(n)

IInv == TypeOK /\ MuHeld /\ HasJobs /\ ReadFresh /\ PushFresh /\ RestFresh

-----------------------------------------------------------------------------
(***************************************************************************)
(* What publish computes has the right type.                               *)
(***************************************************************************)

\* Among services that claim a host one comes first.
LEMMA FirstType ==
  ASSUME NEW S \in SUBSET Service, S # {} PROVE First(S) \in S
<1>1. \E s \in S : \A t \in S : Rank[s] <= Rank[t]
  <2> DEFINE R == OpToRel(<, Nat)
             ranks == {Rank[s] : s \in S}
  <2>1. ranks \subseteq Nat /\ ranks # {}
    BY ConstantsAssumption
  <2>2. \E i \in ranks : \A j \in ranks : ~ (<<j, i>> \in R)
    <3> HIDE DEF R, ranks
    <3>1. IsWellFoundedOn(R, Nat)
      BY NatLessThanWellFounded DEF R
    <3> QED
      BY <2>1, <3>1, WFMin
  <2>3. \A i, j \in Nat : <<j, i>> \notin R => i <= j
    BY DEF OpToRel
  <2>4. PICK i \in ranks : \A j \in ranks : i <= j
    <3> HIDE DEF R, ranks
    <3> QED
      BY <2>1, <2>2, <2>3
  <2> QED
    BY <2>4
<1> QED
  BY <1>1 DEF First

LEMMA DomainsType ==
  ASSUME NEW v \in View, NEW s \in Live(v)
  PROVE  Domains(v, s) \subseteq Host /\ v.svcs[s] \in Upstream
<1>1. v.svcs[s] \in Upstream /\ s \in Service
  BY DEF View, Live
<1>2. Slug(v, v.svcs[s].env) \in Name \cup {LocalSlug}
  BY DEF Slug, Exists
<1> QED
  BY <1>1, <1>2 DEF Domains, Host, Upstream

LEMMA TableType ==
  ASSUME NEW v \in View, NEW n \in Env PROVE Table(v, n) \subseteq Entry
<1> DEFINE here == {t \in Live(v) : v.svcs[t].env = n}
           hosts == UNION {Domains(v, s) : s \in here}
           shown == {sub \in Shown(v) : v.routes[sub].env = n}
<1>1. ASSUME NEW h \in hosts
      PROVE  h \in Host /\ First(Claims(v, n, h)) \in Service
  <2>1. PICK s \in here : h \in Domains(v, s)
    OBVIOUS
  <2>2. s \in Claims(v, n, h) /\ Claims(v, n, h) \in SUBSET Service
    BY <2>1 DEF Claims, Live
  <2>3. First(Claims(v, n, h)) \in Claims(v, n, h)
    BY <2>2, FirstType
  <2> QED
    BY <2>1, <2>2, <2>3, DomainsType
<1>2. ASSUME NEW sub \in shown
      PROVE  sub \in Host /\ v.routes[sub].to \in Target
  BY DEF Shown, View, ManualRoute, Host
<1>3. Table(v, n) = {[host |-> h, to |-> First(Claims(v, n, h))] : h \in hosts}
                      \cup {[host |-> sub, to |-> v.routes[sub].to] : sub \in shown \ hosts}
  BY DEF Table
<1> HIDE DEF hosts, shown
<1> QED
  BY <1>1, <1>2, <1>3 DEF Entry

LEMMA NodesType == ASSUME NEW v \in View PROVE Nodes(v) \subseteq Env
<1>1. \A s \in Live(v) : v.svcs[s].env \in Env
  BY DomainsType DEF Upstream
<1>2. \A sub \in Shown(v) : v.routes[sub].env \in Env
  BY DEF Shown, View, ManualRoute
<1> QED
  BY <1>1, <1>2 DEF Nodes, Env

LEMMA NoLocalType == NoLocal \in Locals
BY DEF NoLocal, Locals

-----------------------------------------------------------------------------
(***************************************************************************)
(* Steps that begin, change or fail something outside a publish.           *)
(***************************************************************************)

\* The rest of a job list, and what becomes of its goroutine.
LEMMA DoneChanges ==
  ASSUME TypeOK, HasJobs, NEW p \in Proc, pc[p] # "idle", Done(p)
  PROVE  /\ pc' \in [Proc -> {"idle", "lock", "eps", "svcs", "push"}]
         /\ loc' \in [Proc -> Locals]
         /\ pc'[p] \in {"idle", "lock"}
         /\ \A q \in Proc \ {p} : pc'[q] = pc[q] /\ loc'[q] = loc[q]
         /\ mu' = IF mu = p THEN Nil ELSE mu
         /\ HasJobs'
<1> DEFINE rest == Tail(loc[p].jobs)
           l == [NoLocal EXCEPT !.jobs = rest]
<1>1. loc[p].jobs \in Seq(Job) /\ loc[p].jobs # <<>>
  BY DEF TypeOK, Locals, HasJobs
<1>2. rest \in Seq(Job)
  BY <1>1
<1>3. l \in Locals /\ l.jobs = rest
  BY <1>2, NoLocalType DEF NoLocal, Locals
<1>4. /\ pc' = [pc EXCEPT ![p] = IF rest = <<>> THEN "idle" ELSE "lock"]
      /\ loc' = [loc EXCEPT ![p] = l]
      /\ mu' = IF mu = p THEN Nil ELSE mu
  BY DEF Done
<1> HIDE DEF rest, l
<1> QED
  BY <1>3, <1>4 DEF TypeOK, HasJobs

\* A request whose rows, if it changed them, its own Sync will publish.
LEMMA BeginStep ==
  ASSUME IInv, NEW p \in Proc, NEW jobs \in Seq(Job), jobs # <<>>,
         pc[p] = "idle", Begin(p, jobs),
         UNCHANGED <<eps, routes, snap, mu, owed, moved, crashes>>,
         svcs' \in [Service -> Upstream \cup {Nil}],
         svcs' = svcs \/ jobs = <<SyncJob>>
  PROVE  IInv'
<1> DEFINE l == [NoLocal EXCEPT !.jobs = jobs]
<1>1. l \in Locals /\ l.jobs = jobs
  BY NoLocalType DEF NoLocal, Locals
<1>2. pc' = [pc EXCEPT ![p] = "lock"] /\ loc' = [loc EXCEPT ![p] = l]
  BY DEF Begin
<1> HIDE DEF l
<1>3. TypeOK'
  BY <1>1, <1>2 DEF IInv, TypeOK, Stored, View
<1>4. MuHeld' /\ HasJobs' /\ ReadFresh'
  BY <1>1, <1>2 DEF IInv, TypeOK, MuHeld, HasJobs, ReadFresh
<1>5. Awaited => Awaited'
  BY <1>2 DEF IInv, TypeOK, Awaited, Waiting
<1>6. svcs' # svcs => Awaited'
  BY <1>1, <1>2 DEF IInv, TypeOK, Awaited, Waiting
<1>7. svcs' = svcs => Stored' = Stored
  BY DEF Stored
<1>8. PushFresh' /\ RestFresh'
  <2>1. CASE svcs' # svcs
    BY <1>6, <2>1 DEF PushFresh, RestFresh
  <2>2. CASE svcs' = svcs
    <3>1. Stored' = Stored
      BY <1>7, <2>2
    <3>2. \A n : Published(n)' <=> Published(n)
      BY <3>1 DEF Published
    <3>3. \A q \in Proc : pc'[q] = "push" => pc[q] = "push" /\ loc'[q] = loc[q]
      BY <1>2 DEF IInv, TypeOK
    <3> QED
      BY <1>5, <3>1, <3>2, <3>3 DEF IInv, PushFresh, RestFresh
  <2> QED
    BY <2>1, <2>2
<1> QED
  BY <1>3, <1>4, <1>8 DEF IInv

LEMMA RequestStep == ASSUME IInv, NEW p \in Proc, Request(p) PROVE IInv'
<1> DEFINE Set(sub, to) == [sub |-> sub, to |-> to]
<1>1. svcs \in [Service -> Upstream \cup {Nil}]
  BY DEF IInv, TypeOK, Stored, View
<1>2. ASSUME NEW sub \in Sub, NEW r \in ManualRoute, Upsert(p, sub, r) PROVE IInv'
  <2>1. <<Set(sub, r)>> \in Seq(Job) /\ <<Set(sub, r)>> # <<>>
    BY DEF Job
  <2> QED
    BY <1>1, <1>2, <2>1, BeginStep DEF Upsert, May
<1>3. ASSUME NEW sub \in Sub, Delete(p, sub) PROVE IInv'
  <2>1. <<Set(sub, Nil)>> \in Seq(Job) /\ <<Set(sub, Nil)>> # <<>>
    BY DEF Job
  <2> QED
    BY <1>1, <1>3, <2>1, BeginStep DEF Delete, May
<1>4. ASSUME NEW old \in Sub \cup {NoSub}, NEW new \in Sub \cup {NoSub}, NEW t \in Target,
             EditContainer(p, old, new, t)
      PROVE  IInv'
  <2> DEFINE retire == IF old \in {NoSub, new} THEN <<>> ELSE <<Set(old, Nil)>>
             set == IF new = NoSub THEN <<>> ELSE <<Set(new, [env |-> Local, to |-> t])>>
  <2>1. retire \in Seq(Job)
    <3>1. CASE old \in {NoSub, new}
      BY <3>1
    <3>2. CASE old \notin {NoSub, new}
      <4>1. Set(old, Nil) \in Job
        BY <3>2 DEF Job
      <4> HIDE DEF Set
      <4> QED
        BY <3>2, <4>1
    <3> QED
      BY <3>1, <3>2
  <2>2. set \in Seq(Job)
    <3>1. CASE new = NoSub
      BY <3>1
    <3>2. CASE new # NoSub
      <4>1. [env |-> Local, to |-> t] \in ManualRoute
        BY DEF ManualRoute, Env
      <4>2. Set(new, [env |-> Local, to |-> t]) \in Job
        BY <3>2, <4>1 DEF Job
      <4> HIDE DEF Set
      <4> QED
        BY <3>2, <4>2
    <3> QED
      BY <3>1, <3>2
  <2>3. retire \o set \in Seq(Job)
    BY <2>1, <2>2
  <2> QED
    BY <1>1, <1>4, <2>3, BeginStep DEF EditContainer, May
<1>5. SyncJob \in Job /\ <<SyncJob>> \in Seq(Job) /\ <<SyncJob>> # <<>>
  BY DEF SyncJob, Job
<1>6. ASSUME NEW s \in Service, NEW u \in Upstream \cup {Nil}, ChangeService(p, s, u)
      PROVE  IInv'
  BY <1>1, <1>5, <1>6, BeginStep DEF ChangeService, May
<1>7. CASE DeployEdge(p)
  BY <1>1, <1>5, <1>7, BeginStep DEF DeployEdge, May
<1> QED
  BY <1>2, <1>3, <1>4, <1>6, <1>7 DEF Request

LEMMA ChangeEndpointStep ==
  ASSUME IInv, NEW e \in Remote, NEW name \in Name \cup {Deleted}, ChangeEndpoint(e, name)
  PROVE  IInv'
<1>1. TypeOK'
  BY DEF IInv, TypeOK, ChangeEndpoint, Stored, View, Endpoints
<1>2. Awaited' /\ moved'
  BY DEF ChangeEndpoint, Awaited
<1>3. MuHeld' /\ HasJobs'
  BY DEF IInv, MuHeld, HasJobs, ChangeEndpoint
<1>4. ReadFresh'
  BY <1>2 DEF IInv, ReadFresh, ChangeEndpoint
<1>5. PushFresh' /\ RestFresh'
  BY <1>2 DEF PushFresh, RestFresh
<1> QED
  BY <1>1, <1>3, <1>4, <1>5 DEF IInv

LEMMA FaultStep == ASSUME IInv, NEW p \in Proc, Fault(p) PROVE IInv'
<1>1. /\ Done(p) /\ pc[p] # "idle"
      /\ UNCHANGED <<eps, svcs, routes, snap, moved, crashes>>
      /\ owed' = (owed \/ pc[p] # "lock" \/ Head(loc[p].jobs) = SyncJob)
  BY DEF Fault
<1>2. /\ pc' \in [Proc -> {"idle", "lock", "eps", "svcs", "push"}]
      /\ loc' \in [Proc -> Locals]
      /\ pc'[p] \in {"idle", "lock"}
      /\ \A q \in Proc \ {p} : pc'[q] = pc[q] /\ loc'[q] = loc[q]
      /\ mu' = IF mu = p THEN Nil ELSE mu
      /\ HasJobs'
  BY <1>1, DoneChanges DEF IInv
<1>3. TypeOK'
  BY <1>1, <1>2 DEF IInv, TypeOK, Stored
<1>4. MuHeld' /\ ReadFresh'
  BY <1>1, <1>2, ConstantsAssumption DEF IInv, MuHeld, ReadFresh
<1>5. PushFresh' /\ RestFresh'
  <2>1. CASE owed'
    BY <2>1 DEF PushFresh, RestFresh, Awaited
  <2>2. CASE ~ owed'
    <3>1. pc[p] = "lock" /\ ~ Waiting(p) /\ owed' = owed
      BY <1>1, <2>2 DEF Waiting, IInv, TypeOK
    <3>2. Awaited => Awaited'
      BY <1>1, <1>2, <3>1 DEF Awaited, Waiting
    <3>3. mu' = mu
      BY <1>2, <3>1 DEF IInv, MuHeld
    <3>4. Stored' = Stored /\ \A n : Published(n)' <=> Published(n)
      BY <1>1 DEF Stored, Published
    <3>5. \A q \in Proc : pc'[q] = "push" => pc[q] = "push" /\ loc'[q] = loc[q]
      BY <1>2
    <3> QED
      BY <3>2, <3>3, <3>4, <3>5 DEF IInv, PushFresh, RestFresh
  <2> QED
    BY <2>1, <2>2
<1> QED
  BY <1>2, <1>3, <1>4, <1>5 DEF IInv

\* What a start leaves: Main is about to sync, whatever the rows.
LEMMA Starts ==
  ASSUME NEW pc0, NEW loc0,
         pc0 = [p \in Proc |-> IF p = Main THEN "lock" ELSE "idle"],
         loc0 = [p \in Proc |-> Restarted(p)]
  PROVE  /\ pc0 \in [Proc -> {"idle", "lock", "eps", "svcs", "push"}]
         /\ loc0 \in [Proc -> Locals]
         /\ \A p \in Proc : pc0[p] # "idle" <=> loc0[p].jobs # <<>>
         /\ \A p \in Proc : pc0[p] \notin {"eps", "svcs", "push"}
         /\ Main \in Proc /\ pc0[Main] = "lock" /\ Head(loc0[Main].jobs) = SyncJob
         /\ Nil \notin Proc
<1> DEFINE twice == <<SyncJob, SyncJob>>
           l == [NoLocal EXCEPT !.jobs = twice]
<1>1. twice \in Seq(Job) /\ twice # <<>> /\ Head(twice) = SyncJob
  BY DEF SyncJob, Job
<1> HIDE DEF twice
<1>2. l \in Locals /\ l.jobs = twice /\ NoLocal \in Locals /\ NoLocal.jobs = <<>>
  BY <1>1, NoLocalType DEF NoLocal, Locals
<1>3. \A p \in Proc : Restarted(p) = IF p = Main THEN l ELSE NoLocal
  BY DEF Restarted, twice
<1> HIDE DEF l
<1> QED
  BY <1>1, <1>2, <1>3, ConstantsAssumption

LEMMA CrashStep == ASSUME IInv, Crash PROVE IInv'
<1>1. /\ pc' \in [Proc -> {"idle", "lock", "eps", "svcs", "push"}]
      /\ loc' \in [Proc -> Locals]
      /\ \A p \in Proc : pc'[p] # "idle" <=> loc'[p].jobs # <<>>
      /\ \A p \in Proc : pc'[p] \notin {"eps", "svcs", "push"}
      /\ Main \in Proc /\ pc'[Main] = "lock" /\ Head(loc'[Main].jobs) = SyncJob
      /\ Nil \notin Proc
  BY Starts DEF Crash
<1>2. /\ UNCHANGED <<eps, svcs, routes>> /\ mu' = Nil
      /\ snap' = [n \in Env |-> Nil] /\ owed' = FALSE /\ moved' = FALSE
      /\ crashes < MaxCrashes /\ crashes' = crashes + 1
  BY DEF Crash
<1>3. crashes' \in 0..MaxCrashes
  BY <1>2, ConstantsAssumption DEF IInv, TypeOK
<1>4. TypeOK'
  BY <1>1, <1>2, <1>3 DEF IInv, TypeOK, Stored
<1>5. Awaited' /\ MuHeld' /\ HasJobs'
  BY <1>1, <1>2 DEF Awaited, Waiting, MuHeld, HasJobs
<1> QED
  BY <1>1, <1>4, <1>5 DEF IInv, ReadFresh, PushFresh, RestFresh

-----------------------------------------------------------------------------
(***************************************************************************)
(* The steps of a publish.                                                 *)
(***************************************************************************)

\* Whoever is in the critical section is alone there.
LEMMA Alone ==
  ASSUME MuHeld, NEW p \in Proc, pc[p] \in {"eps", "svcs", "push"}
  PROVE  /\ mu = p /\ mu # Nil
         /\ \A q \in Proc \ {p} : pc[q] \notin {"eps", "svcs", "push"}
BY ConstantsAssumption DEF MuHeld

LEMMA LockStep == ASSUME IInv, NEW p \in Proc, Lock(p) PROVE IInv'
<1> DEFINE job == Head(loc[p].jobs)
<1>1. job \in Job
  <2>1. loc[p].jobs \in Seq(Job) /\ loc[p].jobs # <<>>
    BY DEF IInv, TypeOK, Locals, HasJobs, Lock, Locked
  <2> QED
    BY <2>1
<1>2. /\ mu = Nil /\ pc[p] = "lock" /\ mu' = p
      /\ routes' = IF job = SyncJob THEN routes ELSE [routes EXCEPT ![job.sub] = job.to]
      /\ pc' = [pc EXCEPT ![p] = "eps"]
      /\ UNCHANGED <<eps, svcs, snap, loc, owed, moved, crashes>>
  BY DEF Lock, Locked
<1> HIDE DEF job
<1>3. routes' \in [Sub -> ManualRoute \cup {Nil}]
  BY <1>1, <1>2 DEF IInv, TypeOK, Stored, View, Job
<1>4. TypeOK'
  BY <1>2, <1>3 DEF IInv, TypeOK, Stored, View
<1>5. \A q \in Proc : pc[q] \notin {"eps", "svcs", "push"}
  BY <1>2, ConstantsAssumption DEF IInv, MuHeld
<1>6. MuHeld' /\ HasJobs'
  BY <1>2, <1>5 DEF IInv, TypeOK, MuHeld, HasJobs
<1>7. ReadFresh' /\ PushFresh'
  BY <1>2, <1>5 DEF IInv, TypeOK, ReadFresh, PushFresh
<1>8. RestFresh'
  BY <1>2, ConstantsAssumption DEF RestFresh
<1> QED
  BY <1>4, <1>6, <1>7, <1>8 DEF IInv

LEMMA ReadEndpointsStep == ASSUME IInv, NEW p \in Proc, ReadEndpoints(p) PROVE IInv'
<1>1. /\ pc[p] = "eps" /\ pc' = [pc EXCEPT ![p] = "svcs"] /\ moved' = FALSE
      /\ loc' = [loc EXCEPT ![p].view = eps]
      /\ UNCHANGED <<eps, svcs, routes, snap, mu, owed, crashes>>
  BY DEF ReadEndpoints
<1>2. eps \in Endpoints
  BY DEF IInv, TypeOK, Stored, View
<1>3. /\ loc' \in [Proc -> Locals]
      /\ loc'[p].view = eps
      /\ \A q \in Proc : loc'[q].jobs = loc[q].jobs
  BY <1>1, <1>2 DEF IInv, TypeOK, Locals
<1>4. TypeOK'
  BY <1>1, <1>3 DEF IInv, TypeOK, Stored
<1>5. mu # Nil /\ \A q \in Proc \ {p} : pc[q] \notin {"eps", "svcs", "push"}
  BY <1>1, Alone DEF IInv
<1>6. MuHeld' /\ HasJobs'
  BY <1>1, <1>3 DEF IInv, TypeOK, MuHeld, HasJobs
<1>7. ReadFresh' /\ PushFresh' /\ RestFresh'
  BY <1>1, <1>2, <1>3, <1>5 DEF IInv, TypeOK, ReadFresh, PushFresh, RestFresh
<1> QED
  BY <1>4, <1>6, <1>7 DEF IInv

LEMMA ReadServicesStep == ASSUME IInv, NEW p \in Proc, ReadServices(p) PROVE IInv'
<1> DEFINE v == [eps |-> loc[p].view, svcs |-> svcs, routes |-> routes]
           todo == {[node |-> n, table |-> Table(v, n)] : n \in Nodes(v)}
<1>1. /\ pc[p] = "svcs" /\ pc' = [pc EXCEPT ![p] = "push"] /\ owed' = FALSE
      /\ loc' = [loc EXCEPT ![p].view = Nil, ![p].todo = todo]
      /\ UNCHANGED <<eps, svcs, routes, snap, mu, moved, crashes>>
  BY DEF ReadServices
<1>2. loc[p].view \in Endpoints /\ (moved \/ loc[p].view = eps)
  BY <1>1 DEF IInv, ReadFresh
<1>3. v \in View /\ (moved \/ v = Stored)
  BY <1>2 DEF IInv, TypeOK, Stored, View
<1> HIDE DEF v
<1>4. todo \in SUBSET [node : Env, table : SUBSET Entry]
  BY <1>3, NodesType, TableType
<1>5. moved \/ todo = {[node |-> n, table |-> Table(Stored, n)] : n \in Nodes(Stored)}
  BY <1>3
<1> HIDE DEF todo
<1>6. /\ loc' \in [Proc -> Locals]
      /\ loc'[p].todo = todo
      /\ \A q \in Proc : loc'[q].jobs = loc[q].jobs
  BY <1>1, <1>4 DEF IInv, TypeOK, Locals
<1>7. TypeOK'
  BY <1>1, <1>6 DEF IInv, TypeOK, Stored
<1>8. mu # Nil /\ \A q \in Proc \ {p} : pc[q] \notin {"eps", "svcs", "push"}
  BY <1>1, Alone DEF IInv
<1>9. MuHeld' /\ HasJobs'
  BY <1>1, <1>6 DEF IInv, TypeOK, MuHeld, HasJobs
<1>10. ReadFresh' /\ RestFresh'
  BY <1>1, <1>8 DEF IInv, TypeOK, ReadFresh, RestFresh
<1>11. PushFresh'
  <2>1. \A q \in Proc : pc'[q] = "push" => q = p
    BY <1>1, <1>8 DEF IInv, TypeOK
  <2>2. CASE moved
    BY <1>1, <2>2 DEF PushFresh, Awaited
  <2>3. CASE ~ moved
    <3>1. Stored' = Stored
      BY <1>1 DEF Stored
    <3>2. \A u \in todo : u.table = Table(Stored, u.node)
      BY <1>5, <2>3
    <3>3. ASSUME NEW n \in Nodes(Stored) PROVE \E u \in todo : u.node = n
      <4>1. [node |-> n, table |-> Table(Stored, n)] \in todo
        BY <1>5, <2>3
      <4> QED
        BY <4>1
    <3> QED
      BY <1>6, <2>1, <3>1, <3>2, <3>3 DEF PushFresh
  <2> QED
    BY <2>2, <2>3
<1> QED
  BY <1>7, <1>9, <1>10, <1>11 DEF IInv

LEMMA PushStep == ASSUME IInv, NEW p \in Proc, Push(p) PROVE IInv'
<1>1. PICK u \in loc[p].todo :
        /\ snap' = [snap EXCEPT ![u.node] = u.table]
        /\ IF loc[p].todo = {u}
           THEN Done(p)
           ELSE loc' = [loc EXCEPT ![p].todo = @ \ {u}] /\ UNCHANGED <<mu, pc>>
  BY DEF Push
<1>2. pc[p] = "push" /\ UNCHANGED <<eps, svcs, routes, owed, moved, crashes>>
  BY DEF Push
<1>3. u \in [node : Env, table : SUBSET Entry]
  BY DEF IInv, TypeOK, Locals
<1>4. snap' \in [Env -> (SUBSET Entry) \cup {Nil}]
  BY <1>1, <1>3 DEF IInv, TypeOK
<1>5. Stored' = Stored
  BY <1>2 DEF Stored
<1>6. \A q \in Proc \ {p} : pc[q] \notin {"eps", "svcs", "push"}
  BY <1>2, Alone DEF IInv
\* A node that is written gets the table that the rows give it.
<1>7. ASSUME u.table = Table(Stored, u.node), NEW n \in Env,
             Published(n) \/ u.node = n
      PROVE  Published(n)'
  BY <1>1, <1>3, <1>5, <1>7 DEF IInv, TypeOK, Published
<1>8. CASE loc[p].todo = {u}
  <2>1. /\ pc' \in [Proc -> {"idle", "lock", "eps", "svcs", "push"}]
        /\ loc' \in [Proc -> Locals]
        /\ pc'[p] \in {"idle", "lock"}
        /\ \A q \in Proc \ {p} : pc'[q] = pc[q] /\ loc'[q] = loc[q]
        /\ mu' = IF mu = p THEN Nil ELSE mu
        /\ HasJobs'
    BY <1>1, <1>2, <1>8, DoneChanges DEF IInv
  <2>2. mu = p /\ mu' = Nil
    BY <1>2, <2>1, Alone DEF IInv
  <2>3. TypeOK'
    BY <1>2, <1>4, <2>1, <2>2 DEF IInv, TypeOK, Stored
  <2>4. \A q \in Proc : pc'[q] \notin {"eps", "svcs", "push"}
    BY <1>6, <2>1
  <2>5. MuHeld' /\ ReadFresh' /\ PushFresh'
    BY <2>2, <2>4, ConstantsAssumption DEF MuHeld, ReadFresh, PushFresh
  <2>6. Awaited => Awaited'
    BY <1>2, <2>1 DEF Awaited, Waiting
  <2>7. Awaited' \/ \A n \in Nodes(Stored) : Published(n)'
    <3>1. CASE Awaited
      BY <2>6, <3>1
    <3>2. CASE ~ Awaited
      <4>1. /\ u.table = Table(Stored, u.node)
            /\ \A n \in Nodes(Stored) : Published(n) \/ u.node = n
        BY <1>2, <1>8, <3>2 DEF IInv, PushFresh
      <4>2. Nodes(Stored) \subseteq Env
        BY NodesType DEF IInv, TypeOK
      <4> QED
        BY <1>7, <4>1, <4>2
    <3> QED
      BY <3>1, <3>2
  <2>8. RestFresh'
    BY <1>5, <2>7 DEF RestFresh
  <2> QED
    BY <2>1, <2>3, <2>5, <2>8 DEF IInv
<1>9. CASE loc[p].todo # {u}
  <2>1. loc' = [loc EXCEPT ![p].todo = @ \ {u}] /\ UNCHANGED <<mu, pc>>
    BY <1>1, <1>9
  <2>2. /\ loc' \in [Proc -> Locals]
        /\ loc'[p].todo = loc[p].todo \ {u}
        /\ \A q \in Proc : loc'[q].jobs = loc[q].jobs
    BY <2>1 DEF IInv, TypeOK, Locals
  <2>3. TypeOK'
    BY <1>2, <1>4, <2>1, <2>2 DEF IInv, TypeOK, Stored
  <2>4. MuHeld' /\ HasJobs'
    BY <2>1, <2>2 DEF IInv, MuHeld, HasJobs
  <2>5. ReadFresh' /\ RestFresh'
    BY <1>2, <1>6, <2>1, Alone DEF IInv, ReadFresh, RestFresh
  <2>6. Awaited => Awaited'
    BY <1>2, <2>1, <2>2 DEF Awaited, Waiting
  <2>7. PushFresh'
    <3>1. CASE Awaited
      BY <2>6, <3>1 DEF PushFresh
    <3>2. CASE ~ Awaited
      <4>1. /\ \A w \in loc[p].todo : w.table = Table(Stored, w.node)
            /\ \A n \in Nodes(Stored) :
                 Published(n) \/ \E w \in loc[p].todo : w.node = n
        BY <1>2, <3>2 DEF IInv, PushFresh
      <4>2. Nodes(Stored) \subseteq Env
        BY NodesType DEF IInv, TypeOK
      <4>3. \A n \in Nodes(Stored) :
              Published(n)' \/ \E w \in loc'[p].todo : w.node = n
        BY <1>7, <2>2, <4>1, <4>2
      <4> QED
        BY <1>2, <1>5, <1>6, <2>1, <2>2, <4>1, <4>3 DEF PushFresh
    <3> QED
      BY <3>1, <3>2
  <2> QED
    BY <2>3, <2>4, <2>5, <2>7 DEF IInv
<1> QED
  BY <1>8, <1>9

-----------------------------------------------------------------------------

LEMMA InitIInv == Init => IInv
<1> SUFFICES ASSUME Init PROVE IInv
  OBVIOUS
<1>1. /\ pc \in [Proc -> {"idle", "lock", "eps", "svcs", "push"}]
      /\ loc \in [Proc -> Locals]
      /\ \A p \in Proc : pc[p] # "idle" <=> loc[p].jobs # <<>>
      /\ \A p \in Proc : pc[p] \notin {"eps", "svcs", "push"}
      /\ Main \in Proc /\ pc[Main] = "lock" /\ Head(loc[Main].jobs) = SyncJob
      /\ Nil \notin Proc
  BY Starts DEF Init
<1>2. Stored \in View
  BY DEF Init, Stored, View, Endpoints
<1>3. snap \in [Env -> (SUBSET Entry) \cup {Nil}] /\ mu = Nil
  BY DEF Init
<1>4. owed = FALSE /\ moved = FALSE /\ crashes \in 0..MaxCrashes
  BY ConstantsAssumption DEF Init
<1>5. TypeOK
  BY <1>1, <1>2, <1>3, <1>4 DEF TypeOK
<1>6. Awaited /\ MuHeld /\ HasJobs
  BY <1>1, <1>3 DEF Awaited, Waiting, MuHeld, HasJobs
<1> QED
  BY <1>1, <1>5, <1>6 DEF IInv, ReadFresh, PushFresh, RestFresh

LEMMA NextIInv == IInv /\ [Next]_vars => IInv'
<1> SUFFICES ASSUME IInv, [Next]_vars PROVE IInv'
  OBVIOUS
<1>1. ASSUME NEW p \in Proc, Publish(p) PROVE IInv'
  BY <1>1, LockStep, ReadEndpointsStep, ReadServicesStep, PushStep DEF Publish
<1>2. CASE Next
  BY <1>1, <1>2, RequestStep, FaultStep, ChangeEndpointStep, CrashStep DEF Next
<1>3. CASE UNCHANGED vars
  <2>1. Stored' = Stored
    BY <1>3 DEF vars, Stored
  <2> QED
    BY <1>3, <2>1 DEF IInv, vars, TypeOK, MuHeld, HasJobs, ReadFresh, PushFresh, RestFresh,
                      Awaited, Waiting, Published
<1> QED
  BY <1>2, <1>3

\* The invariant that the other two theorems follow from: one goroutine at a
\* time is between locking Registry.mu and its last push, and what it read and
\* has still to push is what the rows say, or a later publish is due.
THEOREM InductiveInvariant == Spec => []IInv
BY InitIInv, NextIInv, PTL DEF Spec

\* Every variable keeps its type: in particular publish computes for every node
\* a table of known hosts, and every node it pushes to is an environment.
THEOREM TypeCorrect == Spec => []TypeOK
<1>1. IInv => TypeOK
  BY DEF IInv
<1> QED
  BY <1>1, InductiveInvariant, PTL

\* No node is left with a stale snapshot unless a publish is due that will
\* repair it (Upsert, Delete and Sync write and publish in one critical section).
THEOREM NodesStayFresh == Spec => []NodesFresh
<1>1. IInv => NodesFresh
  <2> SUFFICES ASSUME IInv, NEW n \in Nodes(Stored)
               PROVE  snap[n] = Table(Stored, n) \/ owed \/ moved
                        \/ \E p \in Proc : WillPublish(p, n)
    BY DEF NodesFresh
  <2>1. ASSUME Awaited PROVE owed \/ moved \/ \E p \in Proc : WillPublish(p, n)
    BY <2>1 DEF Awaited, Waiting, WillPublish
  <2>2. CASE mu = Nil
    BY <2>1, <2>2 DEF IInv, RestFresh, Published
  <2>3. ASSUME NEW p \in Proc, mu = p, pc[p] = "push", ~ Awaited
        PROVE  Published(n) \/ WillPublish(p, n)
    <3>1. CASE Published(n)
      BY <3>1
    <3>2. CASE ~ Published(n)
      <4>1. PICK u \in loc[p].todo : u.node = n /\ u.table = Table(Stored, n)
        BY <2>3, <3>2 DEF IInv, PushFresh
      <4>2. u = [node |-> n, table |-> Table(Stored, n)]
        BY <4>1 DEF IInv, TypeOK, Locals
      <4> QED
        BY <2>3, <4>1, <4>2 DEF WillPublish
    <3> QED
      BY <3>1, <3>2
  <2>4. CASE mu # Nil
    <3>1. PICK p \in Proc : mu = p /\ pc[p] \in {"eps", "svcs", "push"}
      BY <2>4 DEF IInv, TypeOK, MuHeld
    <3>2. CASE pc[p] # "push"
      BY <3>1, <3>2 DEF WillPublish
    <3>3. CASE pc[p] = "push"
      BY <2>1, <2>3, <3>1, <3>3 DEF Published
    <3> QED
      BY <3>2, <3>3
  <2> QED
    BY <2>2, <2>4
<1> QED
  BY <1>1, InductiveInvariant, PTL

-----------------------------------------------------------------------------
(***************************************************************************)
(* What Envoy serves at rest.                                              *)
(***************************************************************************)

\* At rest, with nothing left to a later publish, every node is up to date.
LEMMA RestPublished ==
  ASSUME IInv, Quiet, ~ moved, NEW n \in Nodes(Stored)
  PROVE  snap[n] = Table(Stored, n)
<1>1. mu = Nil
  BY DEF IInv, TypeOK, MuHeld, Quiet
<1>2. ~ Awaited
  BY DEF Awaited, Waiting, Quiet
<1> QED
  BY <1>1, <1>2 DEF IInv, RestFresh, Published

\* A host of a service is in the table of its node, and leads to a service that
\* claims it.
LEMMA ServiceHostServed ==
  ASSUME NEW v \in View, NEW s \in Live(v), NEW h \in Domains(v, s)
  PROVE  LET n == v.svcs[s].env IN
         \E t \in Claims(v, n, h) : [host |-> h, to |-> t] \in Table(v, n)
<1> DEFINE n == v.svcs[s].env
           t == First(Claims(v, n, h))
           hosts == UNION {Domains(v, r) : r \in {q \in Live(v) : v.svcs[q].env = n}}
<1>1. s \in Claims(v, n, h) /\ Claims(v, n, h) \in SUBSET Service
  BY DEF Claims, Live
<1>2. t \in Claims(v, n, h)
  BY <1>1, FirstType
<1>3. h \in hosts
  OBVIOUS
<1>4. [host |-> h, to |-> t] \in Table(v, n)
  BY <1>3 DEF Table
<1> QED
  BY <1>2, <1>4

\* A custom subdomain of a service never leads to a container of a manual route
\* once everything is published: publish leaves such routes out on every node.
THEOREM ServicesAlwaysWin == Spec => []ServicesWin
<1>1. IInv => ServicesWin
  <2> SUFFICES ASSUME IInv, Quiet, ~ moved, NEW n \in Nodes(Stored), NEW e \in Entry,
                      e \in snap[n], e.host \in ServiceSubs(Stored)
               PROVE  e.to \in Service
    BY DEF ServicesWin
  <2> DEFINE hosts == UNION {Domains(Stored, s) :
                               s \in {t \in Live(Stored) : Stored.svcs[t].env = n}}
             shown == {sub \in Shown(Stored) : Stored.routes[sub].env = n}
  <2>1. e \in Table(Stored, n)
    BY RestPublished
  <2>2. \/ \E h \in hosts : e = [host |-> h, to |-> First(Claims(Stored, n, h))]
        \/ \E sub \in shown \ hosts : e = [host |-> sub, to |-> Stored.routes[sub].to]
    BY <2>1 DEF Table
  <2>3. CASE \E h \in hosts : e = [host |-> h, to |-> First(Claims(Stored, n, h))]
    <3>1. PICK h \in hosts : e = [host |-> h, to |-> First(Claims(Stored, n, h))]
      BY <2>3
    <3>2. PICK s \in Live(Stored) : Stored.svcs[s].env = n /\ h \in Domains(Stored, s)
      BY <3>1
    <3>3. s \in Claims(Stored, n, h) /\ Claims(Stored, n, h) \in SUBSET Service
      BY <3>2 DEF Claims, Live
    <3>4. First(Claims(Stored, n, h)) \in Service
      BY <3>3, FirstType
    <3> QED
      BY <3>1, <3>4
  <2>4. CASE \E sub \in shown \ hosts : e = [host |-> sub, to |-> Stored.routes[sub].to]
    <3>1. \A sub \in shown : sub \notin ServiceSubs(Stored)
      BY DEF Shown
    <3> QED
      BY <2>4, <3>1
  <2> QED
    BY <2>2, <2>3, <2>4
<1> QED
  BY <1>1, InductiveInvariant, PTL

\* Every address the API shows for a service is served once everything is
\* published, and the automatic one leads to the service or to one that claims
\* that very host.
THEOREM ShownAddressesAlwaysServed == Spec => []ShownAddressesServed
<1>1. IInv => ShownAddressesServed
  <2> SUFFICES ASSUME IInv, Quiet, ~ moved, NEW s \in Live(Stored) PROVE Served(s)
    BY DEF ShownAddressesServed
  <2> DEFINE n == svcs[s].env
             auto == <<s, Slug(Stored, n)>>
  <2>1. Stored \in View /\ Stored.svcs = svcs /\ s \in Service
    BY DEF IInv, TypeOK, Stored, Live
  <2>2. n \in Nodes(Stored)
    BY <2>1 DEF Nodes
  <2>3. snap[n] = Table(Stored, n)
    BY <2>2, RestPublished
  <2>4. ASSUME NEW h \in Domains(Stored, s)
        PROVE  \E t \in Claims(Stored, n, h) : [host |-> h, to |-> t] \in snap[n]
    BY <2>1, <2>3, ServiceHostServed
  <2>5. \A h : Claims(Stored, n, h) \subseteq Service
    BY DEF Claims, Live
  <2>6. \A h \in ServiceDomains(s) : \E t \in Service : [host |-> h, to |-> t] \in snap[n]
    BY <2>4, <2>5 DEF ServiceDomains
  <2>7. auto \in Domains(Stored, s)
    BY <2>1 DEF Domains
  <2>8. PICK t \in Claims(Stored, n, auto) : [host |-> auto, to |-> t] \in snap[n]
    BY <2>4, <2>7
  <2>9. t = s \/ svcs[t].sub = auto
    BY <2>1, <2>8 DEF Claims, Domains
  <2> QED
    BY <2>5, <2>6, <2>8, <2>9 DEF Served
<1> QED
  BY <1>1, InductiveInvariant, PTL

-----------------------------------------------------------------------------
(***************************************************************************)
(* The registry implements Publication.                                    *)
(***************************************************************************)

\* Only a goroutine that pushes has updates left.
TodoPushed == \A p \in Proc : pc[p] # "push" => loc[p].todo = {}

LEMMA TodoPushedStep == ASSUME IInv, TodoPushed, [Next]_vars PROVE TodoPushed'
<1>1. ASSUME NEW p \in Proc, Done(p) \/ \E jobs : Begin(p, jobs) PROVE TodoPushed'
  <2>1. NoLocal.todo = {}
    BY DEF NoLocal
  <2>2. \A jobs : [NoLocal EXCEPT !.jobs = jobs].todo = {}
    BY <2>1 DEF NoLocal
  <2>3. PICK jobs : loc' = [loc EXCEPT ![p] = [NoLocal EXCEPT !.jobs = jobs]]
    BY <1>1 DEF Done, Begin
  <2>4. \A q \in Proc \ {p} : pc'[q] = pc[q]
    BY <1>1 DEF Done, Begin, IInv, TypeOK
  <2> QED
    BY <2>2, <2>3, <2>4 DEF IInv, TypeOK, TodoPushed
<1>2. ASSUME NEW p \in Proc, Request(p) PROVE TodoPushed'
  BY <1>1, <1>2 DEF Request, Upsert, Delete, EditContainer, ChangeService, DeployEdge
<1>3. ASSUME NEW p \in Proc, Lock(p) \/ ReadEndpoints(p) PROVE TodoPushed'
  <2>1. \A q \in Proc : pc'[q] # "push" => pc[q] # "push"
    BY <1>3 DEF Lock, Locked, ReadEndpoints, IInv, TypeOK
  <2>2. \A q \in Proc : loc'[q].todo = loc[q].todo
    BY <1>3 DEF Lock, Locked, ReadEndpoints, IInv, TypeOK, Locals
  <2> QED
    BY <2>1, <2>2 DEF TodoPushed
<1>4. ASSUME NEW p \in Proc, ReadServices(p) PROVE TodoPushed'
  BY <1>4 DEF ReadServices, IInv, TypeOK, TodoPushed
<1>5. ASSUME NEW p \in Proc, Push(p) PROVE TodoPushed'
  <2>1. CASE Done(p)
    BY <1>1, <2>1
  <2>2. CASE pc' = pc /\ \E u \in loc[p].todo : loc' = [loc EXCEPT ![p].todo = @ \ {u}]
    BY <1>5, <2>2 DEF Push, IInv, TypeOK, TodoPushed
  <2> QED
    BY <1>5, <2>1, <2>2 DEF Push
<1>6. CASE Crash
  <2>1. \A p \in Proc : Restarted(p).todo = {}
    BY DEF Restarted, NoLocal
  <2> QED
    BY <1>6, <2>1 DEF Crash, TodoPushed
<1>7. CASE UNCHANGED <<pc, loc>>
  BY <1>7 DEF TodoPushed
<1> QED
  BY <1>1, <1>2, <1>3, <1>4, <1>5, <1>6, <1>7
     DEF Next, Publish, Fault, ChangeEndpoint, vars

\* A step that leaves the snapshots, the mutex and what its holder has read alone.
LEMMA Elsewhere ==
  ASSUME IInv, NEW p \in Proc, mu # p, UNCHANGED <<snap, mu, moved>>,
         NEW l, loc' = [loc EXCEPT ![p] = l]
  PROVE  Registry!Next
<1>1. InPush' = InPush
  BY DEF InPush, IInv, TypeOK
<1> QED
  BY <1>1 DEF Registry!Next, Registry!Change

\* What Registry!Read and the others leave alone.
LEMMA SameRows ==
  ASSUME UNCHANGED <<eps, svcs, routes>>
  PROVE  /\ [n \in Env |-> Table(Stored, n)]' = [n \in Env |-> Table(Stored, n)]
         /\ Nodes(Stored)' = Nodes(Stored)
BY DEF Stored

\* Each step of the registry is one of Publication, or none.
LEMMA StepPublishes ==
  ASSUME IInv, TodoPushed, [Next]_vars PROVE [Registry!Next]_(Registry!vars)
<1>1. ASSUME NEW p \in Proc, Request(p) PROVE Registry!Next
  <2>1. PICK jobs : Begin(p, jobs)
    BY <1>1 DEF Request, Upsert, Delete, EditContainer, ChangeService, DeployEdge
  <2>2. pc[p] = "idle" /\ UNCHANGED <<snap, mu, moved>>
    BY <1>1 DEF Request, Upsert, Delete, EditContainer, ChangeService, DeployEdge, May
  <2> QED
    BY <2>1, <2>2, Elsewhere DEF Begin, IInv, MuHeld
<1>2. ASSUME NEW p \in Proc, Lock(p) PROVE Registry!Next
  <2>1. InPush = {} /\ InPush' = {}
    BY <1>2, ConstantsAssumption DEF Lock, Locked, InPush, TodoPushed
  <2> QED
    BY <1>2, <2>1 DEF Lock, Locked, Registry!Next, Registry!Change
<1>3. ASSUME NEW p \in Proc, ReadEndpoints(p) PROVE Registry!Next
  <2>1. mu = p /\ mu # Nil /\ mu' = mu
    BY <1>3, Alone DEF ReadEndpoints, IInv
  <2>2. loc'[p].todo = loc[p].todo
    BY <1>3 DEF ReadEndpoints, IInv, TypeOK, Locals
  <2>3. InPush = {} /\ InPush' = {}
    BY <1>3, <2>1, <2>2 DEF ReadEndpoints, InPush, TodoPushed
  <2> QED
    BY <1>3, <2>3 DEF ReadEndpoints, Registry!Next, Registry!Begin
<1>4. ASSUME NEW p \in Proc, ReadServices(p) PROVE Registry!Next
  <2> DEFINE v == [eps |-> loc[p].view, svcs |-> svcs, routes |-> routes]
             todo == {[node |-> n, table |-> Table(v, n)] : n \in Nodes(v)}
  <2>1. mu = p /\ mu # Nil /\ mu' = mu
    BY <1>4, Alone DEF ReadServices, IInv
  <2>2. loc' = [loc EXCEPT ![p].view = Nil, ![p].todo = todo]
    BY <1>4 DEF ReadServices
  <2>3. moved \/ v = Stored
    BY <1>4 DEF ReadServices, IInv, ReadFresh, Stored
  <2>4. moved \/ todo = {Registry!Update(n) : n \in Nodes(Stored)}
    <3>1. CASE moved
      BY <3>1
    <3>2. CASE v = Stored
      <4>1. \A n \in Nodes(Stored) : Registry!Update(n) = [node |-> n, table |-> Table(Stored, n)]
        BY NodesType DEF Registry!Update, IInv, TypeOK
      <4> HIDE DEF v
      <4> QED
        BY <3>2, <4>1
    <3> QED
      BY <2>3, <3>1, <3>2
  <2> HIDE DEF todo
  <2>5. loc'[p].todo = todo
    BY <2>2 DEF IInv, TypeOK, Locals
  <2>6. InPush = {} /\ InPush' = todo
    BY <1>4, <2>1, <2>5 DEF ReadServices, InPush, TodoPushed
  <2> QED
    BY <1>4, <2>4, <2>6, SameRows DEF ReadServices, Registry!Next, Registry!Read
<1>5. ASSUME NEW p \in Proc, Push(p) PROVE Registry!Next
  <2>1. PICK u \in loc[p].todo :
          /\ snap' = [snap EXCEPT ![u.node] = u.table]
          /\ IF loc[p].todo = {u}
             THEN Done(p)
             ELSE loc' = [loc EXCEPT ![p].todo = @ \ {u}] /\ UNCHANGED <<mu, pc>>
    BY <1>5 DEF Push
  <2>2. mu = p /\ mu # Nil
    BY <1>5, Alone DEF Push, IInv
  <2>3. InPush' = InPush \ {u}
    <3>1. CASE loc[p].todo = {u}
      BY <2>1, <2>2, <3>1 DEF InPush, Done
    <3>2. CASE loc[p].todo # {u}
      BY <2>1, <2>2, <3>2 DEF InPush, IInv, TypeOK, Locals
    <3> QED
      BY <3>1, <3>2
  <2>4. u \in InPush
    BY <2>2 DEF InPush
  <2>5. Registry!Push
    BY <1>5, <2>1, <2>3, <2>4, SameRows DEF Push, Registry!Push
  <2> QED
    BY <2>5 DEF Registry!Next
<1>6. ASSUME NEW p \in Proc, Fault(p) PROVE Registry!Next
  <2>1. Done(p) /\ UNCHANGED <<eps, svcs, routes, snap, moved>>
    BY <1>6 DEF Fault
  <2>2. CASE mu = p
    <3>1. InPush' = {}
      BY <2>1, <2>2, ConstantsAssumption DEF InPush, Done
    <3>2. Registry!GiveUp
      BY <2>1, <3>1, SameRows DEF Registry!GiveUp
    <3> QED
      BY <3>2 DEF Registry!Next
  <2>3. CASE mu # p
    BY <2>1, <2>3, Elsewhere DEF Done
  <2> QED
    BY <2>2, <2>3
<1>7. ASSUME NEW e \in Remote, NEW name \in Name \cup {Deleted}, ChangeEndpoint(e, name)
      PROVE  Registry!Next
  <2>1. InPush' = InPush
    BY <1>7 DEF ChangeEndpoint, InPush
  <2> QED
    BY <1>7, <2>1 DEF ChangeEndpoint, Registry!Next, Registry!Move
<1>8. CASE Crash
  <2>1. InPush' = {}
    BY <1>8 DEF Crash, InPush
  <2> QED
    BY <1>8, <2>1, SameRows DEF Crash, Registry!Next, Registry!Stop
<1>9. CASE UNCHANGED vars
  <2>1. InPush' = InPush
    BY <1>9 DEF vars, InPush
  <2> QED
    BY <1>9, <2>1 DEF vars, Registry!Next, Registry!Change
<1> QED
  BY <1>1, <1>2, <1>3, <1>4, <1>5, <1>6, <1>7, <1>8, <1>9 DEF Next, Publish

LEMMA InitPublishes == ASSUME Init PROVE Registry!Init /\ TodoPushed
<1>1. \A p \in Proc : Restarted(p).todo = {}
  BY DEF Restarted, NoLocal
<1>2. mu = Nil /\ InPush = {}
  BY DEF Init, InPush
<1> QED
  BY <1>1, <1>2 DEF Init, Registry!Init, TodoPushed

\* The registry implements Publication: whatever goroutines publish, fail or are
\* stopped, the snapshots change as if one publication at a time read the store
\* and pushed to every node what it read.
THEOREM ImplementsPublication == Spec => Publishes
<1>1. Init => Registry!Init /\ TodoPushed
  BY InitPublishes
<1>2. IInv /\ TodoPushed /\ [Next]_vars => TodoPushed'
  BY TodoPushedStep
<1>3. IInv /\ TodoPushed /\ [Next]_vars => [Registry!Next]_(Registry!vars)
  BY StepPublishes
<1> QED
  BY <1>1, <1>2, <1>3, InductiveInvariant, PTL DEF Spec, Publishes, Registry!Spec
=============================================================================
