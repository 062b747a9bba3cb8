------------------------ MODULE ServiceManagerProofs ------------------------
(***************************************************************************)
(* Proofs about ServiceManager, for every set of goroutines, services and  *)
(* requests, every replica bound, with failing calls and crashes or not.   *)
(*                                                                         *)
(* FreshOrOwed is not inductive: that a publishing goroutine replaces the  *)
(* snapshot by one at least as fresh depends on its being the only one     *)
(* between the read and the push (HoldsRmu), and that a writer stays       *)
(* responsible until its Sync on which calls an operation makes (Fits).    *)
(*                                                                         *)
(* What operations that run in order leave behind (RolledOut, Converged,   *)
(* Owned, AtMostOneDown) is not inductive either: it speaks of the end of  *)
(* an operation, or of one moment of it.  The invariant that carries it    *)
(* (Turns and Rest) says whose turn it is to replace replicas, how far he  *)
(* is when he makes his next call, what he knows of the containers by then *)
(* (Mirrors, Rolled, Renewed), and that every other service is as its row  *)
(* says or still to be visited by SyncAll.                                 *)
(***************************************************************************)
EXTENDS ServiceManager, FiniteSetTheorems, WellFoundedInduction, TLAPS

Resting == {"idle", "sample", "get"}
Writers == {"update", "scale", "redeploy", "subdomain"}
Working == {"write", "list", "start", "kill", "deploy", "startnew", "trim", "drop"}

\* The locals l that a goroutine may have when it makes the call `at`.
Fits(l, at) ==
  /\ at \in Resting <=> l.op = "none"
  /\ at = "write" => l.op \in Writers
  /\ at = "drop" => l.op = "delete"
  /\ at = "boot" => l.op = "boot"
  /\ at \in {"kill", "deploy"} => Missing(l) # {}
  /\ at \in Working => l.id \in SvcId
  /\ at \in Working \cup {"get"} => l.s \in Service /\ l.cfg \in Config

AllFit == \A p \in Proc : Fits(loc[p], pc[p])

HoldsRmu == \A p \in Proc : pc[p] = "push" <=> rmu = p

\* The routes that will be published when the push in progress is over.
Coming == IF rmu = Nil THEN snap ELSE loc[rmu].view
ComingFresh == Coming = Upstreams \/ owed \/ \E p \in Proc : Dirty(p)

IInv == TypeOK /\ IsFiniteSet(cont) /\ AllFit /\ HoldsRmu /\ ComingFresh

-----------------------------------------------------------------------------
(***************************************************************************)
(* The data the goroutines compute with.                                   *)
(***************************************************************************)

\* A normalised request is a configuration again.
LEMMA NormalType == ASSUME NEW req \in Config PROVE Normal(req) \in Config
<1>1. ASSUME NEW n \in Count, NEW lo \in Count PROVE AtLeast(n, lo) \in Count
  BY <1>1 DEF AtLeast
<1>2. 1 \in Count /\ req.replicas \in Count /\ req.min \in Count /\ req.max \in Count
  BY ConstantsAssumption DEF Config, Count
<1> DEFINE r == AtLeast(req.replicas, 1)
           lo == AtLeast(req.min, 1)
           hi == AtLeast(AtLeast(req.max, r), lo)
<1>3. r \in Count /\ lo \in Count /\ hi \in Count
  BY <1>1, <1>2
<1> HIDE DEF r, lo, hi
<1>4. [req EXCEPT !.replicas = r, !.min = lo, !.max = hi] \in Config
  BY <1>3 DEF Config
<1> QED
  BY <1>4 DEF Normal, r, lo, hi

LEMMA NoLocalType == NoLocal \in Local
BY DEF NoLocal, Local

\* The next index that a replica lacks is an index, the least of these.
LEMMA NextIndexType ==
  ASSUME NEW l, Missing(l) # {}
  PROVE  /\ NextIndex(l) \in Missing(l) /\ NextIndex(l) \in Index
         /\ \A j \in Missing(l) : NextIndex(l) <= j
<1>1. Missing(l) \subseteq Index
  BY DEF Missing
<1>2. \E i \in Missing(l) : \A j \in Missing(l) : i <= j
  <2> DEFINE R == OpToRel(<, Nat)
  <2>1. Missing(l) \subseteq Nat
    BY <1>1, ConstantsAssumption DEF Index
  <2>2. \E i \in Missing(l) : \A j \in Missing(l) : ~ (<<j, i>> \in R)
    <3> HIDE DEF R
    <3>1. IsWellFoundedOn(R, Nat)
      BY NatLessThanWellFounded DEF R
    <3> QED
      BY <2>1, <3>1, WFMin
  <2>3. \A i, j \in Nat : <<j, i>> \notin R => i <= j
    BY DEF OpToRel
  <2> QED
    BY <2>1, <2>2, <2>3
<1>3. QED
  BY <1>1, <1>2 DEF NextIndex

\* The services of the store become routes.
LEMMA UpstreamsType == ASSUME TypeOK PROVE Upstreams \subseteq Route
<1> SUFFICES ASSUME NEW t \in Live
             PROVE  rows[t] \in Row /\ t \in Service
  BY DEF Upstreams, Route, Row, Config
<1> QED
  BY DEF TypeOK, Live

LEMMA ListServicesType == ASSUME TypeOK PROVE ListServices \subseteq Entry
BY DEF ListServices, Live, Entry, TypeOK

LEMMA WrittenType ==
  ASSUME TypeOK, NEW l, l.op \in Writers, l.cfg \in Config
  PROVE  Written(l) \in [Service -> Row \cup {Nil}]
<1> SUFFICES ASSUME NEW s \in Service, rows[s] \in Row
             PROVE  [rows[s] EXCEPT !.cfg = Assign(l.op, @, l.cfg)] \in Row
  BY DEF Written, TypeOK
<1>1. Assign(l.op, rows[s].cfg, l.cfg) \in Config
  BY DEF Assign, Writers, Row, Config
<1> QED
  BY <1>1 DEF Row

LEMMA DroppedType ==
  ASSUME TypeOK, NEW l PROVE Dropped(l) \in [Service -> Row \cup {Nil}]
BY DEF Dropped, TypeOK

-----------------------------------------------------------------------------
(***************************************************************************)
(* Which call follows which.                                               *)
(***************************************************************************)

\* What may follow a phase: Delete alone drops the row, SyncAll alone goes on
\* with the next service, and nothing rests or publishes.
Follows(l, at) ==
  /\ at \in {"list", "start", "kill", "deploy", "startnew", "trim", "drop",
           "boot", "sync"}
  /\ at = "drop" => l.op = "delete"
  /\ at = "boot" => l.op = "boot"
  /\ at = "sync" => l.op # "none"
  /\ at \in {"kill", "deploy"} => Missing(l) # {}

LEMMA PhaseFollows ==
  ASSUME NEW l, l.op # "none"
  PROVE  /\ Follows(l, AfterTrim(l))
         /\ Follows(l, AfterDeploy(l))
         /\ Follows(l, AfterStart(l))
         /\ Follows(l, AfterList(l))
         /\ Follows(l, AfterWrite(l))
<1>1. Follows(l, AfterTrim(l))
  BY DEF AfterTrim, Follows
<1>2. Follows(l, AfterDeploy(l))
  BY <1>1 DEF AfterDeploy, Follows
<1>3. Follows(l, AfterStart(l))
  BY <1>2 DEF AfterStart, Follows
<1>4. Follows(l, AfterList(l))
  BY <1>1, <1>3 DEF AfterList, Follows
<1>5. Follows(l, AfterWrite(l))
  BY <1>2 DEF AfterWrite, Follows
<1> QED
  BY <1>1, <1>2, <1>3, <1>4, <1>5

-----------------------------------------------------------------------------
(***************************************************************************)
(* One step of a goroutine.                                                *)
(***************************************************************************)

\* Step replaces the locals and the next call of p, and nobody else's.
LEMMA StepChanges ==
  ASSUME TypeOK, NEW p \in Proc, NEW l \in Local, NEW at \in Calls, Step(p, l, at)
  PROVE  /\ pc' \in [Proc -> Calls]
         /\ loc' \in [Proc -> Local]
         /\ pc'[p] = at
         /\ loc'[p] \in Local
         /\ loc'[p].op = l.op
         /\ at # "sync" => loc'[p] = l
         /\ \A q \in Proc \ {p} : pc'[q] = pc[q] /\ loc'[q] = loc[q]
<1> DEFINE k == IF at = "sync" THEN [NoLocal EXCEPT !.op = l.op, !.todo = l.todo]
                ELSE l
<1>1. k \in Local /\ k.op = l.op
  BY NoLocalType DEF Local, NoLocal
<1>2. loc' = [loc EXCEPT ![p] = k] /\ pc' = [pc EXCEPT ![p] = at]
  BY DEF Step
<1>3. at # "sync" => k = l
  OBVIOUS
<1> HIDE DEF k
<1> QED
  BY <1>1, <1>2, <1>3 DEF TypeOK

\* What Fits says of the locals that Step stores, from what it says of l.
LEMMA StepFits ==
  ASSUME TypeOK, NEW p \in Proc, NEW l \in Local, NEW at \in Calls,
         Step(p, l, at), AllFit, Fits(l, at)
  PROVE  AllFit'
<1>1. Fits(loc'[p], pc'[p])
  BY StepChanges DEF Fits, Working, Resting
<1>2. \A q \in Proc \ {p} : Fits(loc'[q], pc'[q])
  BY StepChanges DEF AllFit
<1> QED
  BY <1>1, <1>2 DEF AllFit

\* A step that neither takes nor gives back Registry.mu.  When it changes the
\* rows, or when p owed a Sync before, p owes one afterwards.
LEMMA Advance ==
  ASSUME IInv, NEW p \in Proc, NEW l \in Local, NEW at \in Calls,
         Step(p, l, at), Fits(l, at), at # "push", pc[p] # "push",
         UNCHANGED <<snap, rmu, owed, crashes>>,
         rows' \in [Service -> Row \cup {Nil}],
         cont' \subseteq Container, IsFiniteSet(cont'),
         mu' \in Proc \cup {Nil},
         rows' = rows \/ DirtyAt(l, at),
         Dirty(p) => DirtyAt(l, at)
  PROVE  IInv'
<1> USE DEF IInv
<1>1. AllFit'
  BY StepFits
<1>2. HoldsRmu'
  BY StepChanges DEF HoldsRmu
<1>3. Coming' = Coming
  BY StepChanges DEF Coming, HoldsRmu, TypeOK
<1>4. DirtyAt(l, at) => Dirty(p)'
  <2>1. pc'[p] = at /\ loc'[p].op = l.op
    BY StepChanges
  <2> QED
    BY <2>1 DEF Dirty, DirtyAt
<1>5. \A q \in Proc : Dirty(q) => Dirty(q)'
  <2> SUFFICES ASSUME NEW q \in Proc, Dirty(q), q # p PROVE Dirty(q)'
    BY <1>4
  <2> QED
    BY StepChanges DEF Dirty, DirtyAt
<1>6. TypeOK'
  BY StepChanges DEF TypeOK
<1>7. ComingFresh'
  <2>1. CASE rows' = rows
    <3>1. Upstreams' = Upstreams
      BY <2>1 DEF Upstreams, Live
    <3> QED
      BY <1>3, <1>5, <3>1 DEF ComingFresh
  <2>2. CASE DirtyAt(l, at)
    BY <1>4, <2>2 DEF ComingFresh
  <2> QED
    BY <2>1, <2>2
<1> QED
  BY <1>1, <1>2, <1>6, <1>7

\* A goroutine goes on with its operation: same operation, service and wanted
\* configuration.  Having left the call "write" behind, it owes a Sync unless it
\* deletes.
LEMMA Proceed ==
  ASSUME IInv, NEW p \in Proc, NEW l \in Local, NEW at \in Calls, Step(p, l, at),
         pc[p] \in Working, Follows(l, at),
         l.op = loc[p].op, l.s = loc[p].s, l.id = loc[p].id, l.cfg = loc[p].cfg,
         UNCHANGED <<snap, mu, rmu, owed, crashes>>,
         rows' \in [Service -> Row \cup {Nil}],
         cont' \subseteq Container, IsFiniteSet(cont'),
         rows' = rows \/ pc[p] = "write" \/ at = "sync"
  PROVE  IInv'
<1>1. Fits(loc[p], pc[p])
  BY DEF IInv, AllFit
<1>2. loc[p].op \in (ClientOps \cup Starting) /\ loc[p].op # "none"
  BY <1>1 DEF Fits, Working, Resting, IInv, TypeOK, Local
<1>3. at \notin {"push", "write", "idle", "sample", "get"} /\ pc[p] # "push"
  BY DEF Follows, Working
<1>4. Fits(l, at)
  BY <1>1, <1>2, <1>3 DEF Fits, Follows, Working, Resting
<1>5. DirtyAt(l, at) \/ (l.op = "delete" /\ at # "sync")
  BY <1>2, <1>3 DEF DirtyAt
<1>6. rows' = rows \/ DirtyAt(l, at)
  BY <1>1, <1>5 DEF Fits, Writers
<1>7. Dirty(p) => DirtyAt(l, at)
  BY <1>5 DEF Dirty, DirtyAt, Working, Starting
<1>8. mu' \in Proc \cup {Nil}
  BY DEF IInv, TypeOK
<1> QED
  BY <1>3, <1>4, <1>6, <1>7, <1>8, Advance

\* An idle goroutine, or the autoscaler, begins an operation.
LEMMA Beginning ==
  ASSUME IInv, NEW p \in Proc, pc[p] \in Resting,
         NEW op \in ClientOps, NEW s \in Service, NEW row \in Row,
         NEW at \in {"write", "list"}, at = "write" => op \in Writers,
         Begin(p, op, s, row, at),
         UNCHANGED <<cont, snap, rmu, owed, crashes>>,
         mu' \in Proc \cup {Nil},
         rows' \in [Service -> Row \cup {Nil}],
         rows' = rows \/ (op = "create" /\ at = "list")
  PROVE  IInv'
<1> DEFINE l == [NoLocal EXCEPT !.op = op, !.s = s, !.id = row.id,
                                !.cfg = row.cfg, !.todo = loc[p].todo]
<1>1. loc[p] \in Local
  BY DEF IInv, TypeOK
<1>2. l \in Local /\ l.op = op /\ l.s = s /\ l.id = row.id /\ l.cfg = row.cfg
  BY <1>1, NoLocalType DEF Local, NoLocal, Row
<1>3. row.id \in SvcId /\ row.cfg \in Config
  BY DEF Row
<1>4. Step(p, l, at)
  BY DEF Begin
<1> HIDE DEF l
<1>5. Fits(loc[p], pc[p])
  BY DEF IInv, AllFit
<1>6. ~ Dirty(p) /\ pc[p] # "push"
  BY <1>5 DEF Fits, Dirty, DirtyAt, Resting, ClientOps, Starting, Rolling
<1>7. Fits(l, at)
  BY <1>2, <1>3 DEF Fits, Resting, Working, ClientOps, Rolling
<1>8. rows' = rows \/ DirtyAt(l, at)
  BY <1>2 DEF DirtyAt
<1>9. at \in Calls /\ at # "push"
  BY DEF Calls
<1>10. cont' \subseteq Container /\ IsFiniteSet(cont')
  BY DEF IInv, TypeOK
<1> QED
  BY <1>2, <1>4, <1>6, <1>7, <1>8, <1>9, <1>10, Advance

\* The four that write a row read it first, and change nothing yet.
LEMMA BeginningToWrite ==
  ASSUME IInv, NEW p \in Proc, pc[p] \in Resting,
         NEW op \in Writers, NEW s \in Service, NEW row \in Row,
         Begin(p, op, s, row, "write"),
         UNCHANGED <<rows, cont, snap, rmu, owed, crashes>>,
         mu' \in Proc \cup {Nil}
  PROVE  IInv'
<1>1. rows' \in [Service -> Row \cup {Nil}]
  BY DEF IInv, TypeOK
<1>2. op \in ClientOps
  BY DEF Writers, ClientOps, Rolling
<1> QED
  BY <1>1, <1>2, Beginning

-----------------------------------------------------------------------------
(***************************************************************************)
(* The actions that begin an operation.                                    *)
(***************************************************************************)

LEMMA MayRests == ASSUME NEW p, NEW op, May(p, op) PROVE pc[p] \in Resting
BY DEF May, Resting

\* The row a goroutine reads, with one column changed, is a row.
LEMMA RowType ==
  ASSUME IInv, NEW s \in Service, rows[s] # Nil
  PROVE  /\ rows[s] \in Row
         /\ \A n \in Count : [rows[s] EXCEPT !.cfg.replicas = n] \in Row
         /\ \A sub \in Subdomain : [rows[s] EXCEPT !.cfg.sub = sub] \in Row
         /\ \A image \in Image : [rows[s] EXCEPT !.cfg.image = image] \in Row
         /\ \A cfg \in Config : [rows[s] EXCEPT !.cfg = cfg] \in Row
<1>1. rows[s] \in Row
  BY DEF IInv, TypeOK
<1>2. \A cfg \in Config : [rows[s] EXCEPT !.cfg = cfg] \in Row
  BY <1>1 DEF Row
<1>3. \A n \in Count : [rows[s].cfg EXCEPT !.replicas = n] \in Config
  BY <1>1 DEF Row, Config
<1>4. \A sub \in Subdomain : [rows[s].cfg EXCEPT !.sub = sub] \in Config
  BY <1>1 DEF Row, Config
<1>5. \A image \in Image : [rows[s].cfg EXCEPT !.image = image] \in Config
  BY <1>1 DEF Row, Config
<1> QED
  BY <1>1, <1>2, <1>3, <1>4, <1>5

LEMMA CreateStep ==
  ASSUME IInv, NEW p \in Proc, NEW s \in Service, NEW req \in Requests,
         Create(p, s, req)
  PROVE  IInv'
<1> DEFINE row == [id |-> FreshRowId, cfg |-> Normal(req)]
<1>1. FreshRowId \in SvcId
  BY DEF Create, FreshRowId, FreshRowIds
<1>2. row \in Row
  BY <1>1, NormalType, ConstantsAssumption DEF Row
<1>3. Begin(p, "create", s, row, "list") /\ rows' = [rows EXCEPT ![s] = row]
  BY DEF Create
<1> HIDE DEF row
<1>4. rows' \in [Service -> Row \cup {Nil}] /\ mu \in Proc \cup {Nil}
  BY <1>2, <1>3 DEF IInv, TypeOK
<1> QED
  BY <1>2, <1>3, <1>4, MayRests, Beginning DEF Create, ClientOps

LEMMA ScaleStep ==
  ASSUME IInv, NEW p \in Proc, NEW s \in Service, NEW n \in -1..MaxReplicas,
         Scale(p, s, n)
  PROVE  IInv'
<1> DEFINE row == [rows[s] EXCEPT !.cfg.replicas = AtLeast(n, 0)]
<1>1. AtLeast(n, 0) \in Count
  BY ConstantsAssumption DEF AtLeast, Count
<1>2. row \in Row
  BY <1>1, RowType DEF Scale
<1>3. pc[p] \in Resting
  BY MayRests DEF Scale, Resting
<1>4. rows \in [Service -> Row \cup {Nil}] /\ mu \in Proc \cup {Nil}
  BY DEF IInv, TypeOK
<1>5. Begin(p, "scale", s, row, "write")
  BY DEF Scale
<1> HIDE DEF row
<1> QED
  BY <1>2, <1>3, <1>4, <1>5, BeginningToWrite DEF Scale, Writers

LEMMA SetSubdomainStep ==
  ASSUME IInv, NEW p \in Proc, NEW s \in Service, NEW sub \in Subdomain,
         SetSubdomain(p, s, sub)
  PROVE  IInv'
<1> DEFINE row == [rows[s] EXCEPT !.cfg.sub = sub]
<1>1. row \in Row
  BY RowType DEF SetSubdomain
<1>2. rows \in [Service -> Row \cup {Nil}] /\ mu \in Proc \cup {Nil}
  BY DEF IInv, TypeOK
<1>3. Begin(p, "subdomain", s, row, "write")
  BY DEF SetSubdomain
<1> HIDE DEF row
<1> QED
  BY <1>1, <1>2, <1>3, MayRests, BeginningToWrite DEF SetSubdomain, Writers

LEMMA DeleteStep ==
  ASSUME IInv, NEW p \in Proc, NEW s \in Service, Delete(p, s)
  PROVE  IInv'
<1> DEFINE row == [rows[s] EXCEPT !.cfg.replicas = 0]
<1>1. row \in Row
  BY RowType, ConstantsAssumption DEF Delete, Count
<1>2. rows \in [Service -> Row \cup {Nil}] /\ mu \in Proc \cup {Nil}
  BY DEF IInv, TypeOK
<1>3. Begin(p, "delete", s, row, "list")
  BY DEF Delete
<1> HIDE DEF row
<1> QED
  BY <1>1, <1>2, <1>3, MayRests, Beginning DEF Delete, ClientOps

LEMMA UpdateStep ==
  ASSUME IInv, NEW p \in Proc, NEW s \in Service, NEW req \in Requests,
         Update(p, s, req)
  PROVE  IInv'
<1> DEFINE row == [rows[s] EXCEPT !.cfg = Normal(req)]
<1>1. row \in Row
  BY RowType, NormalType, ConstantsAssumption DEF Update
<1>2. rows \in [Service -> Row \cup {Nil}] /\ mu' \in Proc \cup {Nil}
  BY DEF IInv, TypeOK, Update
<1>3. Begin(p, "update", s, row, "write")
  BY DEF Update
<1> HIDE DEF row
<1> QED
  BY <1>1, <1>2, <1>3, MayRests, BeginningToWrite DEF Update, Writers

LEMMA RedeployStep ==
  ASSUME IInv, NEW p \in Proc, NEW s \in Service, NEW image \in Image \cup {""},
         Redeploy(p, s, image)
  PROVE  IInv'
<1> DEFINE row == [rows[s] EXCEPT !.cfg.image = IF image = "" THEN @ ELSE image]
<1>1. row \in Row
  <2>1. rows[s] \in Row /\ rows[s].cfg.image \in Image
    BY RowType DEF Redeploy, Row, Config
  <2>2. row = [rows[s] EXCEPT !.cfg.image =
                 IF image = "" THEN rows[s].cfg.image ELSE image]
    OBVIOUS
  <2> QED
    BY <2>1, <2>2, RowType DEF Redeploy
<1>2. rows \in [Service -> Row \cup {Nil}] /\ mu' \in Proc \cup {Nil}
  BY DEF IInv, TypeOK, Redeploy
<1>3. Begin(p, "redeploy", s, row, "write")
  BY DEF Redeploy
<1> HIDE DEF row
<1> QED
  BY <1>1, <1>2, <1>3, MayRests, BeginningToWrite DEF Redeploy, Writers

-----------------------------------------------------------------------------
(***************************************************************************)
(* The calls of an operation.                                              *)
(***************************************************************************)

\* What a goroutine in the middle of an operation keeps in its locals.
LEMMA AtWork ==
  ASSUME IInv, NEW p \in Proc, pc[p] \in Working
  PROVE  /\ loc[p] \in Local
         /\ loc[p].op # "none" /\ loc[p].s \in Service /\ loc[p].cfg \in Config
         /\ loc[p].seen \subseteq Listed
         /\ pc[p] = "write" => loc[p].op \in Writers
         /\ pc[p] = "drop" => loc[p].op = "delete"
         /\ pc[p] \in {"kill", "deploy"} => Missing(loc[p]) # {}
BY DEF IInv, AllFit, TypeOK, Fits, Working, Resting, Local

\* Locals that differ from loc[p] in what p has seen.
LEMMA SeenType ==
  ASSUME NEW l \in Local, NEW seen \in SUBSET Listed
  PROVE  LET k == [l EXCEPT !.seen = seen] IN
         /\ k \in Local
         /\ k.op = l.op /\ k.s = l.s /\ k.id = l.id /\ k.cfg = l.cfg
BY DEF Local

LEMMA TriedType ==
  ASSUME NEW l \in Local, NEW k \in Down(l)
  PROVE  /\ Tried(l, k) \in Local
         /\ Tried(l, k).op = l.op /\ Tried(l, k).s = l.s
         /\ Tried(l, k).id = l.id /\ Tried(l, k).cfg = l.cfg
<1>1. l.seen \subseteq Listed /\ k \in Listed
  BY DEF Local, Down
<1>2. [k EXCEPT !.up = TRUE] \in Listed
  BY <1>1 DEF Listed
<1>3. (l.seen \ {k}) \cup {[k EXCEPT !.up = TRUE]} \in SUBSET Listed
  BY <1>1, <1>2
<1> QED
  BY <1>3, SeenType DEF Tried

LEMMA FollowsCalls == ASSUME NEW l, NEW at, Follows(l, at) PROVE at \in Calls
BY DEF Follows, Calls

LEMMA ContType ==
  ASSUME IInv
  PROVE  cont \subseteq Container /\ IsFiniteSet(cont)
         /\ rows \in [Service -> Row \cup {Nil}]
BY DEF IInv, TypeOK

LEMMA WriteStep == ASSUME IInv, NEW p \in Proc, Write(p) PROVE IInv'
<1>1. pc[p] \in Working /\ pc[p] = "write"
  BY DEF Write, Working
<1>2. rows' \in [Service -> Row \cup {Nil}]
  BY <1>1, AtWork, WrittenType DEF Write, IInv
<1>3. Follows(loc[p], AfterWrite(loc[p]))
  BY <1>1, AtWork, PhaseFollows
<1> QED
  BY <1>1, <1>2, <1>3, AtWork, FollowsCalls, ContType, Proceed DEF Write

LEMMA DropStep == ASSUME IInv, NEW p \in Proc, Drop(p) PROVE IInv'
<1>1. pc[p] \in Working
  BY DEF Drop, Working
<1>2. rows' \in [Service -> Row \cup {Nil}]
  BY DroppedType DEF Drop, IInv
<1>3. Follows(loc[p], "sync")
  BY <1>1, AtWork DEF Follows
<1> QED
  BY <1>1, <1>2, <1>3, AtWork, FollowsCalls, ContType, Proceed DEF Drop

LEMMA ListStep == ASSUME IInv, NEW p \in Proc, List(p) PROVE IInv'
<1> DEFINE seen == {[i |-> c.i, id |-> c.id, up |-> c.up] :
                      c \in {d \in cont : d.s = loc[p].s}}
           l == [loc[p] EXCEPT !.seen = seen]
<1>1. pc[p] \in Working
  BY DEF List, Working
<1>2. seen \in SUBSET Listed
  BY ContType DEF Container, Listed
<1>3. Step(p, l, AfterList(l)) /\ UNCHANGED <<rows, cont, snap, mu, rmu, owed, crashes>>
  BY DEF List
<1> HIDE DEF seen
<1>4. /\ l \in Local
      /\ l.op = loc[p].op /\ l.s = loc[p].s /\ l.id = loc[p].id /\ l.cfg = loc[p].cfg
  BY <1>1, <1>2, AtWork, SeenType
<1> HIDE DEF l
<1>5. Follows(l, AfterList(l))
  BY <1>1, <1>4, AtWork, PhaseFollows
<1> QED
  BY <1>1, <1>3, <1>4, <1>5, FollowsCalls, ContType, Proceed

LEMMA StartStep == ASSUME IInv, NEW p \in Proc, Start(p) PROVE IInv'
<1>1. pc[p] \in Working
  BY DEF Start, Working
<1>2. PICK k \in Down(loc[p]) :
        /\ \/ cont' = {IF Is(c, p, k) THEN [c EXCEPT !.up = TRUE] ELSE c : c \in cont}
           \/ Faulty /\ cont' = cont
        /\ Step(p, Tried(loc[p], k), AfterStart(Tried(loc[p], k)))
  BY DEF Start
<1> DEFINE l == Tried(loc[p], k)
           f == [c \in cont |-> IF Is(c, p, k) THEN [c EXCEPT !.up = TRUE] ELSE c]
<1>3. /\ l \in Local
      /\ l.op = loc[p].op /\ l.s = loc[p].s /\ l.id = loc[p].id /\ l.cfg = loc[p].cfg
  BY <1>1, AtWork, TriedType
<1>4. cont' \subseteq Container /\ IsFiniteSet(cont')
  <2>1. CASE cont' = {IF Is(c, p, k) THEN [c EXCEPT !.up = TRUE] ELSE c : c \in cont}
    <3>1. cont' \subseteq Container
      BY <2>1, ContType DEF Container
    <3>2. f \in [cont -> cont'] /\ \A t \in cont' : \E c \in cont : f[c] = t
      BY <2>1
    <3> HIDE DEF f
    <3>3. f \in Surjection(cont, cont')
      BY <3>2 DEF Surjection
    <3> QED
      BY <3>1, <3>3, ContType, FS_Surjection
  <2>2. CASE cont' = cont
    BY <2>2, ContType
  <2> QED
    BY <1>2, <2>1, <2>2
<1>5. Step(p, l, AfterStart(l))
  BY <1>2
<1> HIDE DEF l
<1>6. Follows(l, AfterStart(l))
  BY <1>1, <1>3, AtWork, PhaseFollows
<1> QED
  BY <1>1, <1>3, <1>4, <1>5, <1>6, FollowsCalls, ContType, Proceed DEF Start

LEMMA KillStep == ASSUME IInv, NEW p \in Proc, Kill(p) PROVE IInv'
<1>1. pc[p] \in Working
  BY DEF Kill, Working
<1>2. cont' \subseteq cont /\ Step(p, loc[p], "deploy")
  BY DEF Kill
<1>3. cont' \subseteq Container /\ IsFiniteSet(cont')
  BY <1>2, ContType, FS_Subset
<1>4. Follows(loc[p], "deploy")
  BY <1>1, AtWork DEF Follows, Kill
<1> QED
  BY <1>1, <1>2, <1>3, <1>4, AtWork, FollowsCalls, ContType, Proceed DEF Kill

LEMMA DeployStep == ASSUME IInv, NEW p \in Proc, Deploy(p) PROVE IInv'
<1> DEFINE i  == NextIndex(loc[p])
           id == CHOOSE x \in FreshCids(loc[p].s, i) : TRUE
           c  == [s |-> loc[p].s, i |-> i, id |-> id,
                  image |-> loc[p].cfg.image, up |-> FALSE]
           k  == [i |-> i, id |-> id, up |-> FALSE]
           l  == [loc[p] EXCEPT !.seen = @ \cup {k}]
<1>1. pc[p] \in Working /\ Missing(loc[p]) # {}
  BY AtWork DEF Deploy, Working
<1>2. i \in Index
  BY <1>1, NextIndexType
<1>3. id \in CID
  BY DEF Deploy, FreshCids
<1>4. cont' = cont \cup {c} /\ Step(p, l, "startnew")
  BY DEF Deploy
<1> HIDE DEF i, id
<1>5. c \in Container /\ k \in Listed
  BY <1>1, <1>2, <1>3, AtWork DEF Container, Listed, Config
<1>6. loc[p].seen \cup {k} \in SUBSET Listed
  BY <1>1, <1>5, AtWork
<1> HIDE DEF c, k
<1>7. /\ l \in Local
      /\ l.op = loc[p].op /\ l.s = loc[p].s /\ l.id = loc[p].id /\ l.cfg = loc[p].cfg
  BY <1>1, <1>6, AtWork, SeenType
<1> HIDE DEF l
<1>8. cont' \subseteq Container /\ IsFiniteSet(cont')
  BY <1>4, <1>5, ContType, FS_AddElement
<1>9. Follows(l, "startnew")
  BY <1>1, <1>7, AtWork DEF Follows
<1> QED
  BY <1>1, <1>4, <1>7, <1>8, <1>9, FollowsCalls, ContType, Proceed DEF Deploy

LEMMA StartNewStep == ASSUME IInv, NEW p \in Proc, StartNew(p) PROVE IInv'
<1>1. pc[p] \in Working
  BY DEF StartNew, Working
<1>2. PICK c \in cont, k \in Down(loc[p]) :
        /\ cont' = (cont \ {c}) \cup {[c EXCEPT !.up = TRUE]}
        /\ Step(p, Tried(loc[p], k), AfterDeploy(Tried(loc[p], k)))
  BY DEF StartNew
<1> DEFINE l == Tried(loc[p], k)
           d == [c EXCEPT !.up = TRUE]
<1>3. /\ l \in Local
      /\ l.op = loc[p].op /\ l.s = loc[p].s /\ l.id = loc[p].id /\ l.cfg = loc[p].cfg
  BY <1>1, AtWork, TriedType
<1>4. d \in Container
  BY ContType DEF Container
<1>5. Step(p, l, AfterDeploy(l)) /\ cont' = (cont \ {c}) \cup {d}
  BY <1>2
<1> HIDE DEF l, d
<1>6. IsFiniteSet(cont \ {c})
  BY ContType, FS_RemoveElement
<1>7. cont' \subseteq Container /\ IsFiniteSet(cont')
  BY <1>4, <1>5, <1>6, ContType, FS_AddElement
<1>8. Follows(l, AfterDeploy(l))
  BY <1>1, <1>3, AtWork, PhaseFollows
<1> QED
  BY <1>1, <1>3, <1>5, <1>7, <1>8, FollowsCalls, ContType, Proceed DEF StartNew

LEMMA TrimStep == ASSUME IInv, NEW p \in Proc, Trim(p) PROVE IInv'
<1>1. pc[p] \in Working
  BY DEF Trim, Working
<1>2. PICK k \in Leftover(loc[p]) :
        /\ cont' \subseteq cont
        /\ LET l == [loc[p] EXCEPT !.seen = @ \ {k}] IN Step(p, l, AfterTrim(l))
  BY DEF Trim
<1> DEFINE l == [loc[p] EXCEPT !.seen = @ \ {k}]
<1>3. loc[p].seen \ {k} \in SUBSET Listed
  BY <1>1, AtWork
<1>4. /\ l \in Local
      /\ l.op = loc[p].op /\ l.s = loc[p].s /\ l.id = loc[p].id /\ l.cfg = loc[p].cfg
  BY <1>1, <1>3, AtWork, SeenType
<1>5. Step(p, l, AfterTrim(l))
  BY <1>2
<1> HIDE DEF l
<1>6. cont' \subseteq Container /\ IsFiniteSet(cont')
  BY <1>2, ContType, FS_Subset
<1>7. Follows(l, AfterTrim(l))
  BY <1>1, <1>4, AtWork, PhaseFollows
<1> QED
  BY <1>1, <1>4, <1>5, <1>6, <1>7, FollowsCalls, ContType, Proceed DEF Trim

-----------------------------------------------------------------------------
(***************************************************************************)
(* Main.                                                                   *)
(***************************************************************************)

LEMMA BootNextStep == ASSUME IInv, BootNext PROVE IInv'
<1>1. Main \in Proc /\ loc[Main] \in Local /\ pc[Main] = "boot" /\ loc[Main].op = "boot"
  BY ConstantsAssumption DEF IInv, TypeOK, AllFit, Fits, BootNext
<1>2. PICK l \in Local, at \in {"list", "sync"} : Step(Main, l, at) /\ Fits(l, at) /\ l.op = "boot"
  <2>1. CASE loc[Main].todo = {} /\ Step(Main, [NoLocal EXCEPT !.op = "boot"], "sync")
    <3> DEFINE l == [NoLocal EXCEPT !.op = "boot"]
    <3>1. l \in Local /\ l.op = "boot"
      BY NoLocalType DEF NoLocal, Local, Starting
    <3>2. Fits(l, "sync")
      BY <3>1 DEF Fits, Resting, Working
    <3> QED
      BY <2>1, <3>1, <3>2
  <2>2. ASSUME NEW e \in loc[Main].todo,
               Step(Main, [NoLocal EXCEPT !.op = "boot", !.s = e.s, !.id = e.row.id,
                             !.cfg = e.row.cfg, !.todo = loc[Main].todo \ {e}], "list")
        PROVE  \E l \in Local, at \in {"list", "sync"} :
                 Step(Main, l, at) /\ Fits(l, at) /\ l.op = "boot"
    <3> DEFINE l == [NoLocal EXCEPT !.op = "boot", !.s = e.s, !.id = e.row.id,
                             !.cfg = e.row.cfg, !.todo = loc[Main].todo \ {e}]
    <3>1. e \in Entry /\ loc[Main].todo \in SUBSET Entry
      BY <1>1 DEF Local
    <3>2. e.s \in Service /\ e.row.id \in SvcId /\ e.row.cfg \in Config
      BY <3>1 DEF Entry, Row
    <3>3. l \in Local /\ l.op = "boot" /\ l.s = e.s /\ l.id = e.row.id /\ l.cfg = e.row.cfg
      BY <3>1, <3>2, NoLocalType DEF NoLocal, Local, Starting
    <3>4. Step(Main, l, "list")
      BY <2>2
    <3> HIDE DEF l
    <3>5. Fits(l, "list")
      BY <3>2, <3>3 DEF Fits, Resting, Working
    <3> QED
      BY <3>3, <3>4, <3>5
  <2> QED
    BY <2>1, <2>2 DEF BootNext
<1>3. DirtyAt(l, at) /\ at \in Calls /\ at # "push"
  BY <1>2 DEF DirtyAt, Starting, Calls
<1>4. mu' \in Proc \cup {Nil}
  BY DEF IInv, TypeOK, BootNext
<1> QED
  BY <1>1, <1>2, <1>3, <1>4, ContType, Advance DEF BootNext

\* The autoscaler between two calls of Scale: no operation, and so no Sync owed.
LEMMA Watching ==
  ASSUME IInv, NEW l \in Local, NEW at \in Resting, pc[Main] \in Resting,
         Step(Main, l, at), l.op = "none",
         at = "get" => l.s \in Service /\ l.cfg \in Config,
         UNCHANGED <<rows, cont, snap, mu, rmu, owed, crashes>>
  PROVE  IInv'
<1>1. Main \in Proc /\ Fits(loc[Main], pc[Main])
  BY ConstantsAssumption DEF IInv, AllFit
<1>2. ~ Dirty(Main) /\ pc[Main] # "push" /\ at # "push" /\ at \in Calls
  BY <1>1 DEF Fits, Dirty, DirtyAt, Resting, ClientOps, Rolling, Starting, Calls
<1>3. Fits(l, at)
  BY DEF Fits, Resting, Working
<1>4. mu' \in Proc \cup {Nil}
  BY DEF IInv, TypeOK
<1> QED
  BY <1>1, <1>2, <1>3, <1>4, ContType, Advance

LEMMA TickStep == ASSUME IInv, Tick PROVE IInv'
<1> DEFINE todo == {e \in ListServices : e.row.cfg.auto}
           l == [NoLocal EXCEPT !.todo = todo]
<1>1. todo \in SUBSET Entry
  BY ListServicesType DEF IInv
<1>2. Step(Main, l, "sample")
  BY DEF Tick
<1> HIDE DEF todo
<1>3. l \in Local /\ l.op = "none"
  BY <1>1, NoLocalType DEF NoLocal, Local
<1> HIDE DEF l
<1> QED
  BY <1>2, <1>3, Watching DEF Tick, Resting

\* The autoscaler never wants more replicas than a row may hold.
LEMMA DesiredType ==
  ASSUME NEW n \in Nat, NEW cfg \in Config PROVE Desired(n, cfg) \subseteq Count
<1>1. cfg.min \in Count /\ cfg.max \in Count
  BY DEF Config
<1>2. ASSUME NEW d \in Int PROVE Clamp(d, cfg.min, cfg.max) \in Count
  BY <1>1, ConstantsAssumption DEF Clamp, Count
<1> QED
  BY <1>1, <1>2, ConstantsAssumption DEF Desired

LEMMA SampleStep == ASSUME IInv, Sample PROVE IInv'
<1>1. loc[Main] \in Local /\ pc[Main] \in Resting
  BY ConstantsAssumption DEF IInv, TypeOK, Sample, Resting
<1>2. PICK e \in loc[Main].todo :
        LET n    == Cardinality(Running(e.s))
            rest == [NoLocal EXCEPT !.todo = loc[Main].todo \ {e}]
        IN  \/ Step(Main, rest, IF rest.todo = {} THEN "idle" ELSE "sample")
            \/ \E d \in Desired(n, e.row.cfg) \ {n} :
                 Step(Main, [rest EXCEPT !.s = e.s,
                               !.cfg = [e.row.cfg EXCEPT !.replicas = d]], "get")
  BY DEF Sample
<1> DEFINE n    == Cardinality(Running(e.s))
           rest == [NoLocal EXCEPT !.todo = loc[Main].todo \ {e}]
<1>3. e.s \in Service /\ e.row.cfg \in Config /\ loc[Main].todo \ {e} \in SUBSET Entry
  BY <1>1 DEF Local, Entry, Row
<1>4. rest \in Local /\ rest.op = "none"
  BY <1>3, NoLocalType DEF NoLocal, Local
<1>5. n \in Nat
  BY ContType, FS_Subset, FS_CardinalityType DEF Running
<1>6. CASE Step(Main, rest, IF rest.todo = {} THEN "idle" ELSE "sample")
  <2> DEFINE at == IF rest.todo = {} THEN "idle" ELSE "sample"
  <2>1. at \in Resting /\ at # "get"
    BY DEF Resting
  <2>2. Step(Main, rest, at)
    BY <1>6
  <2> HIDE DEF rest, at
  <2> QED
    BY <1>1, <1>4, <2>1, <2>2, Watching DEF Sample
<1>7. ASSUME NEW d \in Desired(n, e.row.cfg) \ {n},
             Step(Main, [rest EXCEPT !.s = e.s,
                           !.cfg = [e.row.cfg EXCEPT !.replicas = d]], "get")
      PROVE  IInv'
  <2> DEFINE l == [rest EXCEPT !.s = e.s, !.cfg = [e.row.cfg EXCEPT !.replicas = d]]
  <2>1. d \in Count
    BY <1>3, <1>5, DesiredType
  <2>2. [e.row.cfg EXCEPT !.replicas = d] \in Config
    BY <1>3, <2>1 DEF Config
  <2>3. l \in Local /\ l.op = "none" /\ l.s \in Service /\ l.cfg \in Config
    BY <1>3, <1>4, <2>2 DEF Local
  <2>4. Step(Main, l, "get")
    BY <1>7
  <2> HIDE DEF l
  <2> QED
    BY <1>1, <2>3, <2>4, Watching DEF Sample, Resting
<1> QED
  BY <1>2, <1>6, <1>7

-----------------------------------------------------------------------------
(***************************************************************************)
(* Publishing, failing and finishing.                                      *)
(***************************************************************************)

\* SyncRead: from here on p's view is what will be published, and it is fresh.
LEMMA SyncReadStep == ASSUME IInv, NEW p \in Proc, SyncRead(p) PROVE IInv'
<1> DEFINE l == [loc[p] EXCEPT !.view = Upstreams]
<1>1. loc[p] \in Local /\ loc[p].op # "none" /\ p # Nil /\ pc[p] = "sync"
  BY ConstantsAssumption DEF IInv, TypeOK, AllFit, Fits, SyncRead, Resting
<1>2. Upstreams \subseteq Route /\ TypeOK /\ AllFit /\ HoldsRmu
  BY UpstreamsType DEF IInv
<1>3. l \in Local /\ l.op = loc[p].op /\ l.view = Upstreams
  BY <1>1, <1>2 DEF Local
<1>4. Step(p, l, "push") /\ rmu = Nil /\ rmu' = p
  BY DEF SyncRead, Publishing
<1> HIDE DEF l
<1>5. Fits(l, "push") /\ "push" \in Calls
  BY <1>1, <1>3 DEF Fits, Resting, Working, Calls
<1>6. AllFit'
  BY <1>2, <1>3, <1>4, <1>5, StepFits
<1>7. /\ pc' \in [Proc -> Calls] /\ loc' \in [Proc -> Local]
      /\ pc'[p] = "push" /\ loc'[p] = l
      /\ \A q \in Proc \ {p} : pc'[q] = pc[q]
  BY <1>2, <1>3, <1>4, <1>5, StepChanges
<1>8. TypeOK'
  BY <1>2, <1>4, <1>7 DEF TypeOK, SyncRead, Publishing
<1>9. HoldsRmu'
  BY <1>1, <1>2, <1>4, <1>7, ConstantsAssumption DEF HoldsRmu
<1>10. Upstreams' = Upstreams
  BY DEF SyncRead, Publishing, Upstreams, Live
<1>11. Coming' = l.view
  BY <1>1, <1>4, <1>7 DEF Coming
<1>12. ComingFresh'
  BY <1>3, <1>10, <1>11 DEF ComingFresh
<1>13. IsFiniteSet(cont)'
  BY DEF SyncRead, Publishing, IInv
<1> QED
  BY <1>6, <1>8, <1>9, <1>12, <1>13 DEF IInv

\* Done is a step to rest, to the next service of the tick or, after SyncAll,
\* to the second Sync of main.
LEMMA DoneChanges ==
  ASSUME IInv, NEW p \in Proc, Done(p)
  PROVE  /\ pc' \in [Proc -> Calls] /\ loc' \in [Proc -> Local]
         /\ pc'[p] # "push" /\ AllFit'
         /\ \A q \in Proc \ {p} : pc'[q] = pc[q] /\ loc'[q] = loc[q]
         /\ rmu' = IF rmu = p THEN Nil ELSE rmu
         /\ mu' \in Proc \cup {Nil}
<1> DEFINE rest   == [NoLocal EXCEPT !.todo = loc[p].todo]
           resync == [NoLocal EXCEPT !.op = "resync"]
<1>1. TypeOK /\ AllFit /\ loc[p] \in Local
  BY DEF IInv, TypeOK
<1>2. /\ rest \in Local /\ rest.op = "none"
      /\ resync \in Local /\ resync.op = "resync"
      /\ NoLocal \in Local /\ NoLocal.op = "none"
  BY <1>1, NoLocalType DEF NoLocal, Local, Starting
<1>3. \/ Step(p, resync, "sync") \/ Step(p, rest, "sample") \/ Step(p, NoLocal, "idle")
  BY DEF Done
<1> HIDE DEF rest, resync
<1>4. PICK l \in Local, at \in {"sync", "sample", "idle"} : Step(p, l, at) /\ Fits(l, at)
  BY <1>2, <1>3 DEF Fits, Resting, Working
<1>5. at \in Calls /\ at # "push"
  BY DEF Calls
<1>6. AllFit'
  BY <1>1, <1>4, <1>5, StepFits
<1>7. mu' \in Proc \cup {Nil} /\ rmu' = IF rmu = p THEN Nil ELSE rmu
  BY <1>1 DEF Done, TypeOK
<1> QED
  BY <1>1, <1>4, <1>5, <1>6, <1>7, StepChanges

\* HoldsRmu after Done.
LEMMA DoneUnlocks ==
  ASSUME IInv, NEW p \in Proc, Done(p) PROVE HoldsRmu' /\ rmu' \in Proc \cup {Nil}
BY DoneChanges, ConstantsAssumption DEF IInv, HoldsRmu, TypeOK

LEMMA SyncPushStep == ASSUME IInv, NEW p \in Proc, SyncPush(p) PROVE IInv'
<1>1. Done(p) /\ pc[p] = "push" /\ snap' = loc[p].view
  BY DEF SyncPush
<1>2. rmu = p /\ p # Nil /\ loc[p] \in Local
  BY <1>1, ConstantsAssumption DEF IInv, HoldsRmu, TypeOK
<1>3. Coming = loc[p].view /\ Coming' = snap'
  BY <1>1, <1>2, DoneChanges DEF Coming
<1>4. Upstreams' = Upstreams
  BY DEF SyncPush, Upstreams, Live
<1>5. ~ Dirty(p)
  BY <1>1 DEF Dirty, DirtyAt
<1>6. \A q \in Proc \ {p} : Dirty(q) => Dirty(q)'
  BY <1>1, DoneChanges DEF Dirty, DirtyAt
<1>7. ComingFresh'
  BY <1>1, <1>3, <1>4, <1>5, <1>6 DEF IInv, ComingFresh, SyncPush
<1>8. snap' \in (SUBSET Route) \cup {Nil}
  BY <1>1, <1>2 DEF Local
<1>9. TypeOK'
  BY <1>1, <1>8, DoneChanges, DoneUnlocks DEF IInv, TypeOK, SyncPush
<1> QED
  BY <1>1, <1>7, <1>9, DoneChanges, DoneUnlocks DEF IInv, SyncPush

\* An operation that fails notes what it leaves unpublished.
LEMMA AbortStep ==
  ASSUME IInv, NEW p \in Proc, NEW wrote \in BOOLEAN, Abort(p, wrote),
         rows' \in [Service -> Row \cup {Nil}],
         rows' = rows \/ wrote,
         cont' = cont
  PROVE  IInv'
<1>1. Done(p) /\ owed' = (owed \/ Dirty(p) \/ pc[p] = "push" \/ wrote)
  BY DEF Abort
<1>2. Dirty(p) \in BOOLEAN /\ owed' \in BOOLEAN
  BY <1>1 DEF Dirty, DirtyAt, IInv, TypeOK
<1>3. TypeOK'
  BY <1>1, <1>2, DoneChanges, DoneUnlocks DEF IInv, TypeOK, Abort
<1>4. CASE owed'
  BY <1>1, <1>3, <1>4, DoneChanges, DoneUnlocks DEF IInv, ComingFresh
<1>5. CASE ~ owed'
  <2>1. ~ owed /\ ~ Dirty(p) /\ pc[p] # "push" /\ rows' = rows
    BY <1>1, <1>5
  <2>2. rmu # p /\ rmu' = rmu /\ snap' = snap
    BY <1>1, <2>1, DoneChanges DEF IInv, HoldsRmu, Abort
  <2>3. Coming' = Coming
    BY <1>1, <2>2, DoneChanges DEF Coming, IInv, TypeOK
  <2>4. Upstreams' = Upstreams
    BY <2>1 DEF Upstreams, Live
  <2>5. \A q \in Proc \ {p} : Dirty(q) => Dirty(q)'
    BY <1>1, DoneChanges DEF Dirty, DirtyAt
  <2>6. ComingFresh'
    BY <2>1, <2>3, <2>4, <2>5 DEF IInv, ComingFresh
  <2> QED
    BY <1>1, <1>3, <2>6, DoneChanges, DoneUnlocks DEF IInv
<1> QED
  BY <1>4, <1>5

LEMMA GoneStep == ASSUME IInv, Gone PROVE IInv'
<1>1. Main \in Proc /\ pc[Main] = "get" /\ loc[Main].op = "none"
  BY ConstantsAssumption DEF IInv, AllFit, Fits, Gone, Resting
<1>2. ~ Dirty(Main) /\ owed \in BOOLEAN
  BY <1>1 DEF Dirty, DirtyAt, ClientOps, Rolling, Starting, IInv, TypeOK
<1>3. owed' = (owed \/ Dirty(Main) \/ pc[Main] = "push" \/ FALSE)
  BY <1>1, <1>2 DEF Gone
<1>4. Abort(Main, FALSE)
  BY <1>3 DEF Abort, Gone
<1> QED
  BY <1>1, <1>4, ContType, AbortStep DEF Gone

LEMMA FaultStep == ASSUME IInv, NEW p \in Proc, Fault(p) PROVE IInv'
<1>1. CASE Abort(p, FALSE) /\ UNCHANGED rows
  BY <1>1, ContType, AbortStep DEF Fault
<1>2. CASE pc[p] = "write" /\ Abort(p, TRUE) /\ rows' = Written(loc[p])
  <2>1. rows' \in [Service -> Row \cup {Nil}]
    BY <1>2, AtWork, WrittenType DEF IInv, Working
  <2> QED
    BY <1>2, <2>1, AbortStep DEF Fault
<1>3. CASE pc[p] = "drop" /\ Abort(p, TRUE) /\ rows' = Dropped(loc[p])
  <2>1. rows' \in [Service -> Row \cup {Nil}]
    BY <1>3, DroppedType DEF IInv
  <2> QED
    BY <1>3, <2>1, AbortStep DEF Fault
<1>4. CASE /\ pc[p] = "list" /\ Step(p, loc[p], "sync")
           /\ UNCHANGED <<rows, snap, mu, rmu, owed, crashes>>
  <2>1. pc[p] \in Working /\ cont' = cont
    BY <1>4 DEF Working, Fault
  <2>2. Follows(loc[p], "sync")
    BY <2>1, AtWork DEF Follows
  <2> QED
    BY <1>4, <2>1, <2>2, AtWork, FollowsCalls, ContType, Proceed
<1> QED
  BY <1>1, <1>2, <1>3, <1>4 DEF Fault

LEMMA ExitStep == ASSUME IInv, Exit PROVE IInv'
<1>1. PICK c \in cont : cont' = (cont \ {c}) \cup {[c EXCEPT !.up = ~@]}
  BY DEF Exit
<1> DEFINE d == [c EXCEPT !.up = ~@]
<1>2. d \in Container
  BY ContType DEF Container
<1>3. cont' = (cont \ {c}) \cup {d}
  BY <1>1
<1> HIDE DEF d
<1>4. IsFiniteSet(cont \ {c})
  BY ContType, FS_RemoveElement
<1>5. cont' \subseteq Container /\ IsFiniteSet(cont')
  BY <1>2, <1>3, <1>4, ContType, FS_AddElement
<1>6. TypeOK'
  BY <1>5 DEF IInv, TypeOK, Exit
<1>7. AllFit' /\ HoldsRmu'
  BY DEF IInv, AllFit, HoldsRmu, Exit
<1>8. Upstreams' = Upstreams /\ Coming' = Coming
  BY DEF Exit, Upstreams, Live, Coming
<1>9. \A p \in Proc : Dirty(p) => Dirty(p)'
  BY DEF Exit, Dirty, DirtyAt
<1>10. ComingFresh'
  BY <1>8, <1>9 DEF IInv, ComingFresh, Exit
<1> QED
  BY <1>5, <1>6, <1>7, <1>10 DEF IInv

\* The goroutines when the server starts, the variables taken as parameters so
\* that the lemma serves Init and, primed, Crash.
LEMMA Starts ==
  ASSUME NEW pc0, NEW loc0, NEW todo \in SUBSET Entry,
         pc0 = [p \in Proc |-> IF p = Main THEN "boot" ELSE "idle"],
         loc0 = [p \in Proc |-> IF p = Main
                   THEN [NoLocal EXCEPT !.op = "boot", !.todo = todo]
                   ELSE NoLocal]
  PROVE  /\ pc0 \in [Proc -> Calls] /\ loc0 \in [Proc -> Local]
         /\ \A p \in Proc : Fits(loc0[p], pc0[p]) /\ pc0[p] # "push"
         /\ Main \in Proc /\ DirtyAt(loc0[Main], pc0[Main])
         /\ Nil \notin Proc
<1> DEFINE l == [NoLocal EXCEPT !.op = "boot", !.todo = todo]
<1>1. /\ l \in Local /\ l.op = "boot"
      /\ NoLocal \in Local /\ NoLocal.op = "none"
  BY NoLocalType DEF NoLocal, Local, Starting
<1>2. Main \in Proc /\ Nil \notin Proc
  BY ConstantsAssumption
<1>3. loc0 = [p \in Proc |-> IF p = Main THEN l ELSE NoLocal]
  OBVIOUS
<1> HIDE DEF l
<1>4. pc0 \in [Proc -> Calls] /\ loc0 \in [Proc -> Local]
  BY <1>1, <1>3 DEF Calls
<1>5. Fits(l, "boot") /\ Fits(NoLocal, "idle") /\ DirtyAt(l, "boot")
  BY <1>1 DEF Fits, Resting, Working, DirtyAt, Starting
<1> QED
  BY <1>2, <1>3, <1>4, <1>5

LEMMA CrashStep == ASSUME IInv, Crash PROVE IInv'
<1>1. ListServices \in SUBSET Entry
  BY ListServicesType DEF IInv
<1>2. /\ pc' \in [Proc -> Calls] /\ loc' \in [Proc -> Local]
      /\ \A p \in Proc : Fits(loc'[p], pc'[p]) /\ pc'[p] # "push"
      /\ Main \in Proc /\ DirtyAt(loc'[Main], pc'[Main])
      /\ Nil \notin Proc
  BY <1>1, Starts DEF Crash
<1>3. AllFit' /\ HoldsRmu' /\ ComingFresh'
  BY <1>2 DEF Crash, AllFit, HoldsRmu, ComingFresh, Dirty
<1>4. TypeOK'
  <2>1. /\ UNCHANGED <<rows, cont>> /\ mu' = Nil /\ rmu' = Nil /\ snap' = Nil
        /\ owed' = FALSE /\ crashes < MaxCrashes /\ crashes' = crashes + 1
    BY DEF Crash
  <2>2. crashes' \in 0..MaxCrashes
    BY <2>1, ConstantsAssumption DEF IInv, TypeOK
  <2> QED
    BY <1>2, <2>1, <2>2 DEF IInv, TypeOK
<1> QED
  BY <1>3, <1>4 DEF IInv, Crash

-----------------------------------------------------------------------------
(***************************************************************************)
(* The inductive invariant and the theorems.                               *)
(***************************************************************************)

LEMMA InitIInv == ASSUME Init PROVE IInv
<1>1. rows \in [Service -> Row \cup {Nil}]
  <2>1. ASSUME NEW req \in Requests
        PROVE  [id |-> CHOOSE id \in SvcId : TRUE, cfg |-> Normal(req)] \in Row
    BY NormalType, ConstantsAssumption DEF Row
  <2> QED
    BY <2>1 DEF Init
<1>2. ListServices \in SUBSET Entry
  BY <1>1 DEF ListServices, Live, Entry
<1>3. /\ pc \in [Proc -> Calls] /\ loc \in [Proc -> Local]
      /\ \A p \in Proc : Fits(loc[p], pc[p]) /\ pc[p] # "push"
      /\ Main \in Proc /\ DirtyAt(loc[Main], pc[Main])
      /\ Nil \notin Proc
  BY <1>2, Starts DEF Init
<1>4. AllFit /\ HoldsRmu /\ ComingFresh
  BY <1>3 DEF Init, AllFit, HoldsRmu, ComingFresh, Dirty
<1>5. TypeOK
  <2>1. cont = {} /\ snap = Nil /\ mu = Nil /\ rmu = Nil /\ owed = FALSE /\ crashes = 0
    BY DEF Init
  <2>2. crashes \in 0..MaxCrashes
    BY <2>1, ConstantsAssumption
  <2> QED
    BY <1>1, <1>3, <2>1, <2>2 DEF TypeOK
<1>6. IsFiniteSet(cont)
  BY FS_EmptySet DEF Init
<1> QED
  BY <1>4, <1>5, <1>6 DEF IInv

LEMMA NextIInv == ASSUME IInv, [Next]_vars PROVE IInv'
<1>1. CASE UNCHANGED vars
  <2>1. TypeOK' /\ AllFit' /\ HoldsRmu' /\ IsFiniteSet(cont')
    BY <1>1 DEF vars, IInv, TypeOK, AllFit, HoldsRmu
  <2>2. Upstreams' = Upstreams /\ Coming' = Coming /\ \A p \in Proc : Dirty(p) => Dirty(p)'
    BY <1>1 DEF vars, Upstreams, Live, Coming, Dirty, DirtyAt
  <2>3. ComingFresh'
    BY <1>1, <2>2 DEF vars, IInv, ComingFresh
  <2> QED
    BY <2>1, <2>3 DEF IInv
<1>2. ASSUME NEW p \in Proc, Request(p) PROVE IInv'
  <2>1. PICK s \in Service :
          \/ \E req \in Requests : Create(p, s, req) \/ Update(p, s, req)
          \/ \E n \in -1..MaxReplicas : Scale(p, s, n)
          \/ \E sub \in Subdomain : SetSubdomain(p, s, sub)
          \/ \E image \in Image \cup {""} : Redeploy(p, s, image)
          \/ Delete(p, s)
    BY <1>2 DEF Request
  <2> QED
    BY <2>1, CreateStep, UpdateStep, ScaleStep, SetSubdomainStep, RedeployStep,
       DeleteStep
<1>3. ASSUME NEW p \in Proc, NameConflict(p) \/ StartVanished(p) PROVE IInv'
  BY <1>3, ContType, AbortStep DEF NameConflict, StartVanished
<1>4. ASSUME NEW p \in Proc, Call(p) PROVE IInv'
  BY <1>3, <1>4, WriteStep, ListStep, StartStep, KillStep, DeployStep, StartNewStep,
     TrimStep, DropStep, SyncPushStep DEF Call
<1>5. ASSUME NEW p \in Proc, SyncRead(p) \/ Fault(p) PROVE IInv'
  BY <1>5, SyncReadStep, FaultStep
<1>6. CASE Background
  BY <1>6, BootNextStep, TickStep, SampleStep, GoneStep DEF Background
<1>7. CASE Exit \/ Crash
  BY <1>7, ExitStep, CrashStep
<1> QED
  BY <1>1, <1>2, <1>4, <1>5, <1>6, <1>7 DEF Next

THEOREM InductiveInvariant == Spec => []IInv
<1>1. Init => IInv
  BY InitIInv
<1>2. IInv /\ [Next]_vars => IInv'
  BY NextIInv
<1> QED
  BY <1>1, <1>2, PTL DEF Spec

\* Whatever fails and whenever the server crashes, every goroutine makes the
\* calls of its operation with locals of the right kind: no replica index, row or
\* container is ever made up, Manager.mu and Registry.mu have at most one holder.
THEOREM TypeCorrect == Spec => []TypeOK
<1>1. IInv => TypeOK
  BY DEF IInv
<1> QED
  BY <1>1, InductiveInvariant, PTL

\* Concurrent writers never leave Envoy on a snapshot older than the rows: unless
\* one failed, or is still on its way to Sync, or publishes right now, the
\* published routes are those of the store (registry.go: Sync reads the services
\* and pushes the snapshot under Registry.mu).
THEOREM SnapshotFreshOrOwed == Spec => []FreshOrOwed
<1>1. IInv => FreshOrOwed
  <2> SUFFICES ASSUME IInv PROVE FreshOrOwed
    OBVIOUS
  <2>1. CASE rmu = Nil
    BY <2>1 DEF IInv, ComingFresh, Coming, FreshOrOwed
  <2>2. CASE rmu # Nil
    <3>1. rmu \in Proc /\ pc[rmu] = "push" /\ Coming = loc[rmu].view
      BY <2>2 DEF IInv, TypeOK, HoldsRmu, Coming
    <3> QED
      BY <3>1 DEF IInv, ComingFresh, FreshOrOwed
  <2> QED
    BY <2>1, <2>2
<1> QED
  BY <1>1, InductiveInvariant, PTL

-----------------------------------------------------------------------------
(***************************************************************************)
(* The service manager's Syncs implement Publication.                      *)
(***************************************************************************)

\* A step of a goroutine that does not publish leaves the snapshot alone, and
\* what the one that does has read.
LEMMA Elsewhere ==
  ASSUME IInv, NEW p \in Proc, pc[p] # "push", UNCHANGED <<snap, rmu>>,
         NEW l, NEW at, Step(p, l, at)
  PROVE  Registry!Next
<1>1. rmu # p
  BY DEF IInv, HoldsRmu
<1>2. \A q \in Proc \ {p} : loc'[q] = loc[q]
  BY DEF Step, IInv, TypeOK
<1>3. InPush' = InPush
  BY <1>1, <1>2 DEF InPush, IInv, TypeOK
<1> QED
  BY <1>3 DEF Registry!Next, Registry!Change

\* The end of an operation that is not publishing is one of these steps.
LEMMA DoneElsewhere ==
  ASSUME IInv, NEW p \in Proc, pc[p] # "push", Done(p), snap' = snap
  PROVE  Registry!Next
<1>1. \E l, at : Step(p, l, at)
  BY DEF Done
<1>2. rmu' = rmu
  BY DEF Done, IInv, HoldsRmu
<1> QED
  BY <1>1, <1>2, Elsewhere

\* The requests, the calls of an operation and main's own steps.
LEMMA RequestPublishes == ASSUME IInv, NEW p \in Proc, Request(p) PROVE Registry!Next
<1>1. \E l, at : Step(p, l, at)
  BY DEF Request, Create, Update, Scale, SetSubdomain, Redeploy, Delete, Begin
<1>2. pc[p] # "push" /\ UNCHANGED <<snap, rmu>>
  BY DEF Request, Create, Update, Scale, SetSubdomain, Redeploy, Delete, May
<1> QED
  BY <1>1, <1>2, Elsewhere

LEMMA CallPublishes ==
  ASSUME IInv, NEW p \in Proc, Call(p), ~ SyncPush(p) PROVE Registry!Next
<1>1. CASE NameConflict(p) \/ StartVanished(p)
  BY <1>1, DoneElsewhere DEF NameConflict, StartVanished, Abort
<1>2. CASE \/ Write(p) \/ List(p) \/ Start(p) \/ Kill(p)
           \/ Deploy(p) \/ StartNew(p) \/ Trim(p) \/ Drop(p)
  <2>1. \E l, at : Step(p, l, at)
    BY <1>2 DEF Write, List, Start, Kill, Deploy, StartNew, Trim, Drop
  <2>2. pc[p] # "push" /\ UNCHANGED <<snap, rmu>>
    BY <1>2 DEF Write, List, Start, Kill, Deploy, StartNew, Trim, Drop
  <2> QED
    BY <2>1, <2>2, Elsewhere
<1> QED
  BY <1>1, <1>2 DEF Call

LEMMA BackgroundPublishes == ASSUME IInv, Background PROVE Registry!Next
<1>1. Main \in Proc
  BY ConstantsAssumption
<1>2. CASE Gone
  BY <1>1, <1>2, DoneElsewhere DEF Gone
<1>3. CASE BootNext \/ Tick \/ Sample
  <2>1. \E l, at : Step(Main, l, at)
    BY <1>3 DEF BootNext, Tick, Sample
  <2>2. pc[Main] # "push" /\ UNCHANGED <<snap, rmu>>
    BY <1>3 DEF BootNext, Tick, Sample
  <2> QED
    BY <1>1, <2>1, <2>2, Elsewhere
<1> QED
  BY <1>2, <1>3 DEF Background

\* What Registry!Read and the others leave alone.
LEMMA SameRoutes == ASSUME UNCHANGED rows PROVE Upstreams' = Upstreams
BY DEF Upstreams, Live

LEMMA SyncReadPublishes == ASSUME IInv, NEW p \in Proc, SyncRead(p) PROVE Registry!Next
<1> DEFINE l == [loc[p] EXCEPT !.view = Upstreams]
<1>1. rmu = Nil /\ rmu' = p /\ p # Nil /\ Step(p, l, "push")
  BY ConstantsAssumption DEF SyncRead, Publishing
<1>2. l.view = Upstreams
  BY DEF IInv, TypeOK, Local
<1> HIDE DEF l
<1>3. loc'[p].view = Upstreams
  BY <1>1, <1>2 DEF Step, IInv, TypeOK
<1>4. InPush = {} /\ InPush' = {Registry!Update(n) : n \in {Envoy}}
  BY <1>1, <1>3 DEF InPush, Registry!Update
<1> QED
  BY <1>4, SameRoutes DEF SyncRead, Publishing, Registry!Next, Registry!Read

LEMMA SyncPushPublishes == ASSUME IInv, NEW p \in Proc, SyncPush(p) PROVE Registry!Next
<1> DEFINE u == [node |-> Envoy, table |-> loc[p].view]
<1>1. rmu = p /\ p # Nil /\ rmu' = Nil /\ snap' = loc[p].view
  BY ConstantsAssumption DEF SyncPush, Done, IInv, HoldsRmu
<1>2. InPush = {u} /\ InPush' = {}
  BY <1>1 DEF InPush
<1>3. [n \in {Envoy} |-> snap'] = [[n \in {Envoy} |-> snap] EXCEPT ![u.node] = u.table]
  BY <1>1
<1>4. Registry!Push
  BY <1>2, <1>3, SameRoutes DEF SyncPush, Registry!Push
<1> QED
  BY <1>4 DEF Registry!Next

LEMMA FaultPublishes == ASSUME IInv, NEW p \in Proc, Fault(p) PROVE Registry!Next
<1>1. CASE pc[p] = "push"
  <2>1. Done(p) /\ UNCHANGED <<rows, snap>>
    BY <1>1 DEF Fault, Abort
  <2>2. InPush' = {}
    BY <1>1, <2>1, ConstantsAssumption DEF InPush, Done, IInv, HoldsRmu
  <2>3. Registry!GiveUp
    BY <2>1, <2>2, SameRoutes DEF Registry!GiveUp
  <2> QED
    BY <2>3 DEF Registry!Next
<1>2. CASE pc[p] # "push" /\ Done(p) /\ snap' = snap
  BY <1>2, DoneElsewhere
<1>3. CASE pc[p] # "push" /\ Step(p, loc[p], "sync") /\ UNCHANGED <<snap, rmu>>
  BY <1>3, Elsewhere
<1> QED
  BY <1>1, <1>2, <1>3 DEF Fault, Abort

LEMMA StepPublishes ==
  ASSUME IInv, [Next]_vars PROVE [Registry!Next]_(Registry!vars)
<1>1. CASE Exit \/ UNCHANGED vars
  <2>1. InPush' = InPush /\ snap' = snap
    BY <1>1 DEF Exit, vars, InPush
  <2> QED
    BY <2>1 DEF Registry!Next, Registry!Change
<1>2. CASE Crash
  <2>1. InPush' = {} /\ snap' = Nil
    BY <1>2 DEF Crash, InPush
  <2> QED
    BY <1>2, <2>1, SameRoutes DEF Crash, Registry!Next, Registry!Stop
<1> QED
  BY <1>1, <1>2, RequestPublishes, CallPublishes, BackgroundPublishes,
     SyncReadPublishes, SyncPushPublishes, FaultPublishes DEF Next

\* The service manager implements Publication: whatever operations run, fail or
\* are stopped, the snapshot changes as if one Sync at a time read the rows and
\* pushed the routes they had then.
THEOREM ImplementsPublication == Spec => Publishes
<1>1. Init => Registry!Init
  BY DEF Init, InPush, Registry!Init
<1>2. IInv /\ [Next]_vars => [Registry!Next]_(Registry!vars)
  BY StepPublishes
<1> QED
  BY <1>1, <1>2, InductiveInvariant, PTL DEF Spec, Publishes, Registry!Spec
-----------------------------------------------------------------------------
(***************************************************************************)
(* Operations in order.                                                    *)
(***************************************************************************)

\* The calls succeed, nothing is autoscaled, and operations that replace replicas
\* run one at a time: they are the rolling ones, which take Manager.mu, or the
\* requests come one after the other.
InOrder ==
  /\ ~ Faulty
  /\ "autoscale" \notin Ops
  /\ \/ \A p, q \in Proc \ {Main} : p = q
     \/ Ops \subseteq Rolling \cup {"subdomain"}

\* p replaces replicas of its service.
Moving(l, at) == at \in Working /\ (at = "write" => l.op # "subdomain")
Mover(p) == Moving(loc[p], pc[p])

\* SyncAll comes before all else; a rolling operation holds Manager.mu; the
\* services that SyncAll has still to visit are as it listed them.
Turns ==
  /\ Booting => \A p \in Proc \ {Main} : pc[p] = "idle"
  /\ ~ Booting => pc[Main] = "idle"
  /\ \A p \in Proc :
       /\ pc[p] \notin {"sample", "get"}
       /\ loc[p].op \in Ops \cup Starting \cup {"none"}
       /\ loc[p].op \in Starting => p = Main
       /\ loc[p].op \in Rolling => mu = p
       /\ loc[p].todo # {} => p = Main /\ loc[p].op = "boot" /\ pc[p] \notin {"sync", "push"}
       /\ \A e \in loc[p].todo : rows[e.s] = e.row

\* The containers of s as List lists them.
Listing(s) == {[i |-> c.i, id |-> c.id, up |-> c.up] : c \in Replicas(s)}

\* Replicas of s, wanted, that do not run below one that exists.
Gap(s) == {i \in Wanted(s) : /\ \A c \in Running(s) : c.i # i
                             /\ \E c \in Replicas(s) : c.i > i}

Good(s) == /\ {c.i : c \in Replicas(s)} = Wanted(s)
           /\ \A c \in Replicas(s) : c.up
Imaged(s) == MaxCrashes = 0 =>
  \A c \in Replicas(s) : c.i \in Wanted(s) => c.image = rows[s].cfg.image

\* At any time: names are unique, containers have a row, and at most one replica
\* is down below another one, but while a service is deleted.
Sound(s) ==
  /\ \A c, d \in Replicas(s) : c.i = d.i => c = d
  /\ Replicas(s) # {} => rows[s] # Nil
  /\ "delete" \notin Ops => \A i, j \in Gap(s) : i = j

Rolls(l, at) == l.op \in Rolling /\ at \in {"kill", "deploy", "startnew"}
Mirrors(l, at) ==
  at \in {"start", "trim", "drop"} \/ (at \in {"deploy", "startnew"} /\ l.op \notin Rolling)

\* The row that a mover works for.
Serves(l, at) ==
  /\ rows[l.s] # Nil /\ rows[l.s].id = l.id
  /\ l.op = "delete" => l.cfg.replicas = 0
  /\ l.op # "delete" /\ (at # "write" \/ l.op = "redeploy") =>
       rows[l.s].cfg.replicas = l.cfg.replicas
  /\ l.op # "delete" /\ (at # "write" \/ l.op = "scale") =>
       rows[l.s].cfg.image = l.cfg.image

\* Each replica that a rolling operation created is there, with the new image, and
\* none is down but one of these; Redeploy creates as many as there were.
Rolled(l) ==
  /\ \A k \in l.seen : \E c \in Replicas(l.s) :
       c.i = k.i /\ c.id = k.id /\ c.up = k.up /\ c.image = l.cfg.image
  /\ \A c \in Replicas(l.s) : c.up \/ \E k \in Down(l) : k.i = c.i
  /\ l.op = "redeploy" => \A c \in Replicas(l.s) : c.i < l.cfg.replicas
\* When Update comes to list them all run, the wanted ones among them.
Renewed(l) ==
  /\ \A c \in Replicas(l.s) : c.up
  /\ \A i \in Index : i < l.cfg.replicas => \E c \in Replicas(l.s) : c.i = i
\* Nothing is down below another one when a replica is killed, and only the new one
\* when it is started.
NoGap(l, at) == "delete" \notin Ops =>
  /\ at = "kill" => Gap(l.s) = {}
  /\ at = "startnew" => \A i \in Gap(l.s), k \in Down(l) : i = k.i

\* Which operations make which calls.
Suits(l, at) ==
  /\ l.op # "subdomain"
  /\ at = "kill" => l.op \in Rolling
  /\ at = "start" => l.op \notin Rolling \cup {"delete"}
  /\ at = "list" => l.op # "redeploy"
  /\ at = "startnew" => l.op # "delete"

\* How far a mover with locals l is when it is about to make the call `at`.
Doing(l, at) ==
  /\ Suits(l, at)
  /\ at = "write" => Good(l.s) /\ l.seen = {}
  /\ Mirrors(l, at) => l.seen = Listing(l.s)
  /\ Rolls(l, at) => Rolled(l)
  /\ at = "list" /\ l.op = "update" => Renewed(l)
  /\ at \in {"kill", "deploy"} => Down(l) = {}
  /\ at = "deploy" => ~ NameTaken(l)
  /\ at = "startnew" => \E k \in l.seen : Down(l) = {k}
  /\ at = "trim" /\ l.op # "delete" => Missing(l) = {} /\ Down(l) = {}
  /\ at = "drop" => l.seen = {}
  /\ NoGap(l, at)
  /\ ~ Rolls(l, at) => Imaged(l.s)

\* Services that no mover works on are as their rows say, unless SyncAll has yet
\* to visit them.
Rest ==
  /\ \A s \in Service : Sound(s)
  /\ \A p \in Proc : Mover(p) => Serves(loc[p], pc[p]) /\ Doing(loc[p], pc[p])
  /\ \A s \in Service : (\A p \in Proc : Mover(p) => loc[p].s # s) =>
       Imaged(s) /\ (Good(s) \/ \E p \in Proc : \E e \in loc[p].todo : e.s = s)

-----------------------------------------------------------------------------
(***************************************************************************)
(* Whose turn it is.                                                       *)
(***************************************************************************)

\* A goroutine that works on a service.
LEMMA MoverKnows ==
  ASSUME IInv, Turns, Rest, NEW p \in Proc, Mover(p)
  PROVE  /\ pc[p] \in Working /\ loc[p] \in Local
         /\ loc[p].op \in (ClientOps \cup Starting) \ {"subdomain"}
         /\ loc[p].op \in Ops \cup Starting
         /\ loc[p].s \in Service /\ loc[p].cfg \in Config /\ loc[p].id \in SvcId
         /\ loc[p].seen \in SUBSET Listed
<1>1. pc[p] \in Working /\ loc[p].op # "subdomain"
  BY DEF Mover, Moving, Rest, Doing, Suits
<1>2. loc[p].op # "none" /\ loc[p].id \in SvcId
  BY <1>1, AtWork DEF IInv, AllFit, Fits
<1> QED
  BY <1>1, <1>2, AtWork DEF Turns, Local

\* One at a time.
LEMMA OneMover ==
  ASSUME InOrder, IInv, Turns, Rest, NEW p \in Proc, NEW q \in Proc, Mover(p), Mover(q)
  PROVE  p = q
<1>1. pc[p] # "idle" /\ pc[q] # "idle"
  BY DEF Mover, Moving, Working
<1>2. CASE p = Main \/ q = Main
  BY <1>1, <1>2 DEF Turns
<1>3. CASE p # Main /\ q # Main
  <2>1. loc[p].op \in Ops \ {"subdomain"} /\ loc[q].op \in Ops \ {"subdomain"}
    BY <1>3, MoverKnows DEF Turns
  <2>2. CASE Ops \subseteq Rolling \cup {"subdomain"}
    BY <2>1, <2>2 DEF Turns
  <2>3. CASE \A x, y \in Proc \ {Main} : x = y
    BY <1>3, <2>3
  <2> QED
    BY <2>2, <2>3 DEF InOrder
<1> QED
  BY <1>2, <1>3

\* A step of p, whose turn it is.
LEMMA StepTurns ==
  ASSUME IInv, Turns, NEW p \in Proc, NEW l \in Local, NEW at \in Calls \ {"sample", "get"},
         Step(p, l, at), p = Main <=> Booting,
         l.op \in Ops \cup Starting \cup {"none"},
         l.op \in Starting => p = Main,
         p = Main /\ l.op \notin Starting => at = "idle",
         l.op \in Rolling => mu' = p,
         \A q \in Proc \ {p} : mu = q => mu' = q,
         l.todo # {} => p = Main /\ l.op = "boot" /\ at \notin {"sync", "push"},
         l.todo \subseteq loc[p].todo,
         rows' = rows \/ ~ Booting
  PROVE  Turns'
<1>1. /\ pc'[p] = at /\ loc'[p].op = l.op /\ loc'[p].todo = l.todo
      /\ \A q \in Proc \ {p} : pc'[q] = pc[q] /\ loc'[q] = loc[q]
  <2>1. /\ pc'[p] = at /\ loc'[p].op = l.op /\ (at # "sync" => loc'[p] = l)
        /\ \A q \in Proc \ {p} : pc'[q] = pc[q] /\ loc'[q] = loc[q]
    BY StepChanges DEF IInv
  <2>2. at = "sync" => loc'[p] = [NoLocal EXCEPT !.op = l.op, !.todo = l.todo]
    BY DEF Step, IInv, TypeOK
  <2>3. at = "sync" => loc'[p].todo = l.todo
    BY <2>2, NoLocalType DEF NoLocal, Local
  <2> QED
    BY <2>1, <2>3
<1>2. Main \in Proc
  BY ConstantsAssumption
<1>3. Booting' <=> p = Main /\ l.op \in Starting
  BY <1>1, <1>2 DEF Booting
<1>4. Booting' => \A q \in Proc \ {Main} : pc'[q] = "idle"
  BY <1>1, <1>3 DEF Turns
<1>5. ~ Booting' => pc'[Main] = "idle"
  BY <1>1, <1>2, <1>3 DEF Turns
<1>6. ASSUME NEW q \in Proc
      PROVE  /\ pc'[q] \notin {"sample", "get"}
             /\ loc'[q].op \in Ops \cup Starting \cup {"none"}
             /\ loc'[q].op \in Starting => q = Main
             /\ loc'[q].op \in Rolling => mu' = q
             /\ loc'[q].todo # {} => q = Main /\ loc'[q].op = "boot"
                                     /\ pc'[q] \notin {"sync", "push"}
  BY <1>1 DEF Turns
<1>7. ASSUME NEW q \in Proc, NEW e \in loc'[q].todo PROVE rows'[e.s] = e.row
  <2>1. e \in loc[q].todo
    BY <1>1, <1>7
  <2>2. rows[e.s] = e.row /\ Booting
    BY <2>1, <1>2 DEF Turns, Booting, Starting
  <2> QED
    BY <2>2
<1> QED
  BY <1>4, <1>5, <1>6, <1>7 DEF Turns

\* Who makes a call, and who begins an operation, has its turn.
LEMMA HisTurn ==
  ASSUME Turns, NEW p \in Proc, pc[p] # "idle" \/ \E op : May(p, op)
  PROVE  p = Main <=> Booting
BY DEF Turns, May

\* p goes on with its operation.
LEMMA ProceedTurns ==
  ASSUME IInv, Turns, NEW p \in Proc, pc[p] # "idle", NEW l \in Local,
         NEW at \in Calls \ {"sample", "get"}, Step(p, l, at), mu' = mu,
         l.op = loc[p].op, l.todo \subseteq loc[p].todo,
         l.todo # {} => at \notin {"sync", "push"},
         rows' = rows \/ l.op \notin Starting
  PROVE  Turns'
<1>1. p = Main <=> Booting
  BY HisTurn
<1>2. /\ l.op \in Ops \cup Starting \cup {"none"} /\ (l.op \in Starting => p = Main)
      /\ (l.op \in Rolling => mu' = p)
      /\ l.todo # {} => p = Main /\ l.op = "boot" /\ at \notin {"sync", "push"}
  BY DEF Turns
<1>3. p = Main /\ l.op \notin Starting => at = "idle"
  BY <1>1 DEF Booting
<1>4. rows' = rows \/ ~ Booting
  BY <1>1 DEF Booting
<1> QED
  BY <1>1, <1>2, <1>3, <1>4, StepTurns

\* SyncAll never syncs from the middle of a service.
LEMMA BootPhases ==
  ASSUME NEW l, l.op = "boot"
  PROVE  "sync" \notin {AfterTrim(l), AfterDeploy(l), AfterStart(l), AfterList(l)}
<1>1. AfterTrim(l) # "sync"
  BY DEF AfterTrim
<1>2. AfterDeploy(l) # "sync"
  BY <1>1 DEF AfterDeploy, Rolling
<1> QED
  BY <1>1, <1>2 DEF AfterStart, AfterList

\* The calls on a service.
LEMMA WorkTurns ==
  ASSUME IInv, Turns, NEW p \in Proc,
         \/ Write(p) \/ List(p) \/ Start(p) \/ Kill(p) \/ Deploy(p)
         \/ StartNew(p) \/ Trim(p) \/ Drop(p)
  PROVE  Turns'
<1>1. /\ pc[p] \in Working /\ pc[p] # "idle" /\ mu' = mu /\ loc[p] \in Local
      /\ loc[p].op # "none" /\ loc[p].seen \subseteq Listed /\ loc[p].s \in Service
  <2>1. pc[p] \in Working /\ mu' = mu
    BY DEF Write, List, Start, Kill, Deploy, StartNew, Trim, Drop, Working
  <2> QED
    BY <2>1, AtWork DEF Working
<1>2. ASSUME NEW l \in Local, NEW at, Step(p, l, at), Follows(l, at),
             l.op = loc[p].op, l.todo = loc[p].todo, l.op = "boot" => at # "sync",
             rows' = rows \/ l.op \notin Starting
      PROVE  Turns'
  <2>1. at \in Calls \ {"sample", "get"} /\ at # "push"
    BY <1>2 DEF Follows, Calls
  <2>2. l.todo # {} => l.op = "boot"
    BY <1>2 DEF Turns
  <2> QED
    BY <1>1, <1>2, <2>1, <2>2, ProceedTurns
<1>3. ASSUME NEW seen \in SUBSET Listed, NEW l, l = [loc[p] EXCEPT !.seen = seen]
      PROVE  /\ l \in Local /\ l.op = loc[p].op /\ l.todo = loc[p].todo
             /\ Follows(l, AfterTrim(l)) /\ Follows(l, AfterDeploy(l))
             /\ Follows(l, AfterStart(l)) /\ Follows(l, AfterList(l))
             /\ l.op = "boot" => "sync" \notin {AfterTrim(l), AfterDeploy(l), AfterStart(l),
                                                AfterList(l)}
  <2>1. l \in Local /\ l.op = loc[p].op /\ l.todo = loc[p].todo
    BY <1>1, <1>3 DEF Local
  <2> QED
    BY <1>1, <2>1, PhaseFollows, BootPhases
<1>4. CASE Write(p)
  <2>1. loc[p].op \in Writers /\ Follows(loc[p], AfterWrite(loc[p]))
    BY <1>1, <1>4, AtWork, PhaseFollows DEF Write
  <2>2. loc[p].op \notin Starting
    BY <2>1 DEF Writers, Starting
  <2> QED
    BY <1>1, <1>2, <1>4, <2>1, <2>2 DEF Write, Starting
<1>5. CASE List(p)
  <2>1. {[i |-> c.i, id |-> c.id, up |-> c.up] : c \in {d \in cont : d.s = loc[p].s}}
          \in SUBSET Listed
    BY ContType DEF Container, Listed
  <2> QED
    BY <1>2, <1>3, <1>5, <2>1 DEF List
<1>6. CASE Start(p) \/ StartNew(p)
  <2>1. PICK k \in Down(loc[p]) :
          /\ \/ Step(p, Tried(loc[p], k), AfterStart(Tried(loc[p], k)))
             \/ Step(p, Tried(loc[p], k), AfterDeploy(Tried(loc[p], k)))
          /\ rows' = rows
    BY <1>6 DEF Start, StartNew
  <2>2. (loc[p].seen \ {k}) \cup {[k EXCEPT !.up = TRUE]} \in SUBSET Listed
    BY <1>1 DEF Down, Listed
  <2>3. PICK l : l = Tried(loc[p], k)
    OBVIOUS
  <2>4. l = [loc[p] EXCEPT !.seen = (loc[p].seen \ {k}) \cup {[k EXCEPT !.up = TRUE]}]
    BY <1>1, <2>3 DEF Tried, Local
  <2> QED
    BY <1>2, <1>3, <2>1, <2>2, <2>3, <2>4
<1>7. CASE Kill(p)
  <2>1. Follows(loc[p], "deploy") /\ Step(p, loc[p], "deploy") /\ rows' = rows
    BY <1>1, <1>7, AtWork DEF Kill, Follows
  <2> QED
    BY <1>1, <1>2, <2>1
<1>8. CASE Deploy(p)
  <2> DEFINE i == NextIndex(loc[p])
             id == CHOOSE x \in FreshCids(loc[p].s, i) : TRUE
             seen == loc[p].seen \cup {[i |-> i, id |-> id, up |-> FALSE]}
             l == [loc[p] EXCEPT !.seen = seen]
  <2>1. i \in Index /\ id \in CID
    BY <1>1, <1>8, AtWork, NextIndexType DEF Deploy, FreshCids
  <2>2. Step(p, l, "startnew") /\ rows' = rows
    BY <1>1, <1>8 DEF Deploy, Local
  <2> HIDE DEF i, id
  <2>3. seen \in SUBSET Listed
    <3>1. [i |-> i, id |-> id, up |-> FALSE] \in Listed
      BY <2>1 DEF Listed
    <3> QED
      BY <1>1, <3>1
  <2> HIDE DEF seen
  <2>4. l \in Local /\ l.op = loc[p].op /\ l.todo = loc[p].todo
    BY <1>3, <2>3
  <2> HIDE DEF l
  <2>5. Follows(l, "startnew")
    BY DEF Follows
  <2> QED
    BY <1>2, <2>2, <2>4, <2>5
<1>9. CASE Trim(p)
  <2>1. PICK k : Step(p, [loc[p] EXCEPT !.seen = @ \ {k}],
                      AfterTrim([loc[p] EXCEPT !.seen = @ \ {k}])) /\ rows' = rows
    BY <1>9 DEF Trim
  <2>2. PICK l : l = [loc[p] EXCEPT !.seen = loc[p].seen \ {k}]
    OBVIOUS
  <2>3. [loc[p] EXCEPT !.seen = @ \ {k}] = l
    BY <1>1, <2>2 DEF Local
  <2>4. loc[p].seen \ {k} \in SUBSET Listed
    BY <1>1
  <2> QED
    BY <1>2, <1>3, <2>1, <2>2, <2>3, <2>4
<1>10. CASE Drop(p)
  <2>1. loc[p].op = "delete" /\ Follows(loc[p], "sync")
    BY <1>1, <1>10, AtWork DEF Drop, Follows
  <2> QED
    BY <1>1, <1>2, <1>10, <2>1 DEF Drop, Starting
<1> QED
  BY <1>4, <1>5, <1>6, <1>7, <1>8, <1>9, <1>10

\* A publication.
LEMMA SyncTurns ==
  ASSUME IInv, Turns, NEW p \in Proc, SyncRead(p) \/ SyncPush(p)
  PROVE  Turns'
<1>1. pc[p] \in {"sync", "push"} /\ rows' = rows /\ loc[p] \in Local
  BY DEF SyncRead, SyncPush, Publishing, IInv, TypeOK
<1>2. loc[p].todo = {} /\ (p = Main <=> Booting)
  BY <1>1, HisTurn DEF Turns
<1>3. CASE SyncRead(p)
  <2>1. PICK l : l = [loc[p] EXCEPT !.view = Upstreams]
    OBVIOUS
  <2>2. l \in Local /\ l.op = loc[p].op /\ l.todo = loc[p].todo
    BY <1>1, <2>1, UpstreamsType DEF Local, IInv
  <2>3. Step(p, l, "push") /\ mu' = mu /\ "push" \in Calls
    BY <1>3, <2>1 DEF SyncRead, Publishing, Calls
  <2> QED
    BY <1>1, <1>2, <2>2, <2>3, ProceedTurns
<1>4. CASE SyncPush(p)
  <2>1. Done(p)
    BY <1>4 DEF SyncPush
  <2>2. NoLocal \in Local /\ NoLocal.op = "none" /\ NoLocal.todo = {}
    BY NoLocalType DEF NoLocal
  <2>3. mu' = IF mu = p THEN Nil ELSE mu
    BY <2>1 DEF Done
  <2>4. \A q \in Proc \ {p} : mu = q => mu' = q
    BY <2>3
  <2>5. CASE loc[p].op = "boot"
    <3>1. PICK l : l = [NoLocal EXCEPT !.op = "resync"]
      OBVIOUS
    <3>2. l \in Local /\ l.op = "resync" /\ l.todo = {}
      BY <2>2, <3>1 DEF NoLocal, Local, Starting
    <3>3. Step(p, l, "sync") /\ "sync" \in Calls
      BY <2>1, <2>5, <3>1 DEF Done, Calls
    <3>4. p = Main
      BY <1>2, <2>5 DEF Turns, Starting
    <3> QED
      BY <1>1, <1>2, <2>4, <3>2, <3>3, <3>4, StepTurns DEF Starting, Rolling
  <2>6. CASE loc[p].op # "boot"
    <3>1. [NoLocal EXCEPT !.todo = loc[p].todo].todo = {}
      BY <1>2 DEF NoLocal
    <3>2. Step(p, NoLocal, "idle") /\ "idle" \in Calls
      BY <2>1, <2>6, <3>1 DEF Done, Calls
    <3> QED
      BY <1>1, <1>2, <2>2, <2>4, <3>2, StepTurns DEF Starting, Rolling
  <2> QED
    BY <2>5, <2>6
<1> QED
  BY <1>3, <1>4

\* A request begins.
LEMMA BeginTurns ==
  ASSUME IInv, Turns, NEW p \in Proc, NEW op \in ClientOps, NEW s \in Service, NEW row \in Row,
         NEW at \in {"write", "list"}, Begin(p, op, s, row, at), May(p, op),
         (mu' = mu /\ op \notin Rolling) \/ (mu = Nil /\ mu' = p)
  PROVE  Turns'
<1>1. /\ p # Main /\ ~ Booting /\ op \in Ops /\ loc[p] \in Local /\ op \notin Starting
      /\ loc[p].todo = {}
  BY DEF May, IInv, TypeOK, Turns, ClientOps, Rolling, Starting
<1>2. PICK l : l = [NoLocal EXCEPT !.op = op, !.s = s, !.id = row.id, !.cfg = row.cfg,
                                   !.todo = loc[p].todo]
  OBVIOUS
<1>3. l \in Local /\ l.op = op /\ l.todo = {}
  BY <1>1, <1>2, NoLocalType DEF NoLocal, Local, Row
<1>4. Step(p, l, at) /\ at \in Calls \ {"sample", "get"}
  BY <1>2 DEF Begin, Calls
<1>5. \A q \in Proc \ {p} : mu = q => mu' = q
  BY ConstantsAssumption
<1>6. l.op \in Rolling => mu' = p
  BY <1>3
<1> QED
  BY <1>1, <1>3, <1>4, <1>5, <1>6, StepTurns

-----------------------------------------------------------------------------
(***************************************************************************)
(* What does not change.                                                   *)
(***************************************************************************)

\* The replicas of t, and what is wanted of it, stay.
Untouched(t) ==
  /\ Replicas(t)' = Replicas(t)
  /\ (rows[t])' = Nil <=> rows[t] = Nil
  /\ rows[t] # Nil => /\ (rows[t].id)' = rows[t].id
                      /\ (rows[t].cfg.replicas)' = rows[t].cfg.replicas
                      /\ (rows[t].cfg.image)' = rows[t].cfg.image

\* What follows for what is defined from them.
LEMMA Same ==
  ASSUME NEW t, Untouched(t)
  PROVE  /\ Wanted(t)' = Wanted(t) /\ Running(t)' = Running(t)
         /\ Gap(t)' = Gap(t) /\ Listing(t)' = Listing(t)
         /\ Good(t) => Good(t)'
         /\ Sound(t) => Sound(t)'
<1>1. Replicas(t)' = Replicas(t) /\ Wanted(t)' = Wanted(t)
  BY DEF Untouched, Wanted
<1>2. \A c : c \in Running(t) <=> c \in Replicas(t) /\ c.up
  BY DEF Running, Replicas
<1>3. \A c : c \in Running(t)' <=> c \in Replicas(t)' /\ c.up
  BY DEF Running, Replicas
<1>4. Running(t)' = Running(t)
  BY <1>1, <1>2, <1>3
<1>5. Gap(t)' = Gap(t) /\ Listing(t)' = Listing(t)
  BY <1>1, <1>4 DEF Gap, Listing
<1>6. Good(t) => Good(t)'
  BY <1>1 DEF Good
<1>7. Sound(t) => Sound(t)'
  BY <1>1, <1>5 DEF Sound, Untouched
<1> QED
  BY <1>1, <1>4, <1>5, <1>6, <1>7

\* Nor do the images.
LEMMA SameImages == ASSUME NEW t, Untouched(t), Imaged(t) PROVE Imaged(t)'
<1>1. Replicas(t)' = Replicas(t) /\ Wanted(t)' = Wanted(t)
  BY Same DEF Untouched
<1>2. \A i \in Wanted(t) : rows[t] # Nil
  BY DEF Wanted
<1> QED
  BY <1>1, <1>2 DEF Imaged, Untouched

\* Nor does what a mover on t knows.
LEMMA SameWork ==
  ASSUME NEW l, NEW at, Untouched(l.s), Serves(l, at), Doing(l, at)
  PROVE  Serves(l, at)' /\ Doing(l, at)'
<1>1. Serves(l, at)'
  BY DEF Serves, Untouched
<1>2. NameTaken(l)' <=> NameTaken(l)
  <2>1. NameTaken(l) <=> \E c \in Replicas(l.s) : c.i = NextIndex(l)
    BY DEF NameTaken, Replicas
  <2>2. NameTaken(l)' <=> \E c \in Replicas(l.s)' : c.i = NextIndex(l)
    BY DEF NameTaken, Replicas
  <2> QED
    BY <2>1, <2>2 DEF Untouched
<1>3. /\ Replicas(l.s)' = Replicas(l.s) /\ Gap(l.s)' = Gap(l.s)
      /\ Listing(l.s)' = Listing(l.s)
      /\ Good(l.s) => Good(l.s)'
      /\ Imaged(l.s) => Imaged(l.s)'
  BY Same, SameImages DEF Untouched
<1>4. /\ Rolled(l) => Rolled(l)'
      /\ Renewed(l) => Renewed(l)'
      /\ NoGap(l, at) => NoGap(l, at)'
  BY <1>3 DEF Rolled, Renewed, NoGap
<1>5. Doing(l, at)'
  BY <1>2, <1>3, <1>4 DEF Doing
<1> QED
  BY <1>1, <1>5

\* A step that changes no service, of nobody who works on one.
LEMMA StillRest ==
  ASSUME Rest, \A t \in Service : Untouched(t),
         \A q \in Proc : Mover(q) => loc[q].s \in Service,
         \A q \in Proc : Mover(q) \/ Mover(q)' =>
           Mover(q) /\ Mover(q)' /\ pc'[q] = pc[q] /\ loc'[q] = loc[q],
         \A q \in Proc : loc[q].todo \subseteq loc'[q].todo
  PROVE  Rest'
<1>1. \A s \in Service : Sound(s)'
  BY Same DEF Rest
<1>2. ASSUME NEW q \in Proc, Mover(q)'
      PROVE  Mover(q) /\ loc'[q] = loc[q] /\ Serves(loc[q], pc[q])' /\ Doing(loc[q], pc[q])'
  <2>1. Mover(q) /\ pc'[q] = pc[q] /\ loc'[q] = loc[q]
    BY <1>2
  <2>2. PICK l, at : l = loc[q] /\ at = pc[q]
    OBVIOUS
  <2>3. Serves(l, at)' /\ Doing(l, at)'
    BY <2>1, <2>2, SameWork DEF Rest
  <2>4. Serves(loc[q], pc[q])' /\ Doing(loc[q], pc[q])'
    <3>1. (loc[q])' = l /\ (pc[q])' = at
      BY <2>1, <2>2
    <3> QED
      BY <2>3, <3>1 DEF Serves, Doing, Rolled, Renewed, NoGap
  <2> QED
    BY <2>1, <2>4
<1>3. ASSUME NEW s \in Service, \A q \in Proc : Mover(q)' => loc'[q].s # s
      PROVE  Imaged(s)' /\ (Good(s)' \/ \E q \in Proc : \E e \in loc'[q].todo : e.s = s)
  <2>1. \A q \in Proc : Mover(q) => loc[q].s # s
    BY <1>3
  <2>2. Imaged(s) /\ (Good(s) \/ \E q \in Proc : \E e \in loc[q].todo : e.s = s)
    BY <2>1 DEF Rest
  <2> QED
    BY <2>2, Same, SameImages
<1> QED
  BY <1>1, <1>2, <1>3 DEF Rest

\* A step that changes no service, of a goroutine that does not work on one.
LEMMA QuietRest ==
  ASSUME Rest, NEW p \in Proc, \A t \in Service : Untouched(t),
         \A q \in Proc : Mover(q) => loc[q].s \in Service,
         \A q \in Proc \ {p} : pc'[q] = pc[q] /\ loc'[q] = loc[q],
         ~ Mover(p), ~ Mover(p)', loc[p].todo \subseteq loc'[p].todo
  PROVE  Rest'
<1>1. \A q \in Proc : Mover(q) \/ Mover(q)' =>
        Mover(q) /\ Mover(q)' /\ pc'[q] = pc[q] /\ loc'[q] = loc[q]
  BY DEF Mover
<1>2. \A q \in Proc : loc[q].todo \subseteq loc'[q].todo
  OBVIOUS
<1> QED
  BY <1>1, <1>2, StillRest

\* Where a goroutine with locals l that makes the call `at` next leaves its service.
Lands(l, at) ==
  IF Moving(l, at) THEN Doing(l, at) ELSE Good(l.s) /\ Imaged(l.s)

\* A step of the one that works on s, or begins to.
LEMMA MoverRest ==
  ASSUME Rest, NEW p \in Proc, NEW s \in Service, NEW l, NEW at,
         \A q \in Proc \ {p} : ~ Mover(q) /\ pc'[q] = pc[q] /\ loc'[q] = loc[q],
         Mover(p) => loc[p].s = s,
         \A t \in Service \ {s} : Untouched(t),
         l.s = s, pc'[p] = at, loc'[p].op = l.op, at \in Working => loc'[p] = l,
         \A e \in loc[p].todo : e.s = s \/ e \in loc'[p].todo,
         Sound(s)', Moving(l, at) => Serves(l, at)', Lands(l, at)'
  PROVE  Rest'
<1>1. \A t \in Service : Sound(t)'
  BY Same DEF Rest
<1>2. Mover(p)' <=> Moving(l, at)
  BY DEF Mover, Moving
<1>3. Mover(p)' => /\ loc'[p] = l /\ pc'[p] = at
                   /\ Serves(loc[p], pc[p])' /\ Doing(loc[p], pc[p])'
  <2> SUFFICES ASSUME Mover(p)'
               PROVE  /\ loc'[p] = l /\ pc'[p] = at
                      /\ Serves(loc[p], pc[p])' /\ Doing(loc[p], pc[p])'
    OBVIOUS
  <2>1. (loc[p])' = l /\ (pc[p])' = at
    BY <1>2 DEF Moving
  <2>2. Serves(l, at)' /\ Doing(l, at)'
    BY <1>2 DEF Lands
  <2> QED
    BY <2>1, <2>2 DEF Serves, Doing, Rolled, Renewed, NoGap
<1>4. ASSUME NEW q \in Proc, Mover(q)' PROVE q = p
  BY <1>4 DEF Mover
<1>5. ASSUME NEW t \in Service, \A q \in Proc : Mover(q)' => loc'[q].s # t
      PROVE  Imaged(t)' /\ (Good(t)' \/ \E q \in Proc : \E e \in loc'[q].todo : e.s = t)
  <2>1. CASE t = s
    <3>1. ~ Mover(p)'
      BY <1>3, <1>5, <2>1
    <3> QED
      BY <1>2, <2>1, <3>1 DEF Lands
  <2>2. CASE t # s
    <3>1. \A q \in Proc : Mover(q) => loc[q].s # t
      BY <2>2
    <3>2. Imaged(t) /\ (Good(t) \/ \E q \in Proc : \E e \in loc[q].todo : e.s = t)
      BY <3>1 DEF Rest
    <3>3. (\E q \in Proc : \E e \in loc[q].todo : e.s = t)
            => \E q \in Proc : \E e \in loc'[q].todo : e.s = t
      BY <2>2
    <3> QED
      BY <2>2, <3>2, <3>3, Same, SameImages
  <2> QED
    BY <2>1, <2>2
<1> QED
  BY <1>1, <1>3, <1>4, <1>5 DEF Rest


-----------------------------------------------------------------------------
(***************************************************************************)
(* What comes after a phase.                                               *)
(***************************************************************************)

\* The locals of a goroutine that works on a service.
Knows(l) ==
  /\ l \in Local /\ l.s \in Service /\ l.cfg \in Config /\ l.seen \in SUBSET Listed
  /\ l.op \in (ClientOps \cup Starting) \ {"subdomain", "none"}

\* What holds between two phases of an operation.
Between(l) == Knows(l) /\ cont \subseteq Container /\ Sound(l.s) /\ Serves(l, "list")

\* The numbers are natural numbers.
LEMMA Limits ==
  /\ MaxReplicas \in Nat
  /\ \A n \in Index : n \in Nat
  /\ \A n \in Count : n \in Nat
BY ConstantsAssumption DEF Index, Count

\* Serves tells the calls apart by what the row still lacks at a write.
LEMMA ServesOn ==
  ASSUME NEW l, NEW at, Serves(l, "list"), at # "write" PROVE Serves(l, at)
BY DEF Serves

\* NextIndex is the least one that is missing: those below it have been seen.
LEMMA LeastMissing ==
  ASSUME NEW l, Knows(l), Missing(l) # {}
  PROVE  /\ NextIndex(l) \in Index /\ NextIndex(l) < l.cfg.replicas
         /\ \A k \in l.seen : k.i # NextIndex(l)
         /\ \A j \in Index : j < NextIndex(l) => \E k \in l.seen : k.i = j
<1>1. NextIndex(l) \in Missing(l) /\ NextIndex(l) \in Index
  BY NextIndexType
<1>2. \A j \in Missing(l) : NextIndex(l) <= j
  BY NextIndexType
<1>3. l.cfg.replicas \in Count
  BY DEF Knows, Config
<1>4. ASSUME NEW j \in Index, j < NextIndex(l) PROVE \E k \in l.seen : k.i = j
  <2>1. j \notin Missing(l)
    BY <1>1, <1>2, <1>4, Limits
  <2>2. j < l.cfg.replicas
    BY <1>1, <1>3, <1>4, Limits DEF Missing
  <2> QED
    BY <2>1, <2>2 DEF Missing
<1> QED
  BY <1>1, <1>4 DEF Missing

\* A goroutine that has seen the replicas of its service, all of which run, none
\* missing and none left over, leaves the service as its row says.
LEMMA GoodAsSeen ==
  ASSUME NEW l, Between(l), l.seen = Listing(l.s), l.op # "delete",
         Missing(l) = {}, Down(l) = {}, Leftover(l) = {}
  PROVE  Good(l.s)
<1>1. /\ rows[l.s] # Nil /\ rows[l.s].cfg.replicas = l.cfg.replicas /\ l.cfg.replicas \in Count
      /\ Replicas(l.s) \subseteq Container
  BY DEF Between, Serves, Knows, Config, Replicas
<1>2. \A c \in Replicas(l.s) : c.up /\ c.i \in Index /\ c.i < l.cfg.replicas
  <2> SUFFICES ASSUME NEW c \in Replicas(l.s)
               PROVE  c.up /\ c.i \in Index /\ c.i < l.cfg.replicas
    OBVIOUS
  <2>1. c \in Container
    BY <1>1
  <2>2. [i |-> c.i, id |-> c.id, up |-> c.up] \in l.seen
    BY DEF Listing
  <2>3. c.up /\ ~ (c.i >= l.cfg.replicas)
    BY <2>2 DEF Down, Leftover
  <2> QED
    BY <1>1, <2>1, <2>3, Limits DEF Container
<1>3. \A i \in Index : i < l.cfg.replicas => \E c \in Replicas(l.s) : c.i = i
  <2> SUFFICES ASSUME NEW i \in Index, i < l.cfg.replicas PROVE \E c \in Replicas(l.s) : c.i = i
    OBVIOUS
  <2>1. PICK k \in l.seen : k.i = i
    BY DEF Missing
  <2> QED
    BY <2>1 DEF Listing
<1> QED
  BY <1>1, <1>2, <1>3 DEF Good, Wanted

\* Before the leftovers are removed.
LEMMA TrimReady ==
  ASSUME NEW l, Between(l), l.seen = Listing(l.s), Imaged(l.s),
         l.op # "delete" => Missing(l) = {} /\ Down(l) = {}
  PROVE  Lands(l, AfterTrim(l))
<1>1. CASE Leftover(l) # {}
  <2>1. AfterTrim(l) = "trim"
    BY <1>1 DEF AfterTrim
  <2>2. Doing(l, "trim")
    BY DEF Doing, Suits, Between, Knows, Mirrors, Rolls, NoGap
  <2> QED
    BY <2>1, <2>2 DEF Lands, Moving, Knows, Between, Working
<1>2. CASE Leftover(l) = {} /\ l.op = "delete"
  <2>1. AfterTrim(l) = "drop"
    BY <1>2 DEF AfterTrim
  <2>2. l.seen = {}
    <3>1. l.cfg.replicas = 0
      BY <1>2 DEF Between, Serves
    <3>2. \A k \in l.seen : k.i >= 0
      BY Limits DEF Between, Knows, Listed
    <3> QED
      BY <1>2, <3>1, <3>2 DEF Leftover
  <2>3. Doing(l, "drop")
    BY <2>2 DEF Doing, Suits, Between, Knows, Mirrors, Rolls, NoGap
  <2> QED
    BY <2>1, <2>3 DEF Lands, Moving, Knows, Between, Working
<1>3. CASE Leftover(l) = {} /\ l.op # "delete"
  <2>1. AfterTrim(l) \in {"boot", "sync"}
    BY <1>3 DEF AfterTrim
  <2>2. Good(l.s)
    BY <1>3, GoodAsSeen
  <2> QED
    BY <2>1, <2>2 DEF Lands, Moving, Working
<1> QED
  BY <1>1, <1>2, <1>3

\* Before the next missing replica is created.
LEMMA DeployReady ==
  ASSUME NEW l, Between(l), l.seen = Listing(l.s), Imaged(l.s),
         l.op \notin Rolling \cup {"delete"}, Down(l) = {}
  PROVE  Lands(l, AfterDeploy(l))
<1>1. CASE Missing(l) # {}
  <2>1. AfterDeploy(l) = "deploy"
    BY <1>1 DEF AfterDeploy
  <2>2. ~ NameTaken(l)
    <3> SUFFICES ASSUME NEW c \in Replicas(l.s), c.i = NextIndex(l) PROVE FALSE
      BY DEF NameTaken, Replicas
    <3>1. [i |-> c.i, id |-> c.id, up |-> c.up] \in l.seen
      BY DEF Listing
    <3> QED
      BY <1>1, <3>1, LeastMissing DEF Between
  <2>3. Doing(l, "deploy")
    BY <2>2 DEF Doing, Suits, Between, Knows, Mirrors, Rolls, NoGap
  <2> QED
    BY <2>1, <2>3 DEF Lands, Moving, Knows, Between, Working
<1>2. CASE Missing(l) = {}
  <2>1. AfterDeploy(l) = AfterTrim(l)
    BY <1>2 DEF AfterDeploy, Rolling
  <2> QED
    BY <1>2, <2>1, TrimReady
<1> QED
  BY <1>1, <1>2

\* Before the next container that does not run is started.
LEMMA StartReady ==
  ASSUME NEW l, Between(l), l.seen = Listing(l.s), Imaged(l.s),
         l.op \notin Rolling \cup {"delete"}
  PROVE  Lands(l, AfterStart(l))
<1>1. CASE Down(l) # {}
  <2>1. Doing(l, "start")
    BY DEF Doing, Suits, Between, Knows, Mirrors, Rolls, NoGap
  <2> QED
    BY <1>1, <2>1 DEF AfterStart, Lands, Moving, Knows, Between, Working
<1>2. CASE Down(l) = {}
  BY <1>2, DeployReady DEF AfterStart
<1> QED
  BY <1>1, <1>2

\* After a listing; Update only trims, what it created runs.
LEMMA ListReady ==
  ASSUME NEW l, Between(l), l.seen = Listing(l.s), Imaged(l.s),
         l.op # "redeploy", l.op = "update" => Renewed(l)
  PROVE  Lands(l, AfterList(l))
<1>1. CASE l.op = "update"
  <2>1. Missing(l) = {}
    <3> SUFFICES ASSUME NEW i \in Missing(l) PROVE FALSE
      OBVIOUS
    <3>1. PICK c \in Replicas(l.s) : c.i = i
      BY <1>1 DEF Missing, Renewed
    <3>2. [i |-> c.i, id |-> c.id, up |-> c.up] \in l.seen
      BY DEF Listing
    <3> QED
      BY <3>1, <3>2 DEF Missing
  <2>2. Down(l) = {}
    BY <1>1 DEF Down, Listing, Renewed
  <2> QED
    BY <1>1, <2>1, <2>2, TrimReady DEF AfterList
<1>2. CASE l.op = "delete"
  BY <1>2, TrimReady DEF AfterList
<1>3. CASE l.op \notin {"update", "delete"}
  BY <1>3, StartReady DEF AfterList, Rolling
<1> QED
  BY <1>1, <1>2, <1>3

\* Before a rolling operation replaces the next replica.
LEMMA RollReady ==
  ASSUME NEW l, Between(l), l.op \in Rolling, Rolled(l), Down(l) = {},
         "delete" \notin Ops => Gap(l.s) = {}
  PROVE  Lands(l, AfterDeploy(l))
<1>1. /\ rows[l.s] # Nil /\ rows[l.s].cfg.replicas = l.cfg.replicas
      /\ rows[l.s].cfg.image = l.cfg.image /\ l.cfg.replicas \in Count
      /\ Replicas(l.s) \subseteq Container
  BY DEF Between, Serves, Knows, Config, Replicas, Rolling
<1>2. CASE Missing(l) # {}
  <2>1. AfterDeploy(l) = "kill"
    BY <1>2 DEF AfterDeploy
  <2>2. Doing(l, "kill")
    BY DEF Doing, Suits, Between, Knows, Mirrors, Rolls, NoGap
  <2> QED
    BY <2>1, <2>2 DEF Lands, Moving, Knows, Between, Working
<1>3. CASE Missing(l) = {}
  <2>1. \A i \in Index : i < l.cfg.replicas =>
          \E c \in Replicas(l.s) : c.i = i /\ c.image = l.cfg.image
    BY <1>3 DEF Missing, Rolled
  <2>2. \A c \in Replicas(l.s) : c.up /\ c.i \in Index
    BY <1>1 DEF Rolled, Container
  <2>3. Imaged(l.s)
    <3> SUFFICES ASSUME NEW c \in Replicas(l.s), c.i \in Wanted(l.s)
                 PROVE  c.image = rows[l.s].cfg.image
      BY DEF Imaged
    <3>1. c.i \in Index /\ c.i < l.cfg.replicas
      BY <1>1 DEF Wanted
    <3>2. PICK d \in Replicas(l.s) : d.i = c.i /\ d.image = l.cfg.image
      BY <2>1, <3>1
    <3> QED
      BY <1>1, <3>2 DEF Between, Sound
  <2>4. CASE l.op = "update"
    <3>1. AfterDeploy(l) = "list"
      BY <1>3, <2>4 DEF AfterDeploy
    <3>2. Renewed(l)
      BY <2>1, <2>2 DEF Renewed
    <3>3. Doing(l, "list")
      BY <2>3, <2>4, <3>2 DEF Doing, Suits, Between, Knows, Mirrors, Rolls, NoGap
    <3> QED
      BY <3>1, <3>3 DEF Lands, Moving, Knows, Between, Working
  <2>5. CASE l.op = "redeploy"
    <3>1. AfterDeploy(l) = "sync"
      BY <1>3, <2>5 DEF AfterDeploy
    <3>2. Good(l.s)
      <4>1. \A c \in Replicas(l.s) : c.i < l.cfg.replicas
        BY <2>5 DEF Rolled
      <4> QED
        BY <1>1, <2>1, <2>2, <4>1 DEF Good, Wanted
    <3> QED
      BY <2>3, <3>1, <3>2 DEF Lands, Moving, Working
  <2> QED
    BY <2>4, <2>5 DEF Rolling
<1> QED
  BY <1>2, <1>3

\* The same after a step.
Phases(l) ==
  Between(l) =>
    /\ l.seen = Listing(l.s) /\ Imaged(l.s) /\ Missing(l) = {} /\ Down(l) = {}
         => Lands(l, AfterTrim(l))
    /\ l.seen = Listing(l.s) /\ Imaged(l.s) /\ l.op = "delete" => Lands(l, AfterTrim(l))
    /\ l.seen = Listing(l.s) /\ Imaged(l.s) /\ Down(l) = {}
         /\ l.op \notin Rolling \cup {"delete"} => Lands(l, AfterDeploy(l))
    /\ l.seen = Listing(l.s) /\ Imaged(l.s) /\ l.op \notin Rolling \cup {"delete"}
         => Lands(l, AfterStart(l))
    /\ l.seen = Listing(l.s) /\ Imaged(l.s) /\ l.op # "redeploy"
         /\ (l.op = "update" => Renewed(l)) => Lands(l, AfterList(l))
    /\ l.op \in Rolling /\ Rolled(l) /\ Down(l) = {} /\ ("delete" \notin Ops => Gap(l.s) = {})
         => Lands(l, AfterDeploy(l))

\* Phases holds in every state, and so in the next one.
LEMMA AllPhases == \A l : Phases(l)
<1> SUFFICES ASSUME NEW l PROVE Phases(l)
  OBVIOUS
<1> QED
  BY TrimReady, DeployReady, StartReady, ListReady, RollReady DEF Phases

LEMMA NextPhases == (\A l : Phases(l))'
BY AllPhases, PTL

\* A goroutine that works on a service is the only one, and knows it.
LEMMA AloneAtWork ==
  ASSUME InOrder, IInv, Turns, Rest, NEW p \in Proc, Mover(p)
  PROVE  /\ Between(loc[p]) \/ pc[p] = "write"
         /\ Knows(loc[p]) /\ cont \subseteq Container /\ Sound(loc[p].s)
         /\ Serves(loc[p], pc[p]) /\ Doing(loc[p], pc[p])
         /\ \A q \in Proc \ {p} : ~ Mover(q)
         /\ pc[p] \in Working
<1>1. Knows(loc[p]) /\ cont \subseteq Container /\ Sound(loc[p].s) /\ pc[p] \in Working
  <2>1. loc[p].op # "none"
    BY MoverKnows, AtWork
  <2> QED
    BY <2>1, MoverKnows, ContType DEF Knows, Rest
<1>2. Serves(loc[p], pc[p]) /\ Doing(loc[p], pc[p])
  BY DEF Rest
<1>3. pc[p] # "write" => Serves(loc[p], "list")
  BY <1>2 DEF Serves
<1> QED
  BY <1>1, <1>2, <1>3, OneMover DEF Between

\* It takes a step.
LEMMA WorkRest ==
  ASSUME InOrder, IInv, IInv', Turns, Rest, NEW p \in Proc, Mover(p),
         NEW l, NEW at \in Calls \ {"write"}, Step(p, l, at), Knows(l),
         l.s = loc[p].s, l.todo = loc[p].todo,
         \A t \in Service \ {loc[p].s} : Untouched(t),
         Sound(l.s)', Moving(l, at) => Serves(l, "list")', Lands(l, at)'
  PROVE  Rest'
<1>1. l \in Local
  BY DEF Knows
<1>2. /\ pc'[p] = at /\ loc'[p].op = l.op /\ (at # "sync" => loc'[p] = l)
      /\ \A q \in Proc \ {p} : pc'[q] = pc[q] /\ loc'[q] = loc[q]
  BY <1>1, StepChanges DEF IInv
<1>3. loc'[p].todo = l.todo
  <2>1. at = "sync" => loc'[p] = [NoLocal EXCEPT !.op = l.op, !.todo = l.todo]
    BY DEF Step, IInv, TypeOK
  <2> QED
    BY <1>2, <2>1, NoLocalType DEF NoLocal, Local
<1>4. Moving(l, at) => Serves(l, at)'
  BY DEF Serves
<1>5. at \in Working => loc'[p] = l
  BY <1>2 DEF Working
<1>6. \A q \in Proc \ {p} : ~ Mover(q)
  BY AloneAtWork
<1>7. loc[p].s \in Service
  BY DEF Knows
<1> QED
  BY <1>2, <1>3, <1>4, <1>5, <1>6, <1>7, MoverRest

-----------------------------------------------------------------------------
(***************************************************************************)
(* The calls of an operation on the containers.                            *)
(***************************************************************************)

\* Locals that differ in what has been seen.
LEMMA Seeing ==
  ASSUME NEW k, Knows(k), NEW seen \in SUBSET Listed, NEW l, l = [k EXCEPT !.seen = seen]
  PROVE  /\ Knows(l) /\ l.seen = seen
         /\ l.op = k.op /\ l.s = k.s /\ l.id = k.id /\ l.cfg = k.cfg /\ l.todo = k.todo
         /\ Serves(k, "list")' => Serves(l, "list")'
         /\ Down(l) = {c \in seen : ~ c.up}
<1>1. /\ l \in Local /\ l.seen = seen
      /\ l.op = k.op /\ l.s = k.s /\ l.id = k.id /\ l.cfg = k.cfg /\ l.todo = k.todo
  BY DEF Knows, Local
<1> QED
  BY <1>1 DEF Knows, Serves, Down

\* A phase goes on with a call that is not a write.
LEMMA PhaseCalls ==
  ASSUME NEW l, Knows(l)
  PROVE  {AfterTrim(l), AfterDeploy(l), AfterStart(l), AfterList(l)} \subseteq Calls \ {"write"}
<1>1. ASSUME NEW at, Follows(l, at) PROVE at \in Calls \ {"write"}
  BY <1>1 DEF Follows, Calls
<1> QED
  BY <1>1, PhaseFollows DEF Knows

\* List: what has been seen is now what is there.
LEMMA ListRest == ASSUME InOrder, IInv, IInv', Turns, Rest, NEW p \in Proc, List(p) PROVE Rest'
<1>1. PICK l0 : l0 = loc[p]
  OBVIOUS
<1>2. Mover(p) /\ pc[p] = "list" /\ rows' = rows /\ cont' = cont
  BY DEF Mover, Moving, List, Working
<1>3. PICK seen : seen = Listing(l0.s)
  OBVIOUS
<1>4. PICK l : l = [l0 EXCEPT !.seen = seen]
  OBVIOUS
<1>5. Step(p, l, AfterList(l))
  BY <1>1, <1>3, <1>4 DEF List, Listing, Replicas
<1>6. /\ Between(l0) /\ Knows(l0) /\ Serves(l0, "list") /\ Doing(l0, "list")
  BY <1>1, <1>2, AloneAtWork
<1>7. seen \in SUBSET Listed
  BY <1>3, ContType DEF Listing, Replicas, Container, Listed
<1>8. \A t \in Service : Untouched(t)
  BY <1>2 DEF Untouched, Replicas
<1>9. /\ Knows(l) /\ l.seen = seen /\ l.op = l0.op /\ l.s = l0.s /\ l.cfg = l0.cfg
      /\ l.todo = l0.todo
      /\ Serves(l0, "list")' => Serves(l, "list")'
  BY <1>4, <1>6, <1>7, Seeing
<1>10. l.s \in Service
  BY <1>9 DEF Knows
<1>11. Serves(l0, "list")' /\ Doing(l0, "list")'
  BY <1>6, <1>8, <1>9, <1>10, SameWork
<1>12. Between(l)' /\ Sound(l.s)'
  BY <1>6, <1>8, <1>9, <1>10, <1>11, Same, ContType DEF Between, IInv, TypeOK
<1>13. /\ (l.seen = Listing(l.s))' /\ Imaged(l.s)'
       /\ l.op # "redeploy" /\ (l.op = "update" => Renewed(l)')
  <2>1. (Listing(l.s))' = Listing(l.s)
    BY <1>8, <1>10, Same
  <2>2. Imaged(l.s)' /\ l.op # "redeploy" /\ (l.op = "update" => Renewed(l0)')
    BY <1>9, <1>11 DEF Doing, Rolls, Suits
  <2> QED
    BY <1>3, <1>9, <2>1, <2>2 DEF Renewed
<1>14. Lands(l, AfterList(l))'
  BY <1>12, <1>13, NextPhases DEF Phases
<1> QED
  BY <1>1, <1>2, <1>5, <1>8, <1>9, <1>12, <1>14, PhaseCalls, WorkRest DEF Between

\* Gap in terms of the replicas.
LEMMA GapOf ==
  \A s : Gap(s) = {i \in Wanted(s) : /\ \A c \in Replicas(s) : c.up => c.i # i
                                     /\ \E c \in Replicas(s) : c.i > i}
BY DEF Gap, Running, Replicas
LEMMA NextGapOf ==
  (\A s : Gap(s) = {i \in Wanted(s) : /\ \A c \in Replicas(s) : c.up => c.i # i
                                      /\ \E c \in Replicas(s) : c.i > i})'
BY GapOf, PTL

\* A listed container, once it is started.
LEMMA ListedUp ==
  ASSUME NEW k \in Listed
  PROVE  [k EXCEPT !.up = TRUE] = [i |-> k.i, id |-> k.id, up |-> TRUE]
<1>1. PICK a, b : a = [k EXCEPT !.up = TRUE] /\ b = [i |-> k.i, id |-> k.id, up |-> TRUE]
  OBVIOUS
<1>2. a \in Listed /\ a.i = k.i /\ a.id = k.id /\ a.up = TRUE
  BY <1>1 DEF Listed
<1>3. b \in Listed /\ b.i = k.i /\ b.id = k.id /\ b.up = TRUE
  BY <1>1 DEF Listed
<1>4. a = b
  BY <1>2, <1>3 DEF Listed
<1> QED
  BY <1>1, <1>4

\* A container comes up.
LEMMA CameUp ==
  ASSUME cont \subseteq Container, NEW s \in Service, Sound(s), NEW c \in Replicas(s), ~ c.up,
         rows' = rows, cont' = (cont \ {c}) \cup {[c EXCEPT !.up = TRUE]},
         NEW k, k = [i |-> c.i, id |-> c.id, up |-> c.up]
  PROVE  /\ \A t \in Service \ {s} : Untouched(t)
         /\ Replicas(s)' = (Replicas(s) \ {c}) \cup {[c EXCEPT !.up = TRUE]}
         /\ (Listing(s))' = (Listing(s) \ {k}) \cup {[k EXCEPT !.up = TRUE]}
         /\ Gap(s)' \subseteq Gap(s) \ {c.i}
         /\ Sound(s)'
         /\ Imaged(s) => Imaged(s)'
<1>1. PICK d : d = [c EXCEPT !.up = TRUE]
  OBVIOUS
<1>2. c \in Container /\ c \in cont /\ c.s = s
  BY DEF Replicas
<1>3. d.s = s /\ d.i = c.i /\ d.id = c.id /\ d.image = c.image /\ d.up = TRUE /\ d # c
  BY <1>1, <1>2 DEF Container
<1>4. cont' = (cont \ {c}) \cup {d}
  BY <1>1
<1>5. \A t \in Service \ {s} : Untouched(t)
  BY <1>2, <1>3, <1>4 DEF Untouched, Replicas
<1>6. Replicas(s)' = (Replicas(s) \ {c}) \cup {d}
  BY <1>2, <1>3, <1>4 DEF Replicas
<1>7. \A b \in Replicas(s) : b.i = c.i => b = c
  BY DEF Sound
<1>8. Wanted(s)' = Wanted(s)
  BY DEF Wanted
<1>9. (Listing(s))' = (Listing(s) \ {k}) \cup {[k EXCEPT !.up = TRUE]}
  <2>1. [k EXCEPT !.up = TRUE] = [i |-> d.i, id |-> d.id, up |-> d.up]
    <3>1. k \in Listed /\ k.i = c.i /\ k.id = c.id
      BY <1>2 DEF Container, Listed
    <3>2. [k EXCEPT !.up = TRUE] = [i |-> k.i, id |-> k.id, up |-> TRUE]
      BY <3>1, ListedUp
    <3> QED
      BY <1>3, <3>1, <3>2
  <2>2. \A b \in Replicas(s) \ {c} : [i |-> b.i, id |-> b.id, up |-> b.up] # k
    BY <1>7
  <2>3. (Listing(s))' = {[i |-> b.i, id |-> b.id, up |-> b.up] : b \in Replicas(s)'}
    BY DEF Listing
  <2>4. (Listing(s))' = {[i |-> b.i, id |-> b.id, up |-> b.up] : b \in Replicas(s) \ {c}}
                          \cup {[k EXCEPT !.up = TRUE]}
    BY <1>6, <2>1, <2>3
  <2>5. Listing(s) \ {k} = {[i |-> b.i, id |-> b.id, up |-> b.up] : b \in Replicas(s) \ {c}}
    BY <2>2 DEF Listing
  <2> QED
    BY <2>4, <2>5
<1>10. Gap(s)' \subseteq Gap(s) \ {c.i}
  <2> SUFFICES ASSUME NEW i \in Gap(s)' PROVE i \in Gap(s) /\ i # c.i
    OBVIOUS
  <2>1. /\ i \in Wanted(s) /\ \A b \in Replicas(s)' : b.up => b.i # i
        /\ \E b \in Replicas(s)' : b.i > i
    BY <1>8, NextGapOf
  <2>2. i # c.i
    BY <1>3, <1>6, <2>1
  <2>3. \A b \in Replicas(s) : b.up => b.i # i
    BY <1>6, <2>1
  <2>4. \E b \in Replicas(s) : b.i > i
    BY <1>3, <1>6, <2>1
  <2> QED
    BY <2>1, <2>2, <2>3, <2>4, GapOf
<1>11. Sound(s)'
  <2>1. \A a, b \in Replicas(s)' : a.i = b.i => a = b
    BY <1>3, <1>6, <1>7 DEF Sound
  <2>2. rows'[s] # Nil
    BY DEF Sound
  <2> QED
    BY <1>10, <2>1, <2>2 DEF Sound
<1>12. Imaged(s) => Imaged(s)'
  BY <1>3, <1>6, <1>8 DEF Imaged
<1> QED
  BY <1>1, <1>5, <1>6, <1>9, <1>10, <1>11, <1>12

\* The container that a goroutine knows as k.
LEMMA TheOne ==
  ASSUME cont \subseteq Container, NEW s \in Service, Sound(s), NEW k \in Listing(s)
  PROVE  \E c \in Replicas(s) :
           /\ k = [i |-> c.i, id |-> c.id, up |-> c.up] /\ c \in cont /\ c.s = s
           /\ k.i = c.i /\ k.id = c.id /\ k.up = c.up /\ k \in Listed
           /\ \A d \in cont : d.s = s /\ d.i = k.i /\ d.id = k.id <=> d = c
<1>1. PICK c \in Replicas(s) : k = [i |-> c.i, id |-> c.id, up |-> c.up]
  BY DEF Listing
<1>2. c \in cont /\ c.s = s /\ c \in Container
  BY DEF Replicas
<1>3. k.i = c.i /\ k.id = c.id /\ k.up = c.up
  BY <1>1
<1>4. k \in Listed
  BY <1>1, <1>2 DEF Container, Listed
<1>5. \A d \in cont : d.s = s /\ d.i = k.i /\ d.id = k.id <=> d = c
  BY <1>2, <1>3 DEF Sound, Replicas
<1> QED
  BY <1>1, <1>2, <1>3, <1>4, <1>5

\* Tried, in terms of what has been seen.
LEMMA Trying ==
  ASSUME NEW k, Knows(k), NEW t \in Down(k), NEW l, l = Tried(k, t),
         NEW seen, seen = (k.seen \ {t}) \cup {[t EXCEPT !.up = TRUE]}
  PROVE  /\ l = [k EXCEPT !.seen = seen] /\ seen \in SUBSET Listed
         /\ [t EXCEPT !.up = TRUE].up = TRUE /\ [t EXCEPT !.up = TRUE].i = t.i
         /\ [t EXCEPT !.up = TRUE].id = t.id
<1>1. k \in Local /\ t \in Listed /\ k.seen \subseteq Listed
  BY DEF Knows, Down
<1>2. [t EXCEPT !.up = TRUE] \in Listed
  BY <1>1 DEF Listed
<1>3. seen \in SUBSET Listed
  BY <1>1, <1>2
<1>4. l = [k EXCEPT !.seen = seen]
  BY <1>1 DEF Tried, Local
<1>5. /\ [t EXCEPT !.up = TRUE].up = TRUE /\ [t EXCEPT !.up = TRUE].i = t.i
      /\ [t EXCEPT !.up = TRUE].id = t.id
  BY <1>1 DEF Listed
<1> QED
  BY <1>3, <1>4, <1>5

\* Start: a listed container comes up, and is noted to be.
LEMMA StartRest ==
  ASSUME InOrder, IInv, IInv', Turns, Rest, NEW p \in Proc, Start(p) PROVE Rest'
<1>1. PICK l0 : l0 = loc[p]
  OBVIOUS
<1>2. Mover(p) /\ pc[p] = "start" /\ rows' = rows
  BY DEF Mover, Moving, Start, Working
<1>3. /\ Between(l0) /\ Knows(l0) /\ Serves(l0, "start") /\ Doing(l0, "start")
      /\ cont \subseteq Container /\ Sound(l0.s)
  BY <1>1, <1>2, AloneAtWork
<1>4. PICK k \in Down(l0) :
        /\ cont' = {IF Is(c, p, k) THEN [c EXCEPT !.up = TRUE] ELSE c : c \in cont}
        /\ Step(p, Tried(l0, k), AfterStart(Tried(l0, k)))
  BY <1>1 DEF Start, InOrder
<1>5. PICK s : s = l0.s
  OBVIOUS
<1>6. s \in Service /\ l0.seen = Listing(s) /\ Imaged(s)
      /\ l0.op \notin Rolling \cup {"delete"}
  BY <1>3, <1>5 DEF Doing, Mirrors, Rolls, Knows, Suits
<1>7. PICK c \in Replicas(s) :
           /\ k = [i |-> c.i, id |-> c.id, up |-> c.up] /\ c \in cont /\ c.s = s
           /\ k.i = c.i /\ k.id = c.id /\ k.up = c.up /\ k \in Listed
           /\ \A d \in cont : d.s = s /\ d.i = k.i /\ d.id = k.id <=> d = c
  BY <1>3, <1>5, <1>6, TheOne DEF Down
<1>8. cont' = (cont \ {c}) \cup {[c EXCEPT !.up = TRUE]}
  <2>1. \A d \in cont : Is(d, p, k) <=> d = c
    BY <1>1, <1>5, <1>7 DEF Is
  <2> QED
    BY <1>4, <1>7, <2>1
<1>9. ~ c.up
  BY <1>7 DEF Down
<1>10. /\ \A t \in Service \ {s} : Untouched(t)
       /\ (Listing(s))' = (Listing(s) \ {k}) \cup {[k EXCEPT !.up = TRUE]}
       /\ Sound(s)' /\ Imaged(s)'
  BY <1>2, <1>3, <1>5, <1>6, <1>7, <1>8, <1>9, CameUp
<1>11. PICK seen : seen = (l0.seen \ {k}) \cup {[k EXCEPT !.up = TRUE]}
  OBVIOUS
<1>12. PICK l : l = Tried(l0, k)
  OBVIOUS
<1>13. l = [l0 EXCEPT !.seen = seen] /\ seen \in SUBSET Listed
  BY <1>3, <1>11, <1>12, Trying
<1>14. /\ Knows(l) /\ l.seen = seen /\ l.op = l0.op /\ l.s = s /\ l.todo = l0.todo
       /\ Serves(l0, "list")' => Serves(l, "list")'
  BY <1>3, <1>5, <1>13, Seeing
<1>15. Serves(l0, "list")'
  BY <1>2, <1>3 DEF Serves
<1>16. Between(l)' /\ Sound(l.s)' /\ Serves(l, "list")'
  BY <1>10, <1>14, <1>15, ContType DEF Between, IInv, TypeOK
<1>17. (l.seen = Listing(l.s))' /\ Imaged(l.s)' /\ l.op \notin Rolling \cup {"delete"}
  BY <1>6, <1>10, <1>11, <1>14
<1>18. Lands(l, AfterStart(l))'
  BY <1>16, <1>17, NextPhases DEF Phases
<1>19. Step(p, l, AfterStart(l))
  BY <1>4, <1>12
<1> QED
  BY <1>1, <1>2, <1>5, <1>10, <1>14, <1>16, <1>18, <1>19, PhaseCalls, WorkRest

\* The container that a rolling operation created as k.
LEMMA TheNewOne ==
  ASSUME NEW l, Knows(l), cont \subseteq Container, Sound(l.s), Rolled(l), NEW k \in l.seen
  PROVE  \E c \in Replicas(l.s) :
           /\ c.i = k.i /\ c.id = k.id /\ c.up = k.up /\ c.image = l.cfg.image
           /\ c \in cont /\ c.s = l.s
           /\ \A d \in cont : d.s = l.s /\ d.i = k.i /\ d.id = k.id <=> d = c
<1>1. PICK c \in Replicas(l.s) : c.i = k.i /\ c.id = k.id /\ c.up = k.up /\ c.image = l.cfg.image
  BY DEF Rolled
<1> QED
  BY <1>1 DEF Sound, Replicas

\* StartNew: the container just created comes up; a rolling operation has no gap then.
LEMMA StartNewRest ==
  ASSUME InOrder, IInv, IInv', Turns, Rest, NEW p \in Proc, StartNew(p) PROVE Rest'
<1>1. PICK l0 : l0 = loc[p]
  OBVIOUS
<1>2. Mover(p) /\ pc[p] = "startnew" /\ rows' = rows
  BY DEF Mover, Moving, StartNew, Working
<1>3. /\ Between(l0) /\ Knows(l0) /\ Serves(l0, "startnew") /\ Doing(l0, "startnew")
      /\ cont \subseteq Container /\ Sound(l0.s)
  BY <1>1, <1>2, AloneAtWork
<1>4. PICK c \in cont, k \in Down(l0) :
        /\ Is(c, p, k) /\ cont' = (cont \ {c}) \cup {[c EXCEPT !.up = TRUE]}
        /\ Step(p, Tried(l0, k), AfterDeploy(Tried(l0, k)))
  BY <1>1 DEF StartNew
<1>5. PICK s : s = l0.s
  OBVIOUS
<1>6. /\ s \in Service /\ l0.op # "delete" /\ Down(l0) = {k} /\ k \in l0.seen
      /\ c \in Replicas(s) /\ c.i = k.i /\ c.id = k.id /\ k.up = FALSE /\ k \in Listed
  BY <1>1, <1>3, <1>4, <1>5 DEF Doing, Suits, Knows, Is, Down, Replicas, Listed
<1>7. PICK seen : seen = (l0.seen \ {k}) \cup {[k EXCEPT !.up = TRUE]}
  OBVIOUS
<1>8. PICK l : l = Tried(l0, k)
  OBVIOUS
<1>9. /\ l = [l0 EXCEPT !.seen = seen] /\ seen \in SUBSET Listed
      /\ [k EXCEPT !.up = TRUE].up = TRUE /\ [k EXCEPT !.up = TRUE].i = k.i
      /\ [k EXCEPT !.up = TRUE].id = k.id
  BY <1>3, <1>4, <1>7, <1>8, Trying
<1>10. /\ Knows(l) /\ l.seen = seen /\ l.op = l0.op /\ l.s = s /\ l.todo = l0.todo
       /\ l.cfg = l0.cfg
       /\ Serves(l0, "list")' => Serves(l, "list")'
       /\ Down(l) = {b \in seen : ~ b.up}
  BY <1>3, <1>5, <1>9, Seeing
<1>11. Serves(l, "list")'
  <2>1. Serves(l0, "list")'
    BY <1>2, <1>3 DEF Serves
  <2> QED
    BY <1>10, <2>1
<1>12. Down(l) = {}
  BY <1>6, <1>7, <1>9, <1>10 DEF Down
<1>13. Step(p, l, AfterDeploy(l))
  BY <1>4, <1>8
<1>14. ASSUME Sound(l.s)', \A t \in Service \ {s} : Untouched(t), Lands(l, AfterDeploy(l))'
       PROVE  Rest'
  BY <1>1, <1>2, <1>5, <1>10, <1>11, <1>13, <1>14, PhaseCalls, WorkRest
<1>15. CASE l0.op \notin Rolling
  <2>1. l0.seen = Listing(s) /\ Imaged(s)
    BY <1>3, <1>5, <1>15 DEF Doing, Mirrors, Rolls
  <2>2. PICK d \in Replicas(s) :
           /\ k = [i |-> d.i, id |-> d.id, up |-> d.up] /\ k.up = d.up
           /\ \A e \in cont : e.s = s /\ e.i = k.i /\ e.id = k.id <=> e = d
    BY <1>3, <1>5, <1>6, <2>1, TheOne
  <2>3. d = c
    BY <1>4, <1>6, <2>2 DEF Replicas
  <2>4. ~ c.up /\ k = [i |-> c.i, id |-> c.id, up |-> c.up]
    BY <1>6, <2>2, <2>3
  <2>5. /\ \A t \in Service \ {s} : Untouched(t)
        /\ (Listing(s))' = (Listing(s) \ {k}) \cup {[k EXCEPT !.up = TRUE]}
        /\ Sound(s)' /\ Imaged(s)'
    BY <1>2, <1>3, <1>4, <1>5, <1>6, <2>1, <2>4, CameUp
  <2>6. Between(l)' /\ Sound(l.s)'
    BY <1>10, <1>11, <2>5, ContType DEF Between, IInv, TypeOK
  <2>7. (l.seen = Listing(l.s))' /\ Imaged(l.s)' /\ Down(l) = {}
        /\ l.op \notin Rolling \cup {"delete"}
    BY <1>6, <1>7, <1>10, <1>12, <1>15, <2>1, <2>5
  <2>8. Lands(l, AfterDeploy(l))'
    <3>1. Down(l)' = {}
      BY <2>7 DEF Down
    <3> QED
      BY <2>6, <2>7, <3>1, NextPhases DEF Phases
  <2> QED
    BY <1>14, <2>5, <2>6, <2>8
<1>16. CASE l0.op \in Rolling
  <2>1. Rolled(l0) /\ NoGap(l0, "startnew")
    BY <1>3, <1>16 DEF Doing, Rolls
  <2>2. PICK d \in Replicas(s) :
           /\ d.up = k.up /\ d.image = l0.cfg.image
           /\ \A e \in cont : e.s = s /\ e.i = k.i /\ e.id = k.id <=> e = d
    BY <1>3, <1>5, <1>6, <2>1, TheNewOne
  <2>3. d = c
    BY <1>4, <1>6, <2>2 DEF Replicas
  <2>4. ~ c.up /\ c.image = l0.cfg.image
    BY <1>6, <2>2, <2>3
  <2>5. PICK e : e = [i |-> c.i, id |-> c.id, up |-> c.up]
    OBVIOUS
  <2>6. /\ \A t \in Service \ {s} : Untouched(t)
        /\ Replicas(s)' = (Replicas(s) \ {c}) \cup {[c EXCEPT !.up = TRUE]}
        /\ Gap(s)' \subseteq Gap(s) \ {c.i}
        /\ Sound(s)'
    BY <1>2, <1>3, <1>4, <1>5, <1>6, <2>4, <2>5, CameUp
  <2>7. PICK b : b = [c EXCEPT !.up = TRUE]
    OBVIOUS
  <2>8. b.i = c.i /\ b.id = c.id /\ b.image = c.image /\ b.up = TRUE
    <3>1. c \in Container
      BY <1>3, <1>4
    <3> QED
      BY <2>7, <3>1 DEF Container
  <2>9. \A x \in seen : \E y \in Replicas(s)' :
          y.i = x.i /\ y.id = x.id /\ y.up = x.up /\ y.image = l.cfg.image
    <3> SUFFICES ASSUME NEW x \in seen
                 PROVE  \E y \in Replicas(s)' :
                          y.i = x.i /\ y.id = x.id /\ y.up = x.up /\ y.image = l.cfg.image
      OBVIOUS
    <3>1. CASE x = [k EXCEPT !.up = TRUE]
      BY <1>6, <1>9, <1>10, <2>4, <2>6, <2>7, <2>8, <3>1
    <3>2. CASE x \in l0.seen \ {k}
      <4>1. PICK y \in Replicas(s) :
              y.i = x.i /\ y.id = x.id /\ y.up = x.up /\ y.image = l0.cfg.image
        BY <1>5, <2>1, <3>2 DEF Rolled
      <4>2. y # c
        <5>1. x \in Listed /\ k \in Listed /\ x # k
          BY <1>3, <1>6, <3>2 DEF Knows
        <5>2. x.i # k.i \/ x.id # k.id \/ x.up # k.up
          BY <5>1 DEF Listed
        <5> QED
          BY <1>6, <2>2, <2>3, <4>1, <5>2
      <4> QED
        BY <1>10, <2>6, <4>1, <4>2
    <3> QED
      BY <1>7, <3>1, <3>2
  <2>10. \A y \in Replicas(s)' : y.up /\ (l.op = "redeploy" => y.i < l.cfg.replicas)
    <3> SUFFICES ASSUME NEW y \in Replicas(s)'
                 PROVE  y.up /\ (l.op = "redeploy" => y.i < l.cfg.replicas)
      OBVIOUS
    <3>1. CASE y = b
      BY <1>5, <1>6, <1>10, <2>1, <2>8, <3>1 DEF Rolled
    <3>2. CASE y \in Replicas(s) \ {c}
      <4>1. y.i # c.i
        BY <1>3, <1>5, <1>6, <3>2 DEF Sound
      <4> QED
        BY <1>5, <1>6, <1>10, <2>1, <3>2, <4>1 DEF Rolled
    <3> QED
      BY <2>6, <2>7, <3>1, <3>2
  <2>11. Rolled(l)' /\ (Down(l) = {})'
    <3>1. (Down(l) = {})'
      BY <1>12 DEF Down
    <3> QED
      BY <1>10, <2>9, <2>10, <3>1 DEF Rolled
  <2>12. "delete" \notin Ops => Gap(l.s)' = {}
    BY <1>5, <1>6, <1>10, <2>1, <2>6 DEF NoGap
  <2>13. Between(l)' /\ Sound(l.s)'
    BY <1>10, <1>11, <2>6, ContType DEF Between, IInv, TypeOK
  <2>14. Lands(l, AfterDeploy(l))'
    BY <1>10, <1>16, <2>11, <2>12, <2>13, NextPhases DEF Phases
  <2> QED
    BY <1>14, <2>6, <2>13, <2>14
<1> QED
  BY <1>15, <1>16

\* Kill: the next replica goes, the only one that is down.
LEMMA KillRest ==
  ASSUME InOrder, IInv, IInv', Turns, Rest, NEW p \in Proc, Kill(p) PROVE Rest'
<1>1. PICK l : l = loc[p]
  OBVIOUS
<1>2. Mover(p) /\ pc[p] = "kill" /\ rows' = rows /\ Step(p, l, "deploy")
  BY <1>1 DEF Mover, Moving, Kill, Working
<1>3. /\ Between(l) /\ Knows(l) /\ Serves(l, "kill") /\ Doing(l, "kill")
      /\ cont \subseteq Container /\ Sound(l.s)
  BY <1>1, <1>2, AloneAtWork
<1>4. PICK s, n : s = l.s /\ n = NextIndex(l)
  OBVIOUS
<1>5. cont' = {c \in cont : c.s # s \/ c.i # n}
  BY <1>1, <1>4 DEF Kill, InOrder
<1>6. l.op \in Rolling /\ Rolled(l) /\ NoGap(l, "kill") /\ Down(l) = {} /\ s \in Service
  BY <1>3, <1>4 DEF Doing, Suits, Rolls, Knows
<1>7. Missing(l) # {}
  BY <1>1, <1>2, AtWork DEF Working
<1>8. \A k \in l.seen : k.i # n
  BY <1>3, <1>4, <1>7, LeastMissing
<1>9. Replicas(s)' = {c \in Replicas(s) : c.i # n}
  BY <1>5 DEF Replicas
<1>10. \A t \in Service \ {s} : Untouched(t)
  BY <1>2, <1>5 DEF Untouched, Replicas
<1>11. Sound(s)'
  <2>1. "delete" \notin Ops => \A i \in Gap(s)' : i = n
    <3> SUFFICES ASSUME "delete" \notin Ops, NEW i \in Gap(s)', i # n PROVE FALSE
      OBVIOUS
    <3>1. Gap(s) = {}
      BY <1>4, <1>6 DEF NoGap
    <3>2. Wanted(s)' = Wanted(s)
      BY <1>2 DEF Wanted
    <3>3. /\ i \in Wanted(s) /\ \A c \in Replicas(s)' : c.up => c.i # i
          /\ \E c \in Replicas(s)' : c.i > i
      BY <3>2, NextGapOf
    <3>4. i \in Gap(s)
      BY <1>9, <3>3, GapOf
    <3> QED
      BY <3>1, <3>4
  <2>2. rows'[s] = rows[s]
    BY <1>2
  <2> QED
    BY <1>3, <1>4, <1>9, <2>1, <2>2 DEF Sound
<1>12. Serves(l, "list")'
  BY <1>2, <1>3 DEF Serves
<1>13. Lands(l, "deploy")'
  <2>1. Rolled(l)'
    BY <1>4, <1>6, <1>8, <1>9 DEF Rolled
  <2>2. ~ NameTaken(l)'
    BY <1>4, <1>5 DEF NameTaken
  <2>3. Down(l)' = {}
    BY <1>6 DEF Down
  <2>4. Doing(l, "deploy")'
    BY <1>6, <2>1, <2>2, <2>3 DEF Doing, Suits, Mirrors, Rolls, NoGap, Rolling
  <2> QED
    BY <2>4 DEF Lands, Moving, Working
<1> QED
  BY <1>1, <1>2, <1>3, <1>4, <1>10, <1>11, <1>12, <1>13, WorkRest DEF Calls

\* All replicas below the next one run.
LEMMA RunsBelow ==
  ASSUME NEW l, Knows(l), Missing(l) # {}, Down(l) = {},
         l.seen = Listing(l.s) \/ Rolled(l)
  PROVE  \A j \in Index : j < NextIndex(l) => \E c \in Replicas(l.s) : c.i = j /\ c.up
<1> SUFFICES ASSUME NEW j \in Index, j < NextIndex(l)
             PROVE  \E c \in Replicas(l.s) : c.i = j /\ c.up
  OBVIOUS
<1>1. PICK k \in l.seen : k.i = j
  BY LeastMissing
<1>2. k.up
  BY DEF Down
<1> QED
  BY <1>1, <1>2 DEF Listing, Rolled

\* Deploy: the next replica is created; all those below it run.
LEMMA DeployRest ==
  ASSUME InOrder, IInv, IInv', Turns, Rest, NEW p \in Proc, Deploy(p) PROVE Rest'
<1>1. PICK l0 : l0 = loc[p]
  OBVIOUS
<1>2. Mover(p) /\ pc[p] = "deploy" /\ rows' = rows
  BY DEF Mover, Moving, Deploy, Working
<1>3. /\ Between(l0) /\ Knows(l0) /\ Serves(l0, "deploy") /\ Doing(l0, "deploy")
      /\ cont \subseteq Container /\ Sound(l0.s)
  BY <1>1, <1>2, AloneAtWork
<1>4. PICK s, n, id : s = l0.s /\ n = NextIndex(l0)
                        /\ id = CHOOSE x \in FreshCids(l0.s, n) : TRUE
  OBVIOUS
<1>5. PICK k : k = [i |-> n, id |-> id, up |-> FALSE]
  OBVIOUS
<1>6. PICK c : c = [s |-> s, i |-> n, id |-> id, image |-> l0.cfg.image, up |-> FALSE]
  OBVIOUS
<1>7. PICK seen : seen = l0.seen \cup {k}
  OBVIOUS
<1>8. PICK l : l = [l0 EXCEPT !.seen = seen]
  OBVIOUS
<1>9. /\ ~ NameTaken(l0) /\ FreshCids(s, n) # {}
      /\ cont' = cont \cup {c} /\ Step(p, [l0 EXCEPT !.seen = @ \cup {k}], "startnew")
  BY <1>1, <1>4, <1>5, <1>6 DEF Deploy
<1>10. Step(p, l, "startnew")
  <2>1. [l0 EXCEPT !.seen = @ \cup {k}] = l
    BY <1>3, <1>7, <1>8 DEF Knows, Local
  <2> QED
    BY <1>9, <2>1
<1>11. Missing(l0) # {} /\ Down(l0) = {} /\ s \in Service
  BY <1>1, <1>2, <1>3, <1>4, AtWork DEF Working, Doing, Knows
<1>12. /\ n \in Index /\ n < l0.cfg.replicas /\ l0.op # "delete"
       /\ \A b \in l0.seen : b.i # n
  <2>1. l0.op = "delete" => l0.cfg.replicas = 0
    BY <1>3 DEF Serves
  <2>2. n \in Index /\ n < l0.cfg.replicas /\ \A b \in l0.seen : b.i # n
    BY <1>3, <1>4, <1>11, LeastMissing
  <2>3. ~ (n < 0)
    BY <2>2, ConstantsAssumption DEF Index
  <2> QED
    BY <2>1, <2>2, <2>3
<1>13. id \in CID
  BY <1>4, <1>9 DEF FreshCids
<1>14. k \in Listed /\ k.i = n /\ k.id = id /\ k.up = FALSE
  BY <1>5, <1>12, <1>13 DEF Listed
<1>15. c.s = s /\ c.i = n /\ c.id = id /\ c.image = l0.cfg.image /\ c.up = FALSE
  BY <1>6
<1>16. /\ Replicas(s)' = Replicas(s) \cup {c}
       /\ \A b \in Replicas(s) : b.i # n
       /\ Replicas(s) \subseteq Container
  BY <1>3, <1>4, <1>9, <1>15 DEF Replicas, NameTaken
<1>17. \A t \in Service \ {s} : Untouched(t)
  BY <1>2, <1>9, <1>15 DEF Untouched, Replicas
<1>18. seen \in SUBSET Listed
  BY <1>3, <1>7, <1>14 DEF Knows
<1>19. /\ Knows(l) /\ l.seen = seen /\ l.op = l0.op /\ l.s = s /\ l.todo = l0.todo
       /\ l.cfg = l0.cfg
       /\ Serves(l0, "list")' => Serves(l, "list")'
       /\ Down(l) = {b \in seen : ~ b.up}
  BY <1>3, <1>4, <1>8, <1>18, Seeing
<1>20. Serves(l, "list")'
  <2>1. Serves(l0, "list")'
    BY <1>2, <1>3 DEF Serves
  <2> QED
    BY <1>19, <2>1
<1>21. Down(l) = {k}
  BY <1>7, <1>11, <1>14, <1>19 DEF Down
<1>22. /\ rows[s] # Nil /\ rows[s].cfg.replicas = l0.cfg.replicas
       /\ rows[s].cfg.image = l0.cfg.image
  BY <1>3, <1>4, <1>12 DEF Serves
<1>23. Wanted(s)' = Wanted(s) /\ n \in Wanted(s)
  BY <1>2, <1>12, <1>22 DEF Wanted
<1>24. l0.op \notin Rolling => l0.seen = Listing(s) /\ Imaged(s)
  BY <1>3, <1>4 DEF Doing, Mirrors, Rolls
<1>25. l0.op \in Rolling => Rolled(l0)
  BY <1>3 DEF Doing, Rolls
<1>26. "delete" \notin Ops => \A i \in Gap(s)' : i = n
  <2> SUFFICES ASSUME "delete" \notin Ops, NEW i \in Gap(s)', i # n PROVE FALSE
    OBVIOUS
  <2>1. /\ i \in Wanted(s) /\ \A b \in Replicas(s)' : b.up => b.i # i
        /\ \E b \in Replicas(s)' : b.i > i
    BY <1>23, NextGapOf
  <2>2. i \in Index /\ i \in Nat /\ n \in Nat
    BY <1>12, <2>1, Limits DEF Wanted
  <2>3. ~ (i < n)
    BY <1>3, <1>4, <1>11, <1>16, <1>24, <1>25, <2>1, <2>2, RunsBelow
  <2>4. PICK b \in Replicas(s) : b.i > i
    BY <1>15, <1>16, <2>1, <2>2, <2>3
  <2>5. b.i \in Nat
    BY <1>16, Limits DEF Container
  <2>6. i \in Gap(s) /\ n \in Gap(s)
    BY <1>16, <1>23, <2>1, <2>2, <2>3, <2>4, <2>5, GapOf
  <2> QED
    BY <1>3, <1>4, <2>6 DEF Sound
<1>27. Sound(s)'
  <2>1. rows'[s] = rows[s]
    BY <1>2
  <2>2. \A a, b \in Replicas(s)' : a.i = b.i => a = b
    BY <1>3, <1>4, <1>15, <1>16 DEF Sound
  <2> QED
    BY <1>22, <1>26, <2>1, <2>2 DEF Sound
<1>28. l0.op \notin Rolling => seen = (Listing(s))' /\ Imaged(s)'
  <2> SUFFICES ASSUME l0.op \notin Rolling PROVE seen = (Listing(s))' /\ Imaged(s)'
    OBVIOUS
  <2>1. (Listing(s))' = {[i |-> b.i, id |-> b.id, up |-> b.up] : b \in Replicas(s)'}
    BY DEF Listing
  <2>2. (Listing(s))' = Listing(s) \cup {[i |-> c.i, id |-> c.id, up |-> c.up]}
    BY <1>16, <2>1 DEF Listing
  <2>3. [i |-> c.i, id |-> c.id, up |-> c.up] = k
    BY <1>5, <1>15
  <2>4. Imaged(s)'
    BY <1>2, <1>15, <1>16, <1>22, <1>23, <1>24 DEF Imaged
  <2> QED
    BY <1>7, <1>24, <2>2, <2>3, <2>4
<1>29. l0.op \in Rolling => Rolled(l)'
  <2> SUFFICES ASSUME l0.op \in Rolling PROVE Rolled(l)'
    OBVIOUS
  <2>1. \A x \in seen : \E y \in Replicas(s)' :
          y.i = x.i /\ y.id = x.id /\ y.up = x.up /\ y.image = l.cfg.image
    BY <1>4, <1>7, <1>14, <1>15, <1>16, <1>19, <1>25 DEF Rolled
  <2>2. \A y \in Replicas(s)' : /\ y.up \/ \E x \in {k} : x.i = y.i
                                /\ l.op = "redeploy" => y.i < l.cfg.replicas
    <3>1. \A y \in Replicas(s) : y.up
      BY <1>4, <1>11, <1>25 DEF Rolled
    <3>2. l.op = "redeploy" => \A y \in Replicas(s) : y.i < l.cfg.replicas
      BY <1>4, <1>19, <1>25 DEF Rolled
    <3> QED
      BY <1>12, <1>14, <1>15, <1>16, <1>19, <3>1, <3>2
  <2>3. (Down(l))' = {k}
    BY <1>21 DEF Down
  <2> QED
    BY <1>19, <2>1, <2>2, <2>3 DEF Rolled
<1>30. Lands(l, "startnew")'
  <2>1. (Down(l))' = {k} /\ k \in l.seen
    BY <1>7, <1>19, <1>21 DEF Down
  <2>2. NoGap(l, "startnew")'
    BY <1>14, <1>19, <1>26, <2>1 DEF NoGap
  <2>3. Mirrors(l, "startnew") => l.seen = (Listing(l.s))' /\ Imaged(l.s)'
    BY <1>19, <1>28 DEF Mirrors
  <2>4. Rolls(l, "startnew") <=> l.op \in Rolling
    BY DEF Rolls
  <2>5. Suits(l, "startnew")
    BY <1>3, <1>12, <1>19 DEF Suits, Doing
  <2>6. Doing(l, "startnew")'
    BY <1>19, <1>28, <1>29, <2>1, <2>2, <2>3, <2>4, <2>5 DEF Doing, Suits
  <2> QED
    BY <2>6 DEF Lands, Moving, Working
<1> QED
  BY <1>1, <1>2, <1>4, <1>10, <1>17, <1>19, <1>20, <1>27, <1>30, WorkRest DEF Calls

\* Trim: a leftover goes; but for Delete, all the wanted replicas run by then.
LEMMA TrimRest ==
  ASSUME InOrder, IInv, IInv', Turns, Rest, NEW p \in Proc, Trim(p) PROVE Rest'
<1>1. PICK l0 : l0 = loc[p]
  OBVIOUS
<1>2. Mover(p) /\ pc[p] = "trim" /\ rows' = rows
  BY DEF Mover, Moving, Trim, Working
<1>3. /\ Between(l0) /\ Knows(l0) /\ Serves(l0, "trim") /\ Doing(l0, "trim")
      /\ cont \subseteq Container /\ Sound(l0.s)
  BY <1>1, <1>2, AloneAtWork
<1>4. PICK k \in Leftover(l0) :
        /\ cont' = {c \in cont : ~ Is(c, p, k)}
        /\ Step(p, [l0 EXCEPT !.seen = @ \ {k}], AfterTrim([l0 EXCEPT !.seen = @ \ {k}]))
  BY <1>1 DEF Trim, InOrder
<1>5. PICK s, seen : s = l0.s /\ seen = l0.seen \ {k}
  OBVIOUS
<1>6. PICK l : l = [l0 EXCEPT !.seen = seen]
  OBVIOUS
<1>7. Step(p, l, AfterTrim(l))
  <2>1. [l0 EXCEPT !.seen = @ \ {k}] = l
    BY <1>3, <1>5, <1>6 DEF Knows, Local
  <2> QED
    BY <1>4, <2>1
<1>8. /\ s \in Service /\ l0.seen = Listing(s) /\ Imaged(s)
      /\ l0.op # "delete" => Missing(l0) = {} /\ Down(l0) = {}
      /\ k \in l0.seen /\ k.i >= l0.cfg.replicas /\ seen \in SUBSET Listed
  BY <1>3, <1>5 DEF Doing, Mirrors, Rolls, Knows, Leftover
<1>9. PICK c \in Replicas(s) :
        /\ k = [i |-> c.i, id |-> c.id, up |-> c.up] /\ c \in cont /\ c.s = s
        /\ k.i = c.i /\ k \in Listed
        /\ \A d \in cont : d.s = s /\ d.i = k.i /\ d.id = k.id <=> d = c
  BY <1>3, <1>5, <1>8, TheOne
<1>10. cont' = cont \ {c}
  <2>1. \A d \in cont : Is(d, p, k) <=> d = c
    BY <1>1, <1>5, <1>9 DEF Is
  <2> QED
    BY <1>4, <2>1
<1>11. Replicas(s)' = Replicas(s) \ {c} /\ \A t \in Service \ {s} : Untouched(t)
  BY <1>2, <1>9, <1>10 DEF Replicas, Untouched
<1>12. seen = (Listing(s))'
  <2>1. \A b \in Replicas(s) \ {c} : [i |-> b.i, id |-> b.id, up |-> b.up] # k
    BY <1>3, <1>5, <1>9 DEF Sound
  <2>2. (Listing(s))' = {[i |-> b.i, id |-> b.id, up |-> b.up] : b \in Replicas(s)'}
    BY DEF Listing
  <2>3. Listing(s) \ {k} = {[i |-> b.i, id |-> b.id, up |-> b.up] : b \in Replicas(s) \ {c}}
    BY <1>9, <2>1 DEF Listing
  <2> QED
    BY <1>5, <1>8, <1>11, <2>2, <2>3
<1>13. /\ Knows(l) /\ l.seen = seen /\ l.op = l0.op /\ l.s = s /\ l.todo = l0.todo
       /\ l.cfg = l0.cfg
       /\ Serves(l0, "list")' => Serves(l, "list")'
       /\ Down(l) = {b \in seen : ~ b.up}
  BY <1>3, <1>5, <1>6, <1>8, Seeing
<1>14. Serves(l, "list")'
  <2>1. Serves(l0, "list")'
    BY <1>2, <1>3 DEF Serves
  <2> QED
    BY <1>13, <2>1
<1>15. l.op # "delete" => Missing(l) = {} /\ Down(l) = {}
  <2> SUFFICES ASSUME l0.op # "delete" PROVE Missing(l) = {} /\ Down(l) = {}
    BY <1>13
  <2>1. Down(l) = {}
    BY <1>5, <1>8, <1>13 DEF Down
  <2>2. ASSUME NEW i \in Index, i < l0.cfg.replicas PROVE \E b \in seen : b.i = i
    <3>1. PICK b \in l0.seen : b.i = i
      BY <1>8, <2>2 DEF Missing
    <3>2. b # k
      <4>1. i \in Nat /\ l0.cfg.replicas \in Nat
        BY <1>3, Limits DEF Knows, Config
      <4> QED
        BY <1>8, <2>2, <3>1, <4>1
    <3> QED
      BY <1>5, <3>1, <3>2
  <2> QED
    BY <1>13, <2>1, <2>2 DEF Missing
<1>16. Wanted(s)' = Wanted(s) /\ rows'[s] = rows[s] /\ rows[s] # Nil
  BY <1>2, <1>3, <1>5 DEF Wanted, Serves
<1>17. Sound(s)'
  <2>1. "delete" \notin Ops => Gap(s)' = {}
    <3> SUFFICES ASSUME "delete" \notin Ops, NEW i \in Gap(s)' PROVE FALSE
      OBVIOUS
    <3>1. l0.op # "delete"
      BY <1>1, <1>2, MoverKnows DEF Starting
    <3>2. rows[s].cfg.replicas = l0.cfg.replicas
      BY <1>3, <1>5, <3>1 DEF Serves
    <3>3. /\ i \in Index /\ i < l0.cfg.replicas
          /\ \A b \in Replicas(s)' : b.up => b.i # i
      BY <1>16, <3>2, NextGapOf DEF Wanted
    <3>4. PICK b \in seen : b.i = i /\ b.up
      BY <1>13, <1>15, <3>1, <3>3 DEF Missing
    <3> QED
      BY <1>12, <3>3, <3>4 DEF Listing
  <2> QED
    BY <1>3, <1>5, <1>11, <1>16, <2>1 DEF Sound
<1>18. Imaged(s)'
  BY <1>8, <1>11, <1>16 DEF Imaged
<1>19. Between(l)' /\ Sound(l.s)'
  BY <1>13, <1>14, <1>17, ContType DEF Between, IInv, TypeOK
<1>20. Lands(l, AfterTrim(l))'
  <2>1. (l.seen = Listing(l.s))' /\ Imaged(l.s)'
    BY <1>12, <1>13, <1>18
  <2>2. l.op # "delete" => Missing(l)' = {} /\ Down(l)' = {}
    BY <1>15 DEF Missing, Down
  <2> QED
    BY <1>19, <2>1, <2>2, NextPhases DEF Phases
<1> QED
  BY <1>1, <1>2, <1>5, <1>7, <1>11, <1>13, <1>19, <1>14, <1>20, PhaseCalls, WorkRest

\* Nothing is wanted of a service without row.
LEMMA NothingWanted ==
  ASSUME NEW s, rows[s] = Nil, Replicas(s) = {}
  PROVE  Good(s) /\ Imaged(s) /\ Gap(s) = {} /\ Sound(s)
BY DEF Good, Imaged, Gap, Sound, Wanted
LEMMA NextNothing == (\A s : rows[s] = Nil /\ Replicas(s) = {} => Good(s) /\ Imaged(s) /\ Sound(s))'
<1>1. \A s : rows[s] = Nil /\ Replicas(s) = {} => Good(s) /\ Imaged(s) /\ Sound(s)
  BY NothingWanted
<1> QED
  BY <1>1, PTL

\* Drop: the row goes when the last container has gone.
LEMMA DropRest ==
  ASSUME InOrder, IInv, IInv', Turns, Rest, NEW p \in Proc, Drop(p) PROVE Rest'
<1>1. PICK l : l = loc[p]
  OBVIOUS
<1>2. Mover(p) /\ pc[p] = "drop" /\ rows' = Dropped(l) /\ Step(p, l, "sync") /\ cont' = cont
  BY <1>1 DEF Mover, Moving, Drop, Working
<1>3. Knows(l) /\ Serves(l, "drop") /\ Doing(l, "drop")
  BY <1>1, <1>2, AloneAtWork
<1>4. Replicas(l.s) = {} /\ l.s \in Service
  BY <1>3 DEF Doing, Mirrors, Listing, Knows
<1>5. rows'[l.s] = Nil
  BY <1>2, <1>3, <1>4 DEF Dropped, Serves
<1>6. \A t \in Service \ {l.s} : Untouched(t)
  BY <1>2 DEF Dropped, Untouched, Replicas
<1>7. Replicas(l.s)' = {}
  BY <1>2, <1>4 DEF Replicas
<1>8. Good(l.s)' /\ Imaged(l.s)' /\ Sound(l.s)'
  BY <1>5, <1>7, NextNothing
<1>9. Lands(l, "sync")' /\ ~ Moving(l, "sync")
  BY <1>8 DEF Lands, Moving, Working
<1> QED
  BY <1>1, <1>2, <1>3, <1>6, <1>8, <1>9, WorkRest DEF Calls

-----------------------------------------------------------------------------
(***************************************************************************)
(* The other calls, and the requests.                                      *)
(***************************************************************************)

\* When all the wanted replicas run there is no gap, whatever is wanted next.
LEMMA GoodHasNoGap ==
  ASSUME IInv, NEW s \in Service, Good(s), Replicas(s)' = Replicas(s),
         NEW i \in Gap(s)'
  PROVE  FALSE
<1>1. /\ i \in Wanted(s)' /\ \A c \in Replicas(s) : c.up => c.i # i
      /\ \E c \in Replicas(s) : c.i > i
  BY NextGapOf
<1>2. PICK c \in Replicas(s) : c.i > i
  BY <1>1
<1>3. c.i \in Wanted(s) /\ i \in Index
  BY <1>1 DEF Good, Wanted
<1>4. rows[s] # Nil /\ c.i < rows[s].cfg.replicas /\ rows[s].cfg.replicas \in Count
  BY <1>3 DEF Wanted, IInv, TypeOK, Row, Config
<1>5. i \in Wanted(s) \/ ~ (i < rows[s].cfg.replicas)
  BY <1>3, <1>4 DEF Wanted
<1>6. CASE i \in Wanted(s)
  BY <1>1, <1>6 DEF Good
<1>7. CASE ~ (i < rows[s].cfg.replicas)
  BY <1>2, <1>3, <1>4, <1>7, Limits DEF Wanted
<1> QED
  BY <1>5, <1>6, <1>7

\* What an operation that replaces replicas writes into its row.
LEMMA RowWritten ==
  ASSUME IInv, NEW l, Knows(l), Serves(l, "write"), rows' = Written(l),
         l.op \in {"update", "scale", "redeploy"}
  PROVE  /\ Serves(l, "list")'
         /\ \A t \in Service \ {l.s} : rows'[t] = rows[t]
         /\ l.op = "redeploy" => rows[l.s].cfg.replicas = l.cfg.replicas
         /\ l.op = "scale" => rows'[l.s].cfg.image = rows[l.s].cfg.image
<1>1. PICK s : s = l.s
  OBVIOUS
<1>2. s \in Service /\ rows[s] \in Row /\ rows[s] # Nil /\ rows[s].id = l.id
  BY <1>1 DEF IInv, TypeOK, Knows, Serves
<1>3. PICK cfg : cfg = Assign(l.op, rows[s].cfg, l.cfg)
  OBVIOUS
<1>4. rows[s].cfg \in Config /\ l.cfg \in Config
  BY <1>2 DEF Row, Knows
<1>5. rows'[s] = [rows[s] EXCEPT !.cfg = cfg]
  BY <1>1, <1>2, <1>3, <1>4 DEF Written, Row
<1>6. cfg \in Config /\ rows'[s] \in Row /\ rows'[s].id = l.id /\ rows'[s].cfg = cfg
  <2>1. cfg \in Config
    BY <1>3, <1>4 DEF Assign, Config
  <2> QED
    BY <1>2, <1>5, <2>1 DEF Row
<1>7. rows'[s] # Nil
  BY <1>6, ConstantsAssumption
<1>8. /\ l.op = "redeploy" => rows[s].cfg.replicas = l.cfg.replicas
      /\ l.op = "scale" => rows[s].cfg.image = l.cfg.image
  BY <1>1 DEF Serves
<1>9. cfg.replicas = l.cfg.replicas /\ cfg.image = l.cfg.image
  BY <1>3, <1>4, <1>8 DEF Assign, Config
<1>10. \A t \in Service \ {s} : rows'[t] = rows[t]
  BY <1>1 DEF Written
<1> QED
  BY <1>1, <1>6, <1>7, <1>8, <1>9, <1>10 DEF Serves

\* Write: the row changes; until now the service was as it said.
LEMMA WriteRest ==
  ASSUME InOrder, IInv, IInv', Turns, Rest, NEW p \in Proc, Write(p) PROVE Rest'
<1>1. PICK l : l = loc[p]
  OBVIOUS
<1>2. /\ pc[p] = "write" /\ rows' = Written(l) /\ cont' = cont
      /\ Step(p, l, AfterWrite(l))
  BY <1>1 DEF Write
<1>3. l \in Local /\ l.op \in Writers /\ l.s \in Service /\ l.cfg \in Config
      /\ l.seen \in SUBSET Listed
  BY <1>1, <1>2, AtWork DEF Working
<1>4. CASE l.op = "subdomain"
  <2>1. \A t \in Service : Untouched(t)
    <3> SUFFICES ASSUME NEW t \in Service PROVE Untouched(t)
      OBVIOUS
    <3>1. rows' [t] = rows[t] \/
          (rows[t] # Nil /\ rows'[t] = [rows[t] EXCEPT !.cfg = [@ EXCEPT !.sub = l.cfg.sub]])
      BY <1>2, <1>4 DEF Written, Assign
    <3>2. rows[t] # Nil => rows[t] \in Row /\ rows[t].cfg \in Config
      BY DEF IInv, TypeOK, Row
    <3>3. rows'[t] # Nil => rows'[t] \in Row
      BY DEF IInv, TypeOK
    <3>4. CASE rows'[t] = rows[t]
      BY <1>2, <3>4 DEF Untouched, Replicas
    <3>5. CASE rows[t] # Nil /\ rows'[t] = [rows[t] EXCEPT !.cfg = [@ EXCEPT !.sub = l.cfg.sub]]
      <4>1. PICK cfg : cfg = [rows[t].cfg EXCEPT !.sub = l.cfg.sub]
        OBVIOUS
      <4>2. /\ cfg.replicas = rows[t].cfg.replicas /\ cfg.image = rows[t].cfg.image
            /\ cfg \in Config
        BY <1>3, <3>2, <3>5, <4>1 DEF Config
      <4>3. rows'[t] = [rows[t] EXCEPT !.cfg = cfg]
        BY <3>5, <4>1
      <4>4. rows'[t].cfg = cfg /\ rows'[t].id = rows[t].id /\ rows'[t] \in Row
        BY <3>2, <3>5, <4>2, <4>3 DEF Row
      <4> QED
        BY <1>2, <3>5, <4>2, <4>4, ConstantsAssumption DEF Untouched, Replicas
    <3> QED
      BY <3>1, <3>4, <3>5
  <2>2. AfterWrite(l) = "sync"
    BY <1>4 DEF AfterWrite
  <2>3. /\ pc'[p] = "sync" /\ loc'[p].todo = l.todo
        /\ \A q \in Proc \ {p} : pc'[q] = pc[q] /\ loc'[q] = loc[q]
    BY <1>2, <1>3, <2>2, NoLocalType DEF Step, IInv, TypeOK, NoLocal, Local
  <2>4. ~ Mover(p) /\ ~ Mover(p)'
    BY <1>1, <1>2, <1>4, <2>3 DEF Mover, Moving, Working
  <2>5. \A q \in Proc : Mover(q) => loc[q].s \in Service
    BY MoverKnows
  <2> QED
    BY <1>1, <2>1, <2>3, <2>4, <2>5, QuietRest
<1>5. CASE l.op # "subdomain"
  <2>1. Mover(p) /\ l.op \in {"update", "scale", "redeploy"}
    BY <1>1, <1>2, <1>3, <1>5 DEF Mover, Moving, Working, Writers
  <2>2. /\ Knows(l) /\ Serves(l, "write") /\ Doing(l, "write")
        /\ cont \subseteq Container /\ Sound(l.s)
    BY <1>1, <1>2, <2>1, AloneAtWork
  <2>3. Good(l.s) /\ Imaged(l.s) /\ l.seen = {}
    BY <2>2 DEF Doing, Rolls
  <2>4. /\ Serves(l, "list")'
        /\ \A t \in Service \ {l.s} : rows'[t] = rows[t]
        /\ l.op = "redeploy" => rows[l.s].cfg.replicas = l.cfg.replicas
        /\ l.op = "scale" => rows'[l.s].cfg.image = rows[l.s].cfg.image
    BY <1>2, <2>1, <2>2, RowWritten
  <2>5. \A t \in Service : Replicas(t)' = Replicas(t)
    BY <1>2 DEF Replicas
  <2>6. \A t \in Service \ {l.s} : Untouched(t)
    BY <2>4, <2>5 DEF Untouched
  <2>7. Gap(l.s)' = {}
    BY <1>3, <2>2, <2>3, <2>5, GoodHasNoGap
  <2>8. Sound(l.s)'
    BY <1>3, <2>2, <2>4, <2>5, <2>7 DEF Sound, Serves
  <2>9. Between(l)'
    BY <2>2, <2>4, <2>8, ContType DEF Between, IInv, TypeOK
  <2>10. AfterWrite(l) \in Calls \ {"write"} /\ Lands(l, AfterWrite(l))'
    <3>1. CASE l.op = "scale"
      <4>1. AfterWrite(l) = "list"
        BY <3>1 DEF AfterWrite
      <4>2. Imaged(l.s)'
        <5>1. \A c \in Replicas(l.s) : c.i \in Wanted(l.s)
          BY <2>3 DEF Good
        <5> QED
          BY <1>3, <2>3, <2>4, <2>5, <3>1, <5>1 DEF Imaged
      <4>3. Doing(l, "list")'
        BY <3>1, <4>2 DEF Doing, Suits, Mirrors, Rolls, NoGap
      <4> QED
        BY <4>1, <4>3 DEF Lands, Moving, Working, Calls
    <3>2. CASE l.op \in {"update", "redeploy"}
      <4>1. AfterWrite(l) = AfterDeploy(l)
        BY <3>2 DEF AfterWrite
      <4>2. \A c \in Replicas(l.s)' : c.up /\ (l.op = "redeploy" => c.i < l.cfg.replicas)
        BY <1>3, <2>3, <2>4, <2>5 DEF Good, Wanted
      <4>3. Rolled(l)' /\ (Down(l) = {})'
        BY <2>3, <4>2 DEF Rolled, Down
      <4>4. Lands(l, AfterDeploy(l))'
        BY <2>7, <2>9, <3>2, <4>3, NextPhases DEF Phases, Rolling
      <4> QED
        BY <2>2, <4>1, <4>4, PhaseCalls
    <3> QED
      BY <2>1, <3>1, <3>2
  <2> QED
    BY <1>1, <1>2, <2>1, <2>2, <2>4, <2>6, <2>8, <2>10, WorkRest
<1> QED
  BY <1>4, <1>5

\* Who may begin to replace replicas finds all services as their rows say.
LEMMA NobodyAtWork ==
  ASSUME InOrder, IInv, Turns, Rest, NEW p \in Proc, NEW op \in ClientOps \ {"subdomain"},
         May(p, op), op \in Rolling => mu = Nil
  PROVE  /\ \A q \in Proc : ~ Mover(q) /\ loc[q].todo = {}
         /\ \A s \in Service : Good(s) /\ Imaged(s) /\ Sound(s)
<1>1. ASSUME NEW q \in Proc, Mover(q) PROVE FALSE
  <2>1. pc[q] # "idle" /\ q # Main /\ p # Main /\ op \in Ops /\ q # p
    BY <1>1 DEF May, Turns, Mover, Moving, Working
  <2>2. loc[q].op \in Ops \ {"subdomain"}
    BY <1>1, <2>1, MoverKnows DEF Turns
  <2>3. Ops \subseteq Rolling \cup {"subdomain"}
    BY <2>1 DEF InOrder
  <2>4. mu = q /\ mu = Nil
    BY <2>1, <2>2, <2>3 DEF Turns
  <2> QED
    BY <2>4, ConstantsAssumption
<1>2. ASSUME NEW q \in Proc PROVE loc[q].todo = {}
  BY DEF May, Turns, Booting, Starting
<1>3. ASSUME NEW s \in Service PROVE Good(s) /\ Imaged(s) /\ Sound(s)
  BY <1>1, <1>2 DEF Rest
<1> QED
  BY <1>1, <1>2, <1>3

\* A request that replaces replicas begins.
LEMMA RequestRest ==
  ASSUME InOrder, IInv, Turns, Rest, NEW p \in Proc, NEW op \in ClientOps \ {"subdomain"},
         May(p, op), op \in Rolling => mu = Nil,
         NEW s \in Service, NEW row \in Row, NEW at \in {"write", "list"},
         Begin(p, op, s, row, at), cont' = cont,
         \A t \in Service \ {s} : rows'[t] = rows[t],
         rows'[s] # Nil, rows'[s].id = row.id,
         IF op = "create" THEN rows[s] = Nil /\ rows'[s] = row ELSE rows'[s] = rows[s],
         at = "write" => op \in {"update", "scale", "redeploy"},
         at = "list" => op \in {"create", "delete"},
         op = "delete" => row.cfg.replicas = 0,
         op = "redeploy" => rows'[s].cfg.replicas = row.cfg.replicas,
         op = "scale" => rows'[s].cfg.image = row.cfg.image
  PROVE  Rest'
<1>1. /\ \A q \in Proc : ~ Mover(q) /\ loc[q].todo = {}
      /\ Good(s) /\ Imaged(s) /\ Sound(s)
  BY NobodyAtWork
<1>2. PICK todo, l : /\ todo = loc[p].todo
                     /\ l = [NoLocal EXCEPT !.op = op, !.s = s, !.id = row.id,
                                            !.cfg = row.cfg, !.todo = todo]
  OBVIOUS
<1>3. todo \in SUBSET Entry
  BY <1>1, <1>2
<1>4. /\ l \in Local /\ l.op = op /\ l.s = s /\ l.id = row.id /\ l.cfg = row.cfg
      /\ l.seen = {}
  BY <1>2, <1>3, NoLocalType DEF NoLocal, Local, Row
<1>5. Step(p, l, at)
  BY <1>2 DEF Begin
<1>6. /\ pc'[p] = at /\ loc'[p] = l
      /\ \A q \in Proc \ {p} : pc'[q] = pc[q] /\ loc'[q] = loc[q]
  BY <1>4, <1>5, StepChanges DEF IInv, Calls
<1>7. \A t \in Service : Replicas(t)' = Replicas(t)
  BY DEF Replicas
<1>8. \A t \in Service \ {s} : Untouched(t)
  BY <1>7 DEF Untouched
<1>9. Sound(s)' /\ Imaged(s)' /\ (op # "create" => Good(s)')
  <2>1. CASE op = "create"
    <3>1. Replicas(s)' = {}
      BY <1>1, <1>7, <2>1 DEF Good, Wanted
    <3>2. Gap(s)' = {}
      BY <3>1, NextGapOf
    <3> QED
      BY <2>1, <3>1, <3>2 DEF Sound, Imaged
  <2>2. CASE op # "create"
    <3>1. Untouched(s)
      BY <1>7, <2>2 DEF Untouched
    <3> QED
      BY <1>1, <3>1, Same, SameImages
  <2> QED
    BY <2>1, <2>2
<1>10. Serves(l, at)'
  BY <1>4 DEF Serves, ClientOps, Rolling
<1>11. Doing(l, at)'
  BY <1>4, <1>9 DEF Doing, Suits, Mirrors, Rolls, NoGap, Rolling
<1>12. Moving(l, at)
  BY <1>4 DEF Moving, Working
<1>13. Lands(l, at)'
  BY <1>11, <1>12 DEF Lands
<1>14. \A e \in loc[p].todo : e.s = s \/ e \in loc'[p].todo
  BY <1>1
<1> QED
  BY <1>1, <1>4, <1>6, <1>8, <1>9, <1>10, <1>13, <1>14, MoverRest

\* A step that leaves the services alone, of a goroutine that does not work on one.
LEMMA OutsideRest ==
  ASSUME InOrder, IInv, Turns, Rest, NEW p \in Proc, UNCHANGED <<rows, cont>>,
         NEW l \in Local, NEW at \in Calls, Step(p, l, at),
         pc[p] \notin Working, ~ Moving(l, at), loc[p].todo \subseteq l.todo
  PROVE  Rest'
<1>1. /\ pc'[p] = at /\ loc'[p].op = l.op
      /\ \A q \in Proc \ {p} : pc'[q] = pc[q] /\ loc'[q] = loc[q]
  BY StepChanges DEF IInv
<1>2. loc'[p].todo = l.todo
  BY NoLocalType DEF Step, IInv, TypeOK, NoLocal, Local
<1>3. ~ Mover(p) /\ ~ Mover(p)'
  BY <1>1 DEF Mover, Moving
<1>4. \A t \in Service : Untouched(t)
  BY DEF Untouched, Replicas
<1>5. \A q \in Proc : Mover(q) => loc[q].s \in Service
  BY MoverKnows
<1> QED
  BY <1>1, <1>2, <1>3, <1>4, <1>5, QuietRest

\* The requests.
LEMMA RequestsRest ==
  ASSUME InOrder, IInv, IInv', Turns, Rest, NEW p \in Proc, Request(p)
  PROVE  Turns' /\ Rest'
<1>1. PICK s \in Service :
          \/ \E req \in Requests : Create(p, s, req) \/ Update(p, s, req)
          \/ \E n \in -1..MaxReplicas : Scale(p, s, n)
          \/ \E sub \in Subdomain : SetSubdomain(p, s, sub)
          \/ \E image \in Image \cup {""} : Redeploy(p, s, image)
          \/ Delete(p, s)
  BY DEF Request
<1>2. rows \in [Service -> Row \cup {Nil}]
  BY ContType
<1>3. ASSUME NEW req \in Requests, Create(p, s, req) PROVE Turns' /\ Rest'
  <2>1. PICK row : row = [id |-> FreshRowId, cfg |-> Normal(req)]
    OBVIOUS
  <2>2. row \in Row
    <3>1. FreshRowId \in SvcId
      BY <1>3 DEF Create, FreshRowId, FreshRowIds
    <3> QED
      BY <2>1, <3>1, NormalType, ConstantsAssumption DEF Row
  <2>3. /\ Begin(p, "create", s, row, "list") /\ May(p, "create") /\ rows[s] = Nil
        /\ rows' = [rows EXCEPT ![s] = row] /\ mu' = mu /\ cont' = cont
    BY <1>3, <2>1 DEF Create
  <2>4. rows'[s] = row /\ row # Nil /\ \A t \in Service \ {s} : rows'[t] = rows[t]
    BY <1>2, <2>2, <2>3, ConstantsAssumption
  <2> QED
    BY <2>2, <2>3, <2>4, BeginTurns, RequestRest DEF ClientOps, Rolling
<1>4. ASSUME NEW n \in -1..MaxReplicas, Scale(p, s, n) PROVE Turns' /\ Rest'
  <2>1. May(p, "scale") /\ rows[s] \in Row /\ rows[s] # Nil /\ rows[s].cfg \in Config
    BY <1>2, <1>4 DEF Scale, Turns, Row
  <2>2. PICK row : row = [rows[s] EXCEPT !.cfg.replicas = AtLeast(n, 0)]
    OBVIOUS
  <2>3. row \in Row /\ row.id = rows[s].id /\ row.cfg.image = rows[s].cfg.image
    <3>1. AtLeast(n, 0) \in Count
      BY ConstantsAssumption DEF AtLeast, Count
    <3> QED
      BY <2>1, <2>2, <3>1, RowType DEF Row, Config
  <2>4. Begin(p, "scale", s, row, "write") /\ rows' = rows /\ mu' = mu /\ cont' = cont
    BY <1>4, <2>2 DEF Scale
  <2> QED
    BY <2>1, <2>3, <2>4, BeginTurns, RequestRest DEF ClientOps, Rolling
<1>5. ASSUME NEW image \in Image \cup {""}, Redeploy(p, s, image) PROVE Turns' /\ Rest'
  <2>1. /\ May(p, "redeploy") /\ rows[s] \in Row /\ rows[s] # Nil /\ rows[s].cfg \in Config
        /\ mu = Nil
    BY <1>2, <1>5 DEF Redeploy, Row
  <2>2. PICK x : x = IF image = "" THEN rows[s].cfg.image ELSE image
    OBVIOUS
  <2>3. PICK row : row = [rows[s] EXCEPT !.cfg.image = x]
    OBVIOUS
  <2>4. x \in Image
    BY <2>1, <2>2 DEF Config
  <2>5. row \in Row /\ row.id = rows[s].id /\ row.cfg.replicas = rows[s].cfg.replicas
    BY <2>1, <2>3, <2>4, RowType DEF Row, Config
  <2>6. Begin(p, "redeploy", s, row, "write") /\ rows' = rows /\ mu' = p /\ cont' = cont
    BY <1>5, <2>2, <2>3 DEF Redeploy
  <2> QED
    BY <2>1, <2>5, <2>6, BeginTurns, RequestRest DEF ClientOps, Rolling
<1>6. ASSUME NEW req \in Requests, Update(p, s, req) PROVE Turns' /\ Rest'
  <2>1. /\ May(p, "update") /\ rows[s] \in Row /\ rows[s] # Nil /\ mu = Nil
    BY <1>2, <1>6 DEF Update
  <2>2. PICK row : row = [rows[s] EXCEPT !.cfg = Normal(req)]
    OBVIOUS
  <2>3. row \in Row /\ row.id = rows[s].id
    BY <2>1, <2>2, RowType, NormalType, ConstantsAssumption DEF Row
  <2>4. Begin(p, "update", s, row, "write") /\ rows' = rows /\ mu' = p /\ cont' = cont
    BY <1>6, <2>2 DEF Update
  <2> QED
    BY <2>1, <2>3, <2>4, BeginTurns, RequestRest DEF ClientOps, Rolling
<1>7. CASE Delete(p, s)
  <2>1. May(p, "delete") /\ rows[s] \in Row /\ rows[s] # Nil /\ rows[s].cfg \in Config
    BY <1>2, <1>7 DEF Delete, Row
  <2>2. PICK row : row = [rows[s] EXCEPT !.cfg.replicas = 0]
    OBVIOUS
  <2>3. row \in Row /\ row.id = rows[s].id /\ row.cfg.replicas = 0
    <3>1. 0 \in Count
      BY ConstantsAssumption DEF Count
    <3> QED
      BY <2>1, <2>2, <3>1, RowType DEF Row, Config
  <2>4. Begin(p, "delete", s, row, "list") /\ rows' = rows /\ mu' = mu /\ cont' = cont
    BY <1>7, <2>2 DEF Delete
  <2> QED
    BY <2>1, <2>3, <2>4, BeginTurns, RequestRest DEF ClientOps, Rolling
<1>8. ASSUME NEW sub \in Subdomain, SetSubdomain(p, s, sub) PROVE Turns' /\ Rest'
  <2>1. /\ May(p, "subdomain") /\ rows[s] # Nil /\ rows' = rows /\ cont' = cont /\ mu' = mu
        /\ pc[p] \notin Working
    BY <1>8 DEF SetSubdomain, May, Working
  <2>2. PICK row : row = [rows[s] EXCEPT !.cfg.sub = sub]
    OBVIOUS
  <2>3. row \in Row
    BY <2>1, <2>2, RowType
  <2>4. Begin(p, "subdomain", s, row, "write")
    BY <1>8, <2>2 DEF SetSubdomain
  <2>5. PICK op, todo, l : /\ op = "subdomain" /\ todo = loc[p].todo
                           /\ l = [NoLocal EXCEPT !.op = op, !.s = s, !.id = row.id,
                                                  !.cfg = row.cfg, !.todo = todo]
    OBVIOUS
  <2>6. todo \in SUBSET Entry /\ op \in ClientOps
    BY <2>5 DEF IInv, TypeOK, Local, ClientOps
  <2>7. l \in Local /\ l.op = op /\ l.todo = todo
    BY <2>3, <2>5, <2>6, NoLocalType DEF NoLocal, Local, Row
  <2>8. Step(p, l, "write") /\ ~ Moving(l, "write") /\ "write" \in Calls
    BY <2>4, <2>5, <2>7 DEF Begin, Moving, Calls
  <2> QED
    BY <2>1, <2>3, <2>4, <2>5, <2>6, <2>7, <2>8, BeginTurns, OutsideRest DEF Rolling
<1> QED
  BY <1>1, <1>3, <1>4, <1>5, <1>6, <1>7, <1>8

-----------------------------------------------------------------------------
(***************************************************************************)
(* SyncAll, the publications and the crashes.                              *)
(***************************************************************************)

\* BootNext: SyncAll goes on with a service it listed, or with Sync.
LEMMA BootRest ==
  ASSUME InOrder, IInv, IInv', Turns, Rest, BootNext PROVE Turns' /\ Rest'
<1>1. /\ Main \in Proc /\ loc[Main] \in Local /\ pc[Main] = "boot" /\ loc[Main].op = "boot"
      /\ mu' = mu /\ rows' = rows /\ cont' = cont
  BY ConstantsAssumption DEF IInv, TypeOK, AllFit, Fits, BootNext
<1>2. \A q \in Proc : ~ Mover(q)
  <2>1. \A q \in Proc \ {Main} : pc[q] = "idle"
    BY <1>1 DEF Turns, Booting, Starting
  <2> QED
    BY <1>1, <2>1 DEF Mover, Moving, Working
<1>3. CASE loc[Main].todo = {} /\ Step(Main, [NoLocal EXCEPT !.op = "boot"], "sync")
  <2>1. PICK l : l = [NoLocal EXCEPT !.op = "boot"]
    OBVIOUS
  <2>2. l \in Local /\ l.op = "boot" /\ l.todo = {}
    BY <2>1, NoLocalType DEF NoLocal, Local, Starting
  <2>3. Step(Main, l, "sync") /\ "sync" \in Calls \ {"sample", "get"}
    BY <1>3, <2>1 DEF Calls
  <2>4. pc[Main] \notin Working /\ ~ Moving(l, "sync")
    BY <1>1 DEF Working, Moving
  <2> QED
    BY <1>1, <1>3, <2>2, <2>3, <2>4, ProceedTurns, OutsideRest
<1>4. ASSUME NEW e \in loc[Main].todo,
             Step(Main, [NoLocal EXCEPT !.op = "boot", !.s = e.s, !.id = e.row.id,
                           !.cfg = e.row.cfg, !.todo = loc[Main].todo \ {e}], "list")
      PROVE  Turns' /\ Rest'
  <2>1. e \in Entry /\ loc[Main].todo \in SUBSET Entry /\ rows[e.s] = e.row
    BY <1>1, <1>4 DEF Local, Turns
  <2>2. /\ e.s \in Service /\ e.row \in Row /\ e.row.id \in SvcId /\ e.row.cfg \in Config
        /\ e.row # Nil
    BY <2>1, ConstantsAssumption DEF Entry, Row
  <2>3. PICK todo, l : /\ todo = loc[Main].todo \ {e}
                       /\ l = [NoLocal EXCEPT !.op = "boot", !.s = e.s, !.id = e.row.id,
                                              !.cfg = e.row.cfg, !.todo = todo]
    OBVIOUS
  <2>4. todo \in SUBSET Entry
    BY <2>1, <2>3
  <2>5. /\ l \in Local /\ l.op = "boot" /\ l.s = e.s /\ l.id = e.row.id /\ l.cfg = e.row.cfg
        /\ l.todo = todo /\ l.seen = {}
    BY <2>2, <2>3, <2>4, NoLocalType DEF NoLocal, Local, Starting
  <2>6. Step(Main, l, "list") /\ "list" \in Calls \ {"sample", "get"}
    BY <1>4, <2>3 DEF Calls
  <2>7. Turns'
    BY <1>1, <2>3, <2>5, <2>6, ProceedTurns
  <2>8. /\ pc'[Main] = "list" /\ loc'[Main] = l
        /\ \A q \in Proc \ {Main} : pc'[q] = pc[q] /\ loc'[q] = loc[q]
    BY <1>1, <2>5, <2>6, StepChanges DEF IInv
  <2>9. PICK s : s = e.s
    OBVIOUS
  <2>10. Imaged(s) /\ Sound(s)
    BY <1>2, <2>2, <2>9 DEF Rest
  <2>11. \A t \in Service : Untouched(t)
    BY <1>1 DEF Untouched, Replicas
  <2>12. Imaged(s)' /\ Sound(s)'
    BY <2>2, <2>9, <2>10, <2>11, Same, SameImages
  <2>13. Serves(l, "list")'
    BY <1>1, <2>1, <2>2, <2>5 DEF Serves
  <2>14. Lands(l, "list")'
    <3>1. Doing(l, "list")'
      BY <2>5, <2>9, <2>12 DEF Doing, Suits, Mirrors, Rolls, NoGap, Rolling
    <3> QED
      BY <2>5, <3>1 DEF Lands, Moving, Working
  <2>15. \A x \in loc[Main].todo : x.s = s \/ x \in loc'[Main].todo
    BY <2>3, <2>5, <2>8, <2>9
  <2>16. Rest'
    BY <1>1, <1>2, <2>2, <2>5, <2>8, <2>9, <2>11, <2>12, <2>13, <2>14, <2>15, MoverRest
  <2> QED
    BY <2>7, <2>16
<1> QED
  BY <1>3, <1>4 DEF BootNext

\* A Sync replaces no replica.
LEMMA SyncRest ==
  ASSUME InOrder, IInv, Turns, Rest, NEW p \in Proc, SyncRead(p) \/ SyncPush(p) PROVE Rest'
<1>1. /\ pc[p] \in {"sync", "push"} /\ loc[p] \in Local /\ UNCHANGED <<rows, cont>>
      /\ pc[p] \notin Working
  BY DEF SyncRead, SyncPush, Publishing, IInv, TypeOK, Working
<1>2. loc[p].todo = {}
  BY <1>1 DEF Turns
<1>3. ASSUME NEW l \in Local, NEW at \in {"push", "sync", "idle"}, Step(p, l, at) PROVE Rest'
  <2>1. ~ Moving(l, at) /\ at \in Calls
    BY DEF Moving, Working, Calls
  <2> QED
    BY <1>1, <1>2, <1>3, <2>1, OutsideRest
<1>4. CASE SyncRead(p)
  <2>1. PICK l : l = [loc[p] EXCEPT !.view = Upstreams]
    OBVIOUS
  <2>2. l \in Local
    BY <1>1, <2>1, UpstreamsType DEF Local, IInv
  <2> QED
    BY <1>3, <1>4, <2>1, <2>2 DEF SyncRead, Publishing
<1>5. CASE SyncPush(p)
  <2>1. PICK l : l = [NoLocal EXCEPT !.op = "resync"]
    OBVIOUS
  <2>2. l \in Local /\ NoLocal \in Local
    BY <2>1, NoLocalType DEF NoLocal, Local, Starting
  <2>3. [NoLocal EXCEPT !.todo = loc[p].todo].todo = {}
    BY <1>2 DEF NoLocal
  <2>4. Step(p, l, "sync") \/ Step(p, NoLocal, "idle")
    BY <1>5, <2>1, <2>3 DEF SyncPush, Done
  <2> QED
    BY <1>3, <2>2, <2>4
<1> QED
  BY <1>4, <1>5

\* The server starts: what the services lack is on SyncAll's list.
StartedOver ==
  /\ pc = [p \in Proc |-> IF p = Main THEN "boot" ELSE "idle"]
  /\ loc = [p \in Proc |-> IF p = Main
               THEN [NoLocal EXCEPT !.op = "boot", !.todo = ListServices] ELSE NoLocal]
  /\ \A s \in Service : Sound(s) /\ Imaged(s)

\* SyncAll's list makes up for what is not as it should be.
LEMMA Restarts == StartedOver => Turns /\ Rest
<1> SUFFICES ASSUME StartedOver PROVE Turns /\ Rest
  OBVIOUS
<1>1. PICK l : l = [NoLocal EXCEPT !.op = "boot", !.todo = ListServices]
  OBVIOUS
<1>2. l.op = "boot" /\ l.todo = ListServices /\ NoLocal.op = "none" /\ NoLocal.todo = {}
  BY <1>1 DEF NoLocal
<1>3. /\ pc[Main] = "boot" /\ loc[Main] = l /\ Main \in Proc
      /\ \A q \in Proc \ {Main} : pc[q] = "idle" /\ loc[q] = NoLocal
  BY <1>1, ConstantsAssumption DEF StartedOver
<1>4. \A e \in ListServices : rows[e.s] = e.row
  BY DEF ListServices
<1>5. Turns
  BY <1>2, <1>3, <1>4 DEF Turns, Booting, Starting, Rolling
<1>6. \A q \in Proc : ~ Mover(q)
  BY <1>3 DEF Mover, Moving, Working
<1>7. ASSUME NEW s \in Service PROVE Good(s) \/ \E e \in loc[Main].todo : e.s = s
  <2>1. CASE rows[s] = Nil
    <3>1. Replicas(s) = {}
      BY <2>1 DEF StartedOver, Sound
    <3> QED
      BY <2>1, <3>1, NothingWanted
  <2>2. CASE rows[s] # Nil
    <3>1. [s |-> s, row |-> rows[s]] \in ListServices
      BY <2>2 DEF ListServices, Live
    <3> QED
      BY <1>2, <1>3, <3>1
  <2> QED
    BY <2>1, <2>2
<1>8. Rest
  BY <1>3, <1>6, <1>7 DEF Rest, StartedOver
<1> QED
  BY <1>5, <1>8
LEMMA NextRestarts == (StartedOver => Turns /\ Rest)'
BY Restarts, PTL

\* Crash: the images are no longer promised, all the rest is SyncAll's to do.
LEMMA CrashRest == ASSUME IInv, Turns, Rest, Crash PROVE Turns' /\ Rest'
<1>1. \A t \in Service : Untouched(t)
  BY DEF Crash, Untouched, Replicas
<1>2. \A s \in Service : Sound(s)'
  BY <1>1, Same DEF Rest
<1>3. MaxCrashes # 0
  BY ConstantsAssumption DEF Crash, IInv, TypeOK
<1>4. \A s \in Service : Imaged(s)'
  BY <1>3 DEF Imaged
<1>5. ListServices' = ListServices
  BY DEF Crash, ListServices, Live
<1>6. StartedOver'
  BY <1>2, <1>4, <1>5 DEF Crash, StartedOver
<1> QED
  BY <1>6, NextRestarts

\* Init: no container, and SyncAll has listed all services.
LEMMA InitRest == ASSUME Init PROVE Turns /\ Rest
<1>1. \A s : Replicas(s) = {}
  BY DEF Init, Replicas
<1>2. \A s \in Service : Sound(s) /\ Imaged(s)
  <2>1. \A s : Gap(s) = {}
    BY <1>1, GapOf
  <2> QED
    BY <1>1, <2>1 DEF Sound, Imaged
<1>3. StartedOver
  BY <1>2 DEF Init, StartedOver
<1> QED
  BY <1>3, Restarts

-----------------------------------------------------------------------------
(***************************************************************************)
(* What operations in order leave behind.                                  *)
(***************************************************************************)

\* In order, no name is taken and no container vanishes.
LEMMA NoSurprise ==
  ASSUME InOrder, IInv, Turns, Rest, NEW p \in Proc, NameConflict(p) \/ StartVanished(p)
  PROVE  FALSE
<1>1. PICK l : l = loc[p]
  OBVIOUS
<1>2. pc[p] \in {"deploy", "startnew"} /\ Mover(p)
  BY DEF NameConflict, StartVanished, Mover, Moving, Working
<1>3. /\ Knows(l) /\ cont \subseteq Container /\ Sound(l.s) /\ Doing(l, pc[p]) /\ l.s \in Service
  BY <1>1, <1>2, AloneAtWork DEF Knows
<1>4. CASE NameConflict(p)
  BY <1>1, <1>3, <1>4 DEF NameConflict, Doing
<1>5. CASE StartVanished(p)
  <2>1. pc[p] = "startnew" /\ \A c \in cont, k \in Down(l) : ~ Is(c, p, k)
    BY <1>1, <1>5 DEF StartVanished
  <2>2. PICK k \in l.seen : Down(l) = {k}
    BY <1>3, <2>1 DEF Doing
  <2>3. l.seen = Listing(l.s) \/ Rolled(l)
    BY <1>3, <2>1 DEF Doing, Mirrors, Rolls
  <2>4. \E c \in cont : c.s = l.s /\ c.i = k.i /\ c.id = k.id
    BY <1>3, <2>2, <2>3 DEF Listing, Rolled, Replicas
  <2> QED
    BY <1>1, <2>1, <2>2, <2>4 DEF Is
<1> QED
  BY <1>4, <1>5

\* Turns and Rest are inductive, given IInv.
LEMMA NextRest ==
  ASSUME InOrder, IInv, IInv', Turns, Rest, [Next]_vars PROVE Turns' /\ Rest'
<1>1. CASE UNCHANGED vars
  <2>1. Turns'
    BY <1>1 DEF vars, Turns, Booting
  <2>2. \A t \in Service : Untouched(t)
    BY <1>1 DEF vars, Untouched, Replicas
  <2>3. \A q \in Proc : Mover(q) => loc[q].s \in Service
    BY MoverKnows
  <2>4. \A q \in Proc : /\ Mover(q)' <=> Mover(q)
                        /\ pc'[q] = pc[q] /\ loc'[q] = loc[q]
    BY <1>1 DEF vars, Mover
  <2> QED
    BY <2>1, <2>2, <2>3, <2>4, StillRest
<1>2. ASSUME NEW p \in Proc, Call(p) PROVE Turns' /\ Rest'
  BY <1>2, NoSurprise, WorkTurns, SyncTurns, WriteRest, ListRest, StartRest, KillRest,
     DeployRest, StartNewRest, TrimRest, DropRest, SyncRest DEF Call
<1>3. ASSUME NEW p \in Proc, SyncRead(p) PROVE Turns' /\ Rest'
  BY <1>3, SyncTurns, SyncRest
<1>4. ASSUME NEW p \in Proc, Fault(p) \/ Exit PROVE FALSE
  BY <1>4 DEF Fault, Exit, InOrder
<1>5. CASE Background
  <2>1. ~ Tick /\ ~ Sample /\ ~ Gone
    BY ConstantsAssumption DEF Tick, Sample, Gone, InOrder, Turns
  <2> QED
    BY <1>5, <2>1, BootRest DEF Background
<1>6. Main \in Proc
  BY ConstantsAssumption
<1> QED
  BY <1>1, <1>2, <1>3, <1>4, <1>5, <1>6, RequestsRest, CrashRest DEF Next

\* They hold always.
LEMMA AlwaysRest == ASSUME InOrder PROVE Spec => [](IInv /\ Turns /\ Rest)
<1>1. Init => Turns /\ Rest
  BY InitRest
<1>2. IInv /\ IInv' /\ Turns /\ Rest /\ [Next]_vars => Turns' /\ Rest'
  BY NextRest
<1> QED
  BY <1>1, <1>2, InductiveInvariant, PTL DEF Spec

\* When nothing runs every service is as its row says.
LEMMA QuietGood ==
  ASSUME IInv, Turns, Rest, Quiet, NEW s \in Service PROVE Good(s) /\ Imaged(s)
<1>1. \A p \in Proc : ~ Mover(p)
  BY DEF Quiet, Mover, Moving, Working
<1>2. \A p \in Proc : loc[p].todo = {}
  <2>1. \A p \in Proc : loc[p].op = "none"
    BY DEF Quiet, IInv, AllFit, Fits, Resting
  <2> QED
    BY <2>1 DEF Turns
<1> QED
  BY <1>1, <1>2 DEF Rest

\* Without failing calls a container always belongs to a service the store knows,
\* in the middle of an operation, and after a crash there, too (service.go: Create
\* inserts the row first, Delete removes it last).
THEOREM ContainersOwned == ASSUME InOrder PROVE Spec => []Owned
<1>1. IInv /\ Turns /\ Rest => Owned
  <2> SUFFICES ASSUME IInv, Rest, NEW c \in cont PROVE rows[c.s] # Nil
    BY DEF Owned
  <2>1. c.s \in Service /\ c \in Replicas(c.s)
    BY ContType DEF Container, Replicas
  <2> QED
    BY <2>1 DEF Rest, Sound
<1> QED
  BY <1>1, AlwaysRest, PTL

\* Operations in order leave every service with the wanted replicas, each of them
\* running, and so does SyncAll after a crash in the middle of any of them
\* (service.go: reconcile; main.go: SyncAll before the server serves).
THEOREM OperationsConverge == ASSUME InOrder PROVE Spec => []Converged
<1>1. IInv /\ Turns /\ Rest => Converged
  BY QuietGood DEF Converged, Good
<1> QED
  BY <1>1, AlwaysRest, PTL

\* When no server crashes they run the image of the row as well, whatever Updates and
\* Redeploys contended for Manager.mu (service.go: Manager.mu keeps two rollouts from
\* interleaving; after a crash SyncAll keeps the replicas it finds, old image or not).
THEOREM RolloutsComplete == ASSUME InOrder, MaxCrashes = 0 PROVE Spec => []RolledOut
<1>1. IInv /\ Turns /\ Rest => RolledOut
  <2> SUFFICES ASSUME IInv, Turns, Rest, Quiet, NEW s \in Service
               PROVE  /\ {c.i : c \in Replicas(s)} = Wanted(s)
                      /\ \A c \in Replicas(s) : c.up /\ c.image = rows[s].cfg.image
    BY DEF RolledOut
  <2>1. Good(s) /\ Imaged(s)
    BY QuietGood
  <2> QED
    BY <2>1 DEF Good, Imaged
<1> QED
  BY <1>1, AlwaysRest, PTL

\* At any time of a rollout, a scaling or the SyncAll after a crash, at most one of the
\* replicas a service keeps is down (service.go: "one at a time (rolling)").  Delete,
\* which removes the replicas in any order, is not among the operations.
THEOREM RolloutsOneDown == ASSUME InOrder, "delete" \notin Ops PROVE Spec => []AtMostOneDown
<1>1. IInv /\ Turns /\ Rest => AtMostOneDown
  <2> SUFFICES ASSUME Rest, NEW s \in Service PROVE Cardinality(Gap(s)) <= 1
    BY DEF AtMostOneDown, Gap
  <2>1. \A i, j \in Gap(s) : i = j
    BY DEF Rest, Sound
  <2>2. CASE Gap(s) = {}
    BY <2>2, FS_EmptySet
  <2>3. ASSUME NEW i \in Gap(s) PROVE Cardinality(Gap(s)) <= 1
    <3>1. Gap(s) = {i}
      BY <2>1, <2>3
    <3> QED
      BY <3>1, FS_Singleton
  <2> QED
    BY <2>2, <2>3
<1> QED
  BY <1>1, AlwaysRest, PTL
=============================================================================
