---------------------------- MODULE QuotasProofs ----------------------------
(***************************************************************************)
(* Proofs about Quotas, for any goroutines, any finite set of services,    *)
(* any limits, quota and requests, whatever fails or crashes.              *)
(*                                                                         *)
(* ServicesFit is not inductive: what Update or Scale is about to write    *)
(* has to fit as well, and the autoscaler's new count only fits while the  *)
(* row still has the bounds that it read (Allowed).                        *)
(*                                                                         *)
(* Nor is WithinQuota: it says nothing while a service is being checked or *)
(* changed.  Orderly says it: then one goroutine at a time works.  Amid a  *)
(* check, what it has inspected and what it has still to inspect add up to *)
(* what is in use; amid a change, the other services have the replicas of  *)
(* their rows and leave room for the new row, and the replicas of the one  *)
(* that changes are those its locals say (Mid).  The sums are the lemmas   *)
(* of Sums.                                                                *)
(***************************************************************************)
EXTENDS Quotas, Sums, TLAPS

\* What the locals of a goroutine hold at the call it makes next.
Work(l, at) ==
  /\ at # "idle" => l.s \in Service
  /\ at \notin {"idle", "lock"} => l.row \in Row
  /\ at \in {"scan", "inspect", "save"} => l.op \in {"create", "update"} /\ l.row \in Normal
  /\ at \in {"scan", "inspect", "lock", "save"} => l.left = {}
  /\ at = "scan" => l.used = 0
  /\ at = "inspect" => l.scan \subseteq Counted(l) \X Index
  /\ at = "lock" => l.op \in {"update", "redeploy"} /\ (l.op = "update" => l.row \in Normal)
  /\ at = "kill" => l.op \in {"update", "redeploy"}
  /\ at = "list" => l.op \in {"create", "boot", "scale", "autoscale"}
  /\ at \in {"deploy", "trim"} =>
       l.op \in {"create", "boot", "scale", "autoscale", "update", "redeploy"}
  /\ at \in {"erase", "drop"} => l.op = "delete"
  /\ at = "set" => l.op \in {"scale", "autoscale"}
  /\ at \in {"sample", "get"} => l.op = "autoscale"
  /\ at \in {"kill", "deploy"} => l.todo # {} /\ l.todo \subseteq 0..(l.row.n - 1)
  /\ at = "trim" => l.todo = {}
  /\ at \in {"kill", "deploy", "trim"} => \A i \in l.left : i >= l.row.n

AtWork == \A p \in Actor : Work(loc[p], pc[p])

-----------------------------------------------------------------------------
(***************************************************************************)
(* Types.                                                                  *)
(***************************************************************************)

\* The least of a set of indices.
LEMMA MinIs ==
  ASSUME NEW S \in SUBSET Index, S # {}
  PROVE  Min(S) \in S /\ \A i \in S : Min(S) <= i
<1>1. \E i \in S : \A j \in S : i <= j
  <2> DEFINE R == OpToRel(<, Nat)
  <2>1. S \subseteq Nat
    BY ConstantsAssumption DEF Index
  <2>2. \E i \in S : \A j \in S : ~ (<<j, i>> \in R)
    <3> HIDE DEF R
    <3>1. IsWellFoundedOn(R, Nat)
      BY NatLessThanWellFounded DEF R
    <3> QED
      BY <2>1, <3>1, WFMin
  <2>3. \A i, j \in Nat : <<j, i>> \notin R => i <= j
    BY DEF OpToRel
  <2> QED
    BY <2>1, <2>2, <2>3
<1> QED
  BY <1>1 DEF Min

\* The constants, one by one.
LEMMA Limits ==
  /\ \A c \in Cpu : c \in Nat /\ c > 0
  /\ \A c \in Cpu \cup {0} : c \in Nat
  /\ MaxReplicas \in Nat /\ Quota \in Nat
<1>1. Cpu \subseteq Nat \ {0}
  BY ConstantsAssumption
<1> QED
  BY <1>1, ConstantsAssumption

LEMMA Indices ==
  /\ \A n \in 0..MaxReplicas : 0..(n - 1) \in SUBSET Index
  /\ Main \in Actor
  /\ \A p \in Actor : p # Nil
BY ConstantsAssumption DEF Index, Actor

\* A goroutine at rest.
LEMMA NoLocalIs ==
  /\ NoLocal \in Locals
  /\ Work(NoLocal, "idle")
BY SMT DEF NoLocal, Locals, Ops, Work

\* A goroutine begins an operation on s with the row it read or was sent.
Beginning(op, s, row, asked) ==
  [NoLocal EXCEPT !.op = op, !.s = s, !.row = row, !.asked = asked]

\* A step that moves p to call `at` with locals l, and leaves the others where they
\* are but for what they know of the row and have still to inspect.
Moves(p, l, at) ==
  /\ pc' = [pc EXCEPT ![p] = at]
  /\ loc' \in [Actor -> Locals]
  /\ loc'[p] = l
  /\ \A q \in Actor \ {p} : \E late, gone \in BOOLEAN, scan \in SUBSET loc[q].scan :
       loc'[q] = [loc[q] EXCEPT !.late = late, !.gone = gone, !.scan = scan]

\* Step moves only p,
LEMMA StepMoves ==
  ASSUME TypeOK, NEW p \in Actor, NEW l \in Locals, NEW at, Step(p, l, at)
  PROVE  Moves(p, l, at)
<1>1. loc' = [loc EXCEPT ![p] = l] /\ pc' = [pc EXCEPT ![p] = at]
  BY DEF Step
<1>2. loc' \in [Actor -> Locals] /\ loc'[p] = l
  BY <1>1 DEF TypeOK
<1>3. ASSUME NEW q \in Actor \ {p}
      PROVE  \E late, gone \in BOOLEAN, scan \in SUBSET loc[q].scan :
               loc'[q] = [loc[q] EXCEPT !.late = late, !.gone = gone, !.scan = scan]
  <2>1. loc'[q] = loc[q] /\ loc[q] \in Locals
    BY <1>1 DEF TypeOK
  <2>2. /\ loc[q].late \in BOOLEAN /\ loc[q].gone \in BOOLEAN
        /\ loc[q].scan \in SUBSET loc[q].scan
        /\ loc[q] = [loc[q] EXCEPT !.late = loc[q].late, !.gone = loc[q].gone,
                                   !.scan = loc[q].scan]
    BY <2>1 DEF Locals
  <2> QED
    BY <2>1, <2>2
<1> QED
  BY <1>1, <1>2, <1>3 DEF Moves

\* and StepWritten too, but for what the others know of the row.
LEMMA WrittenMoves ==
  ASSUME TypeOK, NEW p \in Actor, NEW l \in Locals, NEW at, NEW s, NEW g \in BOOLEAN,
         StepWritten(p, l, at, s, g)
  PROVE  Moves(p, l, at)
<1>1. /\ pc' = [pc EXCEPT ![p] = at]
      /\ loc' = [q \in Actor |->
           IF q = p THEN l
           ELSE IF loc[q].s = s
           THEN [loc[q] EXCEPT !.late = TRUE, !.gone = @ \/ g] ELSE loc[q]]
  BY DEF StepWritten
<1>2. ASSUME NEW q \in Actor \ {p}
      PROVE  /\ \E late, gone \in BOOLEAN, scan \in SUBSET loc[q].scan :
                  loc'[q] = [loc[q] EXCEPT !.late = late, !.gone = gone, !.scan = scan]
             /\ loc'[q] \in Locals
  <2>1. loc[q] \in Locals
    BY DEF TypeOK
  <2>2. /\ loc[q].late \in BOOLEAN /\ loc[q].gone \in BOOLEAN /\ (loc[q].gone \/ g) \in BOOLEAN
        /\ loc[q].scan \in SUBSET loc[q].scan
    BY <2>1 DEF Locals
  <2>3. \/ loc'[q] = [loc[q] EXCEPT !.late = loc[q].late, !.gone = loc[q].gone,
                                    !.scan = loc[q].scan]
        \/ loc'[q] = [loc[q] EXCEPT !.late = TRUE, !.gone = loc[q].gone \/ g,
                                    !.scan = loc[q].scan]
    BY <1>1, <2>1 DEF Locals
  <2>4. \E late, gone \in BOOLEAN, scan \in SUBSET loc[q].scan :
          loc'[q] = [loc[q] EXCEPT !.late = late, !.gone = gone, !.scan = scan]
    BY <2>2, <2>3
  <2>5. loc'[q] \in Locals
    BY <2>1, <2>2, <2>3 DEF Locals
  <2> QED
    BY <2>4, <2>5
<1>3. loc' \in [Actor -> Locals] /\ loc'[p] = l
  BY <1>1, <1>2
<1> QED
  BY <1>1, <1>2, <1>3 DEF Moves

\* and StepRemoved, but for what they have still to inspect.
LEMMA RemovedMoves ==
  ASSUME TypeOK, NEW p \in Actor, NEW l \in Locals, NEW at, NEW removed,
         StepRemoved(p, l, at, removed)
  PROVE  Moves(p, l, at)
<1>1. /\ pc' = [pc EXCEPT ![p] = at]
      /\ loc' = [q \in Actor |->
           IF q = p THEN l ELSE [loc[q] EXCEPT !.scan = @ \ removed]]
  BY DEF StepRemoved
<1>2. ASSUME NEW q \in Actor \ {p}
      PROVE  /\ \E late, gone \in BOOLEAN, scan \in SUBSET loc[q].scan :
                  loc'[q] = [loc[q] EXCEPT !.late = late, !.gone = gone, !.scan = scan]
             /\ loc'[q] \in Locals
  <2>1. loc[q] \in Locals
    BY DEF TypeOK
  <2>2. /\ loc[q].late \in BOOLEAN /\ loc[q].gone \in BOOLEAN
        /\ loc[q].scan \ removed \in SUBSET loc[q].scan
    BY <2>1 DEF Locals
  <2>3. loc'[q] = [loc[q] EXCEPT !.late = loc[q].late, !.gone = loc[q].gone,
                                 !.scan = loc[q].scan \ removed]
    BY <1>1, <2>1 DEF Locals
  <2>4. loc'[q] \in Locals
    BY <2>1, <2>2, <2>3 DEF Locals
  <2> QED
    BY <2>2, <2>3, <2>4
<1>3. loc' \in [Actor -> Locals] /\ loc'[p] = l
  BY <1>1, <1>2
<1> QED
  BY <1>1, <1>2, <1>3 DEF Moves

\* A move to a call with locals that fit it.
LEMMA MovesKeeps ==
  ASSUME TypeOK, AtWork, NEW p \in Actor, NEW l \in Locals, NEW at \in Calls,
         Moves(p, l, at), Work(l, at)
  PROVE  pc' \in [Actor -> Calls] /\ loc' \in [Actor -> Locals] /\ AtWork'
<1>1. pc' \in [Actor -> Calls] /\ loc' \in [Actor -> Locals]
  BY DEF Moves, TypeOK
<1>2. ASSUME NEW q \in Actor PROVE Work(loc'[q], pc'[q])
  <2>1. CASE q = p
    BY <2>1 DEF Moves, TypeOK
  <2>2. CASE q # p
    <3>1. pc'[q] = pc[q]
      BY <2>2 DEF Moves, TypeOK
    <3>2. PICK late, gone \in BOOLEAN, scan \in SUBSET loc[q].scan :
            loc'[q] = [loc[q] EXCEPT !.late = late, !.gone = gone, !.scan = scan]
      BY <2>2 DEF Moves
    <3>3. /\ loc'[q].s = loc[q].s /\ loc'[q].row = loc[q].row /\ loc'[q].op = loc[q].op
          /\ loc'[q].todo = loc[q].todo /\ loc'[q].left = loc[q].left
          /\ loc'[q].used = loc[q].used /\ loc'[q].scan \subseteq loc[q].scan
      BY <3>2 DEF TypeOK, Locals
    <3>4. Work(loc[q], pc[q])
      BY DEF AtWork
    <3>5. Counted(loc'[q]) = Counted(loc[q])
      BY <3>3 DEF Counted
    <3> QED
      BY <3>1, <3>3, <3>4, <3>5 DEF Work
  <2> QED
    BY <2>1, <2>2
<1> QED
  BY <1>1, <1>2 DEF AtWork

\* An answer ends the operation.
LEMMA AnswerKeeps ==
  ASSUME TypeOK, AtWork, NEW p \in Actor, Answer(p)
  PROVE  /\ Moves(p, NoLocal, "idle")
         /\ pc' \in [Actor -> Calls] /\ loc' \in [Actor -> Locals] /\ AtWork'
         /\ mu' \in Actor \cup {Nil}
<1>1. Moves(p, NoLocal, "idle")
  BY NoLocalIs, StepMoves DEF Answer
<1>2. "idle" \in Calls
  BY DEF Calls
<1>3. mu' \in Actor \cup {Nil}
  BY DEF Answer, Unlock, TypeOK
<1> QED
  BY <1>1, <1>2, <1>3, NoLocalIs, MovesKeeps

LEMMA LoosenType == ASSUME TypeOK, NEW c, Loosen(c) PROVE loose' \in BOOLEAN
BY DEF Loosen

LEMMA TypeInit == Init => TypeOK /\ AtWork
<1> SUFFICES ASSUME Init PROVE TypeOK /\ AtWork
  OBVIOUS
<1>1. TypeOK
  <2>1. /\ rows \in [Service -> Row \cup {Nil}]
        /\ reps \in [Service -> [Index -> Cpu \cup {0}]]
        /\ mu \in Actor \cup {Nil} /\ pc \in [Actor -> Calls]
    BY DEF Init, Calls
  <2>2. /\ loc \in [Actor -> Locals]
        /\ boot \in SUBSET Service /\ checked \in SUBSET Service /\ loose \in BOOLEAN
    BY NoLocalIs DEF Init
  <2>3. ops \in 0..MaxOps /\ crashes \in 0..MaxCrashes
    BY ConstantsAssumption DEF Init
  <2> QED
    BY <2>1, <2>2, <2>3 DEF TypeOK
<1>2. AtWork
  BY NoLocalIs DEF Init, AtWork
<1> QED
  BY <1>1, <1>2

\* What a goroutine knows while it works on a service.
LEMMA Knows ==
  ASSUME TypeOK, AtWork, NEW p \in Actor, pc[p] # "idle"
  PROVE  /\ loc[p] \in Locals /\ loc[p].s \in Service
         /\ pc[p] # "lock" => loc[p].row \in Row
         /\ rows[loc[p].s] \in Row \cup {Nil}
         /\ Present(loc[p].s) \in SUBSET Index
         /\ Work(loc[p], pc[p])
BY DEF TypeOK, AtWork, Work, Present

LEMMA BeginKeeps ==
  ASSUME TypeOK, AtWork, NEW p \in Actor, NEW op \in Ops, NEW s \in Service,
         NEW row \in Row \cup {Nil}, NEW asked \in BOOLEAN, NEW at \in Calls,
         Begin(p, op, s, row, asked, at),
         \/ op = "create" /\ at = "scan" /\ row \in Normal
         \/ op = "update" /\ at \in {"scan", "lock"} /\ row \in Normal
         \/ op = "scale" /\ at = "set" /\ row \in Row
         \/ op = "redeploy" /\ at = "lock"
         \/ op = "delete" /\ at = "erase" /\ row \in Row
         \/ op = "autoscale" /\ at = "sample" /\ row \in Row
  PROVE  TypeOK' /\ AtWork'
<1>1. PICK l : l = Beginning(op, s, row, asked)
  OBVIOUS
<1>2. /\ l \in Locals
      /\ l.op = op /\ l.s = s /\ l.row = row
      /\ l.todo = {} /\ l.left = {} /\ l.used = 0
  BY <1>1, NoLocalIs DEF Beginning, NoLocal, Locals
<1>3. Step(p, l, at)
  BY <1>1 DEF Begin, Beginning
<1>4. /\ UNCHANGED <<rows, reps, mu, boot, checked, crashes>>
      /\ Loosen(FALSE)
  BY DEF Begin
<1>5. ops' \in 0..MaxOps
  BY ConstantsAssumption DEF Begin, TypeOK
<1>6. Work(l, at)
  BY <1>2 DEF Work, Normal
<1>7. pc' \in [Actor -> Calls] /\ loc' \in [Actor -> Locals] /\ AtWork'
  BY <1>2, <1>3, <1>6, StepMoves, MovesKeeps
<1>8. loose' \in BOOLEAN
  BY <1>4, LoosenType
<1> QED
  BY <1>4, <1>5, <1>7, <1>8 DEF TypeOK

LEMMA RequestKeeps ==
  ASSUME TypeOK, AtWork, NEW p \in Proc, NEW s \in Service, Request(p, s)
  PROVE  TypeOK' /\ AtWork'
<1>0. p \in Actor /\ Requests \subseteq Normal /\ Normal \subseteq Row
  BY ConstantsAssumption DEF Actor, Normal
<1>c. Ops = {"none", "create", "update", "redeploy", "scale", "delete", "autoscale", "boot"}
  BY DEF Ops
<1>a. Calls = {"idle", "scan", "inspect", "lock", "save", "set", "list", "kill",
               "deploy", "trim", "erase", "drop", "sample", "get"}
  BY DEF Calls
<1>1. CASE \E row \in Requests : Create(p, s, row)
  <2>1. PICK row \in Requests : Create(p, s, row)
    BY <1>1
  <2>2. row \in Row /\ row \in Normal
    BY <1>0
  <2> QED
    BY <1>0, <1>a, <1>c, <2>1, <2>2, BeginKeeps DEF Create
<1>2. CASE \E row \in Requests, asked \in BOOLEAN : Update(p, s, row, asked)
  <2>1. PICK row \in Requests, asked \in BOOLEAN : Update(p, s, row, asked)
    BY <1>2
  <2>2. row \in Row /\ row \in Normal
    BY <1>0
  <2> QED
    BY <1>0, <1>a, <1>c, <2>1, <2>2, BeginKeeps DEF Update
<1>3. CASE \E n \in -1..MaxReplicas : Scale(p, s, n)
  <2>1. PICK n \in -1..MaxReplicas : Scale(p, s, n)
    BY <1>3
  <2> DEFINE row == [rows[s] EXCEPT !.n = Count(n)]
  <2>2. rows[s] \in Row /\ Count(n) \in 0..MaxReplicas
    BY <2>1, ConstantsAssumption DEF Scale, Count, TypeOK
  <2>3. row \in Row
    BY <2>2 DEF Row
  <2>4. Begin(p, "scale", s, row, FALSE, "set")
    BY <2>1 DEF Scale
  <2> HIDE DEF row
  <2> QED
    BY <1>0, <1>a, <1>c, <2>3, <2>4, BeginKeeps
<1>4. CASE Redeploy(p, s)
  <2> QED
    BY <1>0, <1>a, <1>c, <1>4, BeginKeeps DEF Redeploy
<1>5. CASE Delete(p, s)
  <2>1. rows[s] \in Row
    BY <1>5 DEF Delete, TypeOK
  <2> QED
    BY <1>0, <1>a, <1>c, <1>5, <2>1, BeginKeeps DEF Delete
<1> QED
  BY <1>1, <1>2, <1>3, <1>4, <1>5 DEF Request

\* What a list holds are replicas of the services that count.
LEMMA CountedIs ==
  ASSUME NEW l
  PROVE  Counted(l) \in SUBSET Service /\ (l.op = "update" => Counted(l) = Service \ {l.s})
         /\ (l.op # "update" => Counted(l) = Service)
BY DEF Counted

LEMMA ScanKeeps == ASSUME TypeOK, AtWork, NEW p \in Actor, Scan(p) PROVE TypeOK' /\ AtWork'
<1>1. PICK l : l = loc[p]
  OBVIOUS
<1>2. PICK scan : scan = {c \in Counted(l) \X Index : c[2] \in Present(c[1])}
  OBVIOUS
<1>3. PICK m : m = [l EXCEPT !.scan = scan]
  OBVIOUS
<1>4. /\ UNCHANGED <<rows, reps, mu, boot, checked, ops, crashes>>
      /\ loose' \in BOOLEAN /\ pc[p] = "scan" /\ Step(p, m, "inspect")
  BY <1>1, <1>2, <1>3, LoosenType DEF Scan
<1>5. l \in Locals /\ Work(l, "scan")
  BY <1>1, <1>4, Knows
<1>6. scan \subseteq Counted(l) \X Index /\ scan \in SUBSET (Service \X Index)
  BY <1>2, CountedIs
<1>7. /\ m \in Locals /\ m.s = l.s /\ m.op = l.op /\ m.row = l.row /\ m.left = l.left
      /\ m.scan = scan
  BY <1>3, <1>5, <1>6 DEF Locals
<1>8. Counted(m) = Counted(l)
  BY <1>7 DEF Counted
<1>9. Work(m, "inspect") /\ "inspect" \in Calls
  BY <1>5, <1>6, <1>7, <1>8 DEF Work, Calls
<1>10. pc' \in [Actor -> Calls] /\ loc' \in [Actor -> Locals] /\ AtWork'
  BY <1>4, <1>7, <1>9, StepMoves, MovesKeeps
<1> QED
  BY <1>4, <1>10 DEF TypeOK

\* p inspects the container c, found or not, and goes on with the locals m.
Inspects(p, c, found, m) ==
  /\ c[1] \in Counted(loc[p]) /\ c[1] \in Service /\ c[2] \in Index /\ c = <<c[1], c[2]>>
  /\ reps[c[1]][c[2]] \in Nat
  /\ m \in Locals /\ m.s = loc[p].s /\ m.op = loc[p].op /\ m.row = loc[p].row
  /\ m.left = loc[p].left /\ m.scan = loc[p].scan \ {c}
  /\ m.used = (IF found THEN loc[p].used + reps[c[1]][c[2]] ELSE loc[p].used)
  /\ m.asked = loc[p].asked /\ m.gone = loc[p].gone
  /\ Counted(m) = Counted(loc[p])
  /\ Work(m, "inspect") /\ Step(p, m, "inspect") /\ Loosen(~ found)

LEMMA Inspecting ==
  ASSUME TypeOK, AtWork, NEW p \in Actor, Inspect(p)
  PROVE  \E c \in loc[p].scan, found \in BOOLEAN, m \in Locals : Inspects(p, c, found, m)
<1>1. PICK l : l = loc[p]
  OBVIOUS
<1>2. /\ l \in Locals /\ l.scan \subseteq Counted(l) \X Index /\ pc[p] = "inspect"
      /\ Work(l, "inspect") /\ Counted(l) \in SUBSET Service
  BY <1>1, Knows, CountedIs DEF Inspect, Work
<1>3. PICK c \in l.scan, found \in BOOLEAN :
        /\ Step(p, [l EXCEPT !.scan = @ \ {c},
                             !.used = IF found THEN @ + reps[c[1]][c[2]] ELSE @], "inspect")
        /\ Loosen(~ found)
  BY <1>1 DEF Inspect
<1>4. PICK m : m = [l EXCEPT !.scan = @ \ {c},
                             !.used = IF found THEN @ + reps[c[1]][c[2]] ELSE @]
  OBVIOUS
<1>5. /\ c[1] \in Counted(l) /\ c[2] \in Index /\ c[1] \in Service /\ c = <<c[1], c[2]>>
  BY <1>2, <1>3
<1>6. reps[c[1]][c[2]] \in Nat
  <2>1. reps[c[1]][c[2]] \in Cpu \cup {0}
    BY <1>5 DEF TypeOK
  <2> QED
    BY <2>1, Limits
<1>7. /\ m \in Locals /\ m.s = l.s /\ m.op = l.op /\ m.row = l.row /\ m.left = l.left
      /\ m.scan = l.scan \ {c} /\ m.asked = l.asked /\ m.gone = l.gone
      /\ m.used = (IF found THEN l.used + reps[c[1]][c[2]] ELSE l.used)
  <2>1. PICK u : u = IF found THEN l.used + reps[c[1]][c[2]] ELSE l.used
    OBVIOUS
  <2>2. u \in Nat /\ l.scan \ {c} \in SUBSET (Service \X Index)
    BY <1>2, <1>6, <2>1 DEF Locals
  <2>3. m = [l EXCEPT !.scan = l.scan \ {c}, !.used = u]
    BY <1>2, <1>4, <2>1 DEF Locals
  <2> QED
    BY <1>2, <2>1, <2>2, <2>3 DEF Locals
<1>8. Counted(m) = Counted(l)
  BY <1>7 DEF Counted
<1>9. Work(m, "inspect")
  BY <1>2, <1>7, <1>8 DEF Work
<1>10. Step(p, m, "inspect")
  BY <1>3, <1>4
<1> QED
  BY <1>1, <1>3, <1>5, <1>6, <1>7, <1>8, <1>9, <1>10 DEF Inspects

LEMMA InspectKeeps ==
  ASSUME TypeOK, AtWork, NEW p \in Actor, Inspect(p)
  PROVE  TypeOK' /\ AtWork'
<1>1. UNCHANGED <<rows, reps, mu, boot, checked, ops, crashes>> /\ loose' \in BOOLEAN
  BY LoosenType DEF Inspect
<1>2. PICK m \in Locals : Work(m, "inspect") /\ Step(p, m, "inspect")
  BY Inspecting DEF Inspects
<1>3. "inspect" \in Calls
  BY DEF Calls
<1>4. pc' \in [Actor -> Calls] /\ loc' \in [Actor -> Locals] /\ AtWork'
  BY <1>2, <1>3, StepMoves, MovesKeeps
<1> QED
  BY <1>1, <1>4 DEF TypeOK

LEMMA DecideKeeps == ASSUME TypeOK, AtWork, NEW p \in Actor, Decide(p) PROVE TypeOK' /\ AtWork'
<1>1. /\ UNCHANGED <<rows, reps, boot, checked, ops, crashes>>
      /\ loose' \in BOOLEAN /\ pc[p] = "inspect"
  BY LoosenType DEF Decide
<1>2. CASE Answer(p)
  BY <1>1, <1>2, AnswerKeeps DEF TypeOK
<1>3. CASE ~ Answer(p)
  <2>1. PICK at : at = IF loc[p].op = "create" THEN "save" ELSE "lock"
    OBVIOUS
  <2>2. PICK m : m = [loc[p] EXCEPT !.used = 0]
    OBVIOUS
  <2>3. Step(p, m, at) /\ UNCHANGED mu
    BY <1>3, <2>1, <2>2 DEF Decide
  <2>4. loc[p] \in Locals /\ Work(loc[p], "inspect")
    BY <1>1, Knows
  <2>5. /\ m \in Locals /\ m.s = loc[p].s /\ m.op = loc[p].op /\ m.row = loc[p].row
        /\ m.left = loc[p].left
    BY <2>2, <2>4 DEF Locals
  <2>6. at \in Calls /\ Work(m, at)
    BY <2>1, <2>4, <2>5 DEF Calls, Work
  <2>7. pc' \in [Actor -> Calls] /\ loc' \in [Actor -> Locals] /\ AtWork'
    BY <2>3, <2>5, <2>6, StepMoves, MovesKeeps
  <2> QED
    BY <1>1, <2>3, <2>7 DEF TypeOK
<1> QED
  BY <1>2, <1>3

LEMMA LockKeeps == ASSUME TypeOK, AtWork, NEW p \in Actor, Lock(p) PROVE TypeOK' /\ AtWork'
<1> DEFINE row == rows[loc[p].s]
           l == [loc[p] EXCEPT !.gone = FALSE, !.late = FALSE]
           m == [l EXCEPT !.row = row, !.todo = 0..(row.n - 1)]
<1>1. /\ UNCHANGED <<rows, reps, boot, checked, ops, crashes>>
      /\ loose' \in BOOLEAN /\ pc[p] = "lock"
  BY LoosenType DEF Lock
<1>2. CASE Answer(p)
  BY <1>1, <1>2, AnswerKeeps DEF TypeOK
<1>3. CASE ~ Answer(p)
  <2>1. /\ row # Nil /\ mu' = p
        /\ IF l.op = "update" THEN Step(p, l, "save")
           ELSE Step(p, m, IF row.n > 0 THEN "kill" ELSE "trim")
    BY <1>3 DEF Lock
  <2>2. /\ l \in Locals /\ l.op = loc[p].op /\ l.s = loc[p].s /\ l.row = loc[p].row
        /\ l.left = loc[p].left /\ loc[p].s \in Service
        /\ loc[p].op \in {"update", "redeploy"} /\ (loc[p].op = "update" => loc[p].row \in Normal)
    BY <1>1, Knows DEF Locals, Work
  <2>3. row \in Row /\ 0..(row.n - 1) \in SUBSET Index /\ row.n \in 0..MaxReplicas
    BY <2>1, <2>2, Indices DEF TypeOK, Row
  <2> HIDE DEF row, l
  <2>4. CASE l.op = "update"
    <3>1. Work(l, "save") /\ "save" \in Calls
      BY <1>1, <2>2, <2>4, Knows DEF Work, Calls, Normal
    <3>2. pc' \in [Actor -> Calls] /\ loc' \in [Actor -> Locals] /\ AtWork'
      BY <2>1, <2>2, <2>4, <3>1, StepMoves, MovesKeeps
    <3> QED
      BY <1>1, <2>1, <3>2 DEF TypeOK
  <2>5. CASE l.op # "update"
    <3> DEFINE at == IF row.n > 0 THEN "kill" ELSE "trim"
    <3>1. m \in Locals
      BY <2>2, <2>3 DEF Locals
    <3>2. /\ m.op = "redeploy" /\ m.s \in Service /\ m.row = row
          /\ m.todo = 0..(row.n - 1) /\ m.left = loc[p].left
      BY <2>2, <2>5 DEF Locals
    <3>3. loc[p].left = {}
      BY <1>1, Knows DEF Work
    <3>4. Work(m, at) /\ at \in Calls
      <4> HIDE DEF m
      <4>1. IF row.n > 0 THEN 0 \in 0..(row.n - 1) ELSE 0..(row.n - 1) = {}
        BY <2>3, ConstantsAssumption
      <4> QED
        BY <2>3, <3>2, <3>3, <4>1 DEF Work, Calls
    <3> HIDE DEF m, at
    <3>5. pc' \in [Actor -> Calls] /\ loc' \in [Actor -> Locals] /\ AtWork'
      BY <2>1, <2>5, <3>1, <3>4, StepMoves, MovesKeeps DEF m, at
    <3> QED
      BY <1>1, <2>1, <3>5 DEF TypeOK
  <2> QED
    BY <2>4, <2>5
<1> QED
  BY <1>2, <1>3

LEMMA SaveKeeps == ASSUME TypeOK, AtWork, NEW p \in Actor, Save(p) PROVE TypeOK' /\ AtWork'
<1> DEFINE l == loc[p]
           m == [l EXCEPT !.todo = 0..(l.row.n - 1)]
<1>1. /\ UNCHANGED <<reps, boot, ops, crashes>>
      /\ loose' \in BOOLEAN /\ pc[p] = "save"
  BY LoosenType DEF Save
<1>2. /\ l \in Locals /\ l.s \in Service /\ l.op \in {"create", "update"}
      /\ l.row \in Row /\ l.row.n \in 1..MaxReplicas /\ l.left = {}
      /\ 0..(l.row.n - 1) \in SUBSET Index
  BY <1>1, Knows, Indices, ConstantsAssumption DEF Work, Normal, Row
<1>3. /\ m \in Locals /\ m.s = l.s /\ m.op = l.op /\ m.row = l.row /\ m.left = l.left
      /\ m.todo = 0..(l.row.n - 1)
  BY <1>2 DEF Locals
<1>4. "list" \in Calls /\ "kill" \in Calls
  BY DEF Calls
<1>5. l.op = "create" => Work(l, "list")
  BY <1>2 DEF Work
<1>6. l.op = "update" => Work(m, "kill")
  <2> HIDE DEF l, m
  <2>1. l.row.n \in Nat /\ l.row.n > 0
    BY <1>2
  <2>2. m.todo # {}
    BY <1>3, <2>1
  <2> QED
    BY <1>2, <1>3, <2>2 DEF Work
<1>7. CASE Answer(p) /\ UNCHANGED <<rows, checked>>
  BY <1>1, <1>7, AnswerKeeps DEF TypeOK
<1>8. CASE ~ (Answer(p) /\ UNCHANGED <<rows, checked>>)
  <2>1. /\ rows' = rows \/ rows' = [rows EXCEPT ![l.s] = l.row]
        /\ checked' \in {checked, checked \cup {l.s}, checked \ {l.s}}
        /\ UNCHANGED mu
        /\ \/ l.op = "create" /\ StepWritten(p, l, "list", l.s, FALSE)
           \/ l.op = "update" /\ StepWritten(p, m, "kill", l.s, FALSE)
           \/ l.op = "update" /\ Step(p, m, "kill")
    BY <1>2, <1>8 DEF Save
  <2> HIDE DEF l, m
  <2>2. \/ l.op = "create" /\ Moves(p, l, "list")
        \/ l.op = "update" /\ Moves(p, m, "kill")
    BY <1>2, <1>3, <2>1, StepMoves, WrittenMoves
  <2>3. pc' \in [Actor -> Calls] /\ loc' \in [Actor -> Locals] /\ AtWork'
    BY <1>2, <1>3, <1>4, <1>5, <1>6, <2>2, MovesKeeps
  <2>4. rows' \in [Service -> Row \cup {Nil}] /\ checked' \in SUBSET Service
    BY <1>2, <2>1 DEF TypeOK
  <2> QED
    BY <1>1, <2>1, <2>3, <2>4 DEF TypeOK
<1> QED
  BY <1>7, <1>8

LEMMA SetKeeps == ASSUME TypeOK, AtWork, NEW p \in Actor, Set(p) PROVE TypeOK' /\ AtWork'
<1> DEFINE l == loc[p]
<1>1. /\ UNCHANGED <<reps, mu, boot, ops, crashes>>
      /\ loose' \in BOOLEAN /\ pc[p] = "set" /\ Step(p, l, "list")
  BY LoosenType DEF Set
<1>2. /\ l \in Locals /\ l.s \in Service /\ l.op \in {"scale", "autoscale"}
      /\ l.row \in Row /\ l.row.n \in 0..MaxReplicas /\ rows[l.s] \in Row \cup {Nil}
  BY <1>1, Knows DEF Work, Row
<1>3. Work(l, "list") /\ "list" \in Calls
  BY <1>2 DEF Work, Calls
<1>4. pc' \in [Actor -> Calls] /\ loc' \in [Actor -> Locals] /\ AtWork'
  BY <1>1, <1>2, <1>3, StepMoves, MovesKeeps
<1>5. rows' \in [Service -> Row \cup {Nil}] /\ checked' \in SUBSET Service
  <2>1. ASSUME rows[l.s] # Nil PROVE [rows[l.s] EXCEPT !.n = l.row.n] \in Row
    BY <1>2, <2>1 DEF Row
  <2>2. \/ UNCHANGED <<rows, checked>>
        \/ /\ rows[l.s] # Nil
           /\ rows' = [rows EXCEPT ![l.s] = [rows[l.s] EXCEPT !.n = l.row.n]]
           /\ checked' \in {checked, checked \ {l.s}}
    BY <1>2 DEF Set, TypeOK
  <2> HIDE DEF l
  <2> QED
    BY <1>2, <2>1, <2>2 DEF TypeOK
<1> QED
  BY <1>1, <1>4, <1>5 DEF TypeOK

LEMMA ListKeeps == ASSUME TypeOK, AtWork, NEW p \in Actor, List(p) PROVE TypeOK' /\ AtWork'
<1> DEFINE l == loc[p]
           todo == {i \in Index \ Present(l.s) : i < l.row.n}
           left == {i \in Present(l.s) : i >= l.row.n}
           m == [l EXCEPT !.todo = todo, !.left = left]
           at == IF todo = {} THEN "trim" ELSE "deploy"
<1>1. /\ UNCHANGED <<rows, reps, mu, boot, checked, ops, crashes>>
      /\ loose' \in BOOLEAN /\ pc[p] = "list" /\ Step(p, m, at)
  BY LoosenType DEF List
<1>2. /\ l \in Locals /\ l.s \in Service /\ l.op \in {"create", "boot", "scale", "autoscale"}
      /\ l.row \in Row /\ l.row.n \in 0..MaxReplicas
      /\ todo \in SUBSET Index /\ left \in SUBSET Index
  BY <1>1, Knows DEF Work, Row
<1>3. /\ m \in Locals /\ m.s = l.s /\ m.op = l.op /\ m.row = l.row /\ m.left = left
      /\ m.todo = todo
  BY <1>2 DEF Locals
<1>4. todo \subseteq 0..(l.row.n - 1)
  BY <1>2, ConstantsAssumption DEF Index
<1>5. \A i \in left : i >= l.row.n
  OBVIOUS
<1>6. Work(m, at) /\ at \in Calls
  <2> HIDE DEF l, m, todo, left
  <2> QED
    BY <1>2, <1>3, <1>4, <1>5 DEF Work, Calls
<1>7. pc' \in [Actor -> Calls] /\ loc' \in [Actor -> Locals] /\ AtWork'
  <2> HIDE DEF m, at
  <2> QED
    BY <1>1, <1>3, <1>6, StepMoves, MovesKeeps
<1> QED
  BY <1>1, <1>7 DEF TypeOK

LEMMA KillKeeps == ASSUME TypeOK, AtWork, NEW p \in Actor, Kill(p) PROVE TypeOK' /\ AtWork'
<1> DEFINE l == loc[p]
<1>1. /\ UNCHANGED <<rows, mu, boot, checked, ops, crashes>>
      /\ loose' \in BOOLEAN /\ pc[p] = "kill"
      /\ StepRemoved(p, l, "deploy", {<<l.s, Min(l.todo)>>})
      /\ reps' = [reps EXCEPT ![l.s][Min(l.todo)] = 0]
  BY LoosenType DEF Kill
<1>2. l \in Locals /\ l.s \in Service /\ Work(l, "deploy") /\ "deploy" \in Calls
  <2>1. l \in Locals /\ l.s \in Service /\ Work(l, "kill") /\ "deploy" \in Calls
    BY <1>1, Knows DEF Calls
  <2>2. \A i \in l.left : i >= l.row.n
    BY <2>1 DEF Work
  <2> HIDE DEF l
  <2> QED
    BY <2>1, <2>2 DEF Work
<1>3. pc' \in [Actor -> Calls] /\ loc' \in [Actor -> Locals] /\ AtWork'
  BY <1>1, <1>2, RemovedMoves, MovesKeeps
<1>4. reps' \in [Service -> [Index -> Cpu \cup {0}]]
  BY <1>1, <1>2 DEF TypeOK
<1> QED
  BY <1>1, <1>3, <1>4 DEF TypeOK

LEMMA DeployKeeps == ASSUME TypeOK, AtWork, NEW p \in Actor, Deploy(p) PROVE TypeOK' /\ AtWork'
<1> DEFINE l == loc[p]
           i == Min(l.todo)
           rest == l.todo \ {i}
           m == [l EXCEPT !.todo = rest]
           at == IF rest = {} THEN "trim"
                 ELSE IF l.op \in {"update", "redeploy"} THEN "kill" ELSE "deploy"
<1>1. /\ UNCHANGED <<rows, checked, ops, crashes>>
      /\ loose' \in BOOLEAN /\ pc[p] = "deploy"
  BY LoosenType DEF Deploy
<1>2. CASE reps[l.s][i] # 0
  <2>1. Answer(p) /\ boot' \in {{}, boot} /\ UNCHANGED reps
    BY <1>2 DEF Deploy
  <2> QED
    BY <1>1, <2>1, AnswerKeeps DEF TypeOK
<1>3. CASE reps[l.s][i] = 0
  <2>1. /\ reps' = [reps EXCEPT ![l.s][i] = l.row.cpu]
        /\ Step(p, m, at) /\ UNCHANGED <<mu, boot>>
    BY <1>3 DEF Deploy
  <2>2. l \in Locals /\ l.s \in Service /\ Work(l, "deploy") /\ l.row \in Row
    BY <1>1, Knows
  <2>3. rest \in SUBSET Index /\ l.row.cpu \in Cpu
    BY <2>2 DEF Locals, Row
  <2>4. /\ m \in Locals /\ m.s = l.s /\ m.op = l.op /\ m.row = l.row /\ m.left = l.left
        /\ m.todo = rest
    BY <2>2, <2>3 DEF Locals
  <2>5. Work(m, at) /\ at \in Calls
    <3>1. /\ l.todo \subseteq 0..(l.row.n - 1) /\ (\A j \in l.left : j >= l.row.n)
          /\ l.op \in {"create", "boot", "scale", "autoscale", "update", "redeploy"}
      BY <2>2 DEF Work
    <3>2. rest \subseteq 0..(l.row.n - 1)
      BY <3>1
    <3> HIDE DEF l, m, rest
    <3> QED
      BY <2>2, <2>4, <3>1, <3>2 DEF Work, Calls
  <2>6. pc' \in [Actor -> Calls] /\ loc' \in [Actor -> Locals] /\ AtWork'
    <3> HIDE DEF m, at
    <3> QED
      BY <2>1, <2>4, <2>5, StepMoves, MovesKeeps
  <2>7. reps' \in [Service -> [Index -> Cpu \cup {0}]]
    <3> HIDE DEF l, i
    <3> QED
      BY <2>1, <2>2, <2>3 DEF TypeOK
  <2> QED
    BY <1>1, <2>1, <2>6, <2>7 DEF TypeOK
<1> QED
  BY <1>2, <1>3

LEMMA TrimKeeps == ASSUME TypeOK, AtWork, NEW p \in Actor, Trim(p) PROVE TypeOK' /\ AtWork'
<1>1. loc[p].s \in Service
  BY Knows DEF Trim
<1>2. /\ UNCHANGED <<rows, boot, checked, ops, crashes>> /\ Unlock(p) /\ loose' \in BOOLEAN
      /\ \E S : StepRemoved(p, NoLocal, "idle", {loc[p].s} \X S)
      /\ \E S : reps' = [reps EXCEPT ![loc[p].s] =
                           [i \in Index |-> IF i \in S THEN 0 ELSE reps[loc[p].s][i]]]
  BY <1>1, LoosenType DEF Trim, TypeOK
<1>3. reps' \in [Service -> [Index -> Cpu \cup {0}]]
  BY <1>1, <1>2 DEF TypeOK
<1>4. pc' \in [Actor -> Calls] /\ loc' \in [Actor -> Locals] /\ AtWork'
  <2>1. "idle" \in Calls
    BY DEF Calls
  <2> QED
    BY <1>2, <2>1, NoLocalIs, RemovedMoves, MovesKeeps
<1>5. mu' \in Actor \cup {Nil}
  BY <1>2 DEF Unlock, TypeOK
<1> QED
  BY <1>2, <1>3, <1>4, <1>5 DEF TypeOK

LEMMA EraseKeeps == ASSUME TypeOK, AtWork, NEW p \in Actor, Erase(p) PROVE TypeOK' /\ AtWork'
<1> DEFINE l == loc[p]
<1>1. /\ l \in Locals /\ l.s \in Service /\ Work(l, "erase")
  BY Knows DEF Erase
<1>2. /\ UNCHANGED <<rows, mu, boot, checked, ops, crashes>> /\ loose' \in BOOLEAN
      /\ \E removed : StepRemoved(p, l, "drop", removed)
      /\ \E kept : reps' = [reps EXCEPT ![l.s] =
                           [i \in Index |-> IF i \in kept THEN reps[l.s][i] ELSE 0]]
  BY <1>1, LoosenType DEF Erase, TypeOK
<1>3. Work(l, "drop") /\ "drop" \in Calls
  <2> HIDE DEF l
  <2> QED
    BY <1>1 DEF Work, Calls
<1>4. pc' \in [Actor -> Calls] /\ loc' \in [Actor -> Locals] /\ AtWork'
  BY <1>1, <1>2, <1>3, RemovedMoves, MovesKeeps
<1>5. reps' \in [Service -> [Index -> Cpu \cup {0}]]
  BY <1>1, <1>2 DEF TypeOK
<1> QED
  BY <1>2, <1>4, <1>5 DEF TypeOK

LEMMA DropKeeps == ASSUME TypeOK, AtWork, NEW p \in Actor, Drop(p) PROVE TypeOK' /\ AtWork'
<1> DEFINE s == loc[p].s
<1>1. s \in Service
  BY Knows DEF Drop
<1>2. /\ UNCHANGED <<reps, boot, ops, crashes>>
      /\ loose' \in BOOLEAN
      /\ \/ rows' = [rows EXCEPT ![s] = Nil] /\ StepWritten(p, NoLocal, "idle", s, TRUE)
            /\ UNCHANGED mu
         \/ rows' = rows /\ Answer(p)
      /\ checked' \in {checked, checked \ {s}}
  BY LoosenType DEF Drop
<1> HIDE DEF s
<1>3. CASE Answer(p) /\ rows' = rows
  BY <1>2, <1>3, AnswerKeeps DEF TypeOK
<1>4. CASE /\ rows' = [rows EXCEPT ![s] = Nil] /\ StepWritten(p, NoLocal, "idle", s, TRUE)
           /\ UNCHANGED mu
  <2>1. "idle" \in Calls
    BY DEF Calls
  <2>2. pc' \in [Actor -> Calls] /\ loc' \in [Actor -> Locals] /\ AtWork'
    BY <1>4, <2>1, NoLocalIs, WrittenMoves, MovesKeeps
  <2>3. rows' \in [Service -> Row \cup {Nil}]
    BY <1>1, <1>4 DEF TypeOK
  <2> QED
    BY <1>2, <1>4, <2>2, <2>3 DEF TypeOK
<1> QED
  BY <1>2, <1>3, <1>4

LEMMA BootKeeps ==
  ASSUME TypeOK, AtWork, NEW s \in Service, Boot(s)
  PROVE  TypeOK' /\ AtWork'
<1> DEFINE l == [NoLocal EXCEPT !.op = "boot", !.s = s, !.row = rows[s]]
<1>1. /\ UNCHANGED <<rows, reps, mu, checked, ops, crashes>> /\ loose' \in BOOLEAN
      /\ boot' \in SUBSET Service
  BY LoosenType DEF Boot, TypeOK
<1>2. CASE UNCHANGED <<pc, loc>>
  BY <1>1, <1>2 DEF TypeOK, AtWork
<1>3. CASE ~ UNCHANGED <<pc, loc>>
  <2>1. rows[s] \in Row /\ Step(Main, l, "list")
    BY <1>3 DEF Boot, TypeOK
  <2>2. /\ l \in Locals /\ l.op = "boot" /\ l.s = s /\ l.row = rows[s]
    BY <2>1, NoLocalIs DEF NoLocal, Locals, Ops
  <2> HIDE DEF l
  <2>3. Work(l, "list") /\ "list" \in Calls
    BY <2>1, <2>2 DEF Work, Calls
  <2>4. pc' \in [Actor -> Calls] /\ loc' \in [Actor -> Locals] /\ AtWork'
    BY <2>1, <2>2, <2>3, Indices, StepMoves, MovesKeeps
  <2> QED
    BY <1>1, <2>4 DEF TypeOK
<1> QED
  BY <1>2, <1>3

LEMMA TickKeeps ==
  ASSUME TypeOK, AtWork, NEW s \in Service, Tick(s)
  PROVE  TypeOK' /\ AtWork'
<1>1. rows[s] \in Row
  BY DEF Tick, TypeOK
<1>2. "autoscale" \in Ops /\ "sample" \in Calls
  BY DEF Ops, Calls
<1> QED
  BY <1>1, <1>2, Indices, BeginKeeps DEF Tick

LEMMA SampleKeeps == ASSUME TypeOK, AtWork, Sample PROVE TypeOK' /\ AtWork'
<1> DEFINE l == loc[Main]
<1>1. /\ UNCHANGED <<rows, reps, boot, checked, ops, crashes>> /\ loose' \in BOOLEAN
      /\ pc[Main] = "sample"
  BY LoosenType DEF Sample
<1>2. CASE Answer(Main)
  BY <1>1, <1>2, Indices, AnswerKeeps DEF TypeOK
<1>3. CASE ~ Answer(Main)
  <2>0. /\ l \in Locals /\ l.s \in Service /\ l.row \in Row /\ l.op = "autoscale"
        /\ l.row.max \in 1..MaxReplicas
    BY <1>1, Indices, Knows DEF Work, Row
  <2>1. PICK n : /\ \E k \in Int : n = Clamp(k, l.row.max)
                 /\ Step(Main, [l EXCEPT !.row.n = n], "get") /\ UNCHANGED mu
    <3>1. Present(l.s) \in SUBSET Index /\ IsFiniteSet(Index)
      BY ConstantsAssumption, FS_Interval DEF Index, Present
    <3>2. Cardinality(Present(l.s)) \in Nat
      BY <3>1, FS_Subset, FS_CardinalityType
    <3> QED
      BY <1>3, <3>2 DEF Sample
  <2>2. n \in 0..MaxReplicas
    BY <2>0, <2>1, ConstantsAssumption DEF Clamp
  <2> DEFINE m == [l EXCEPT !.row.n = n]
  <2>3. m \in Locals /\ m.s = l.s /\ m.op = l.op /\ m.row \in Row
    <3>1. [l.row EXCEPT !.n = n] \in Row
      BY <2>0, <2>2 DEF Row
    <3> QED
      BY <2>0, <3>1 DEF Locals
  <2>4. Work(m, "get") /\ "get" \in Calls
    <3> HIDE DEF m, l
    <3> QED
      BY <2>0, <2>3 DEF Work, Calls
  <2>5. pc' \in [Actor -> Calls] /\ loc' \in [Actor -> Locals] /\ AtWork'
    <3> HIDE DEF m
    <3> QED
      BY <2>1, <2>3, <2>4, Indices, StepMoves, MovesKeeps DEF m
  <2> QED
    BY <1>1, <2>1, <2>5 DEF TypeOK
<1> QED
  BY <1>2, <1>3

LEMMA GetKeeps == ASSUME TypeOK, AtWork, Get PROVE TypeOK' /\ AtWork'
<1> DEFINE l == loc[Main]
<1>1. /\ UNCHANGED <<rows, reps, boot, checked, ops, crashes>> /\ loose' \in BOOLEAN
      /\ pc[Main] = "get"
  BY LoosenType DEF Get
<1>2. CASE Answer(Main)
  BY <1>1, <1>2, Indices, AnswerKeeps DEF TypeOK
<1>3. CASE ~ Answer(Main)
  <2>0. /\ l \in Locals /\ l.s \in Service /\ l.row \in Row /\ l.op = "autoscale"
        /\ l.row.n \in 0..MaxReplicas
    BY <1>1, Indices, Knows DEF Work, Row
  <2> DEFINE row == [rows[l.s] EXCEPT !.n = l.row.n]
             m == [l EXCEPT !.row = row, !.gone = FALSE]
  <2>1. Step(Main, m, "set") /\ UNCHANGED mu /\ rows[l.s] \in Row
    BY <1>3, <2>0 DEF Get, TypeOK
  <2>2. row \in Row
    BY <2>0, <2>1 DEF Row
  <2>3. m \in Locals /\ m.s = l.s /\ m.op = l.op /\ m.row \in Row
    <3> HIDE DEF row
    <3> QED
      BY <2>0, <2>2 DEF Locals
  <2>4. Work(m, "set") /\ "set" \in Calls
    <3> HIDE DEF m, l
    <3> QED
      BY <2>0, <2>3 DEF Work, Calls
  <2>5. pc' \in [Actor -> Calls] /\ loc' \in [Actor -> Locals] /\ AtWork'
    <3> HIDE DEF m
    <3> QED
      BY <2>1, <2>3, <2>4, Indices, StepMoves, MovesKeeps
  <2> QED
    BY <1>1, <2>1, <2>5 DEF TypeOK
<1> QED
  BY <1>2, <1>3

LEMMA FaultKeeps == ASSUME TypeOK, AtWork, NEW p \in Actor, Fault(p) PROVE TypeOK' /\ AtWork'
<1>1. /\ UNCHANGED <<rows, reps, checked, ops, crashes>> /\ loose' \in BOOLEAN
      /\ Answer(p) /\ boot' \in SUBSET Service
  BY LoosenType DEF Fault, TypeOK
<1> QED
  BY <1>1, AnswerKeeps DEF TypeOK

LEMMA CrashKeeps == ASSUME TypeOK, AtWork, Crash PROVE TypeOK' /\ AtWork'
<1>1. /\ UNCHANGED <<rows, reps, checked, ops>> /\ loose' \in BOOLEAN
      /\ crashes' \in 0..MaxCrashes /\ mu' = Nil /\ boot' = Service
      /\ pc' = [p \in Actor |-> "idle"] /\ loc' = [p \in Actor |-> NoLocal]
  <2>1. crashes' \in 0..MaxCrashes
    BY ConstantsAssumption DEF Crash, TypeOK
  <2>2. loose' \in BOOLEAN
    BY DEF Crash, Loosen
  <2> QED
    BY <2>1, <2>2 DEF Crash
<1>2. pc' \in [Actor -> Calls] /\ loc' \in [Actor -> Locals] /\ AtWork'
  BY <1>1, NoLocalIs DEF Calls, AtWork
<1> QED
  BY <1>1, <1>2 DEF TypeOK

\* Every step keeps the types and what the locals hold.
LEMMA TypeStep == TypeOK /\ AtWork /\ [Next]_vars => TypeOK' /\ AtWork'
<1> SUFFICES ASSUME TypeOK, AtWork, [Next]_vars PROVE TypeOK' /\ AtWork'
  OBVIOUS
<1>1. CASE UNCHANGED vars
  BY <1>1 DEF vars, TypeOK, AtWork
<1>2. ASSUME NEW p \in Actor, Call(p) PROVE TypeOK' /\ AtWork'
  BY <1>2, ScanKeeps, InspectKeeps, DecideKeeps, LockKeeps, SaveKeeps, SetKeeps, ListKeeps,
     KillKeeps, DeployKeeps, TrimKeeps, EraseKeeps, DropKeeps, FaultKeeps DEF Call
<1> QED
  BY <1>1, <1>2, RequestKeeps, BootKeeps, TickKeeps, SampleKeeps, GetKeeps, CrashKeeps
     DEF Next

-----------------------------------------------------------------------------
(***************************************************************************)
(* What the checks allowed.                                                *)
(***************************************************************************)

\* A service that fits the quota, with the replicas it has and the most it may
\* come to have.
Affordable(r) == r.n * r.cpu <= Quota /\ (r.auto => r.max * r.cpu <= Quota)

CheckedFit == \A s \in checked : rows[s] # Nil => Affordable(rows[s])

\* What is about to be written was checked, if it had to be.
Asked(l, at) == at \in {"lock", "save"} /\ l.asked => Affordable(l.row)

\* Unless the row was written since the autoscaler read it, it has the bounds that
\* the new count was clamped to.
Bounded(rs, l, at) ==
  l.op = "autoscale" /\ at \in {"sample", "get", "set"} /\ ~ l.late =>
    /\ rs[l.s] # Nil
    /\ rs[l.s].auto
    /\ rs[l.s].max = l.row.max
    /\ at # "sample" => l.row.n <= l.row.max

Allowed == \A p \in Actor : Asked(loc[p], pc[p]) /\ Bounded(rows, loc[p], pc[p])

\* Facts of arithmetic that the provers need on their own.
LEMMA Multiply ==
  ASSUME NEW a \in Nat, NEW b \in Nat, NEW c \in Nat, a <= b
  PROVE  a * c <= b * c /\ a * c \in Nat /\ b * c \in Nat /\ (a + 1) * c = a * c + c
OBVIOUS

\* The sums.
LEMMA UsedIs ==
  ASSUME reps \in [Service -> [Index -> Cpu \cup {0}]], NEW S \in SUBSET Service
  PROVE  /\ IsFiniteSet(S) /\ IsFiniteSet(Index)
         /\ \A s \in Service : SumFunction(reps[s]) \in Nat
         /\ Used(S) \in Nat
<1>1. IsFiniteSet(S) /\ IsFiniteSet(Index)
  BY ConstantsAssumption, FS_Subset, FS_Interval DEF Index
<1>2. ASSUME NEW s \in Service PROVE SumFunction(reps[s]) \in Nat
  <2>1. reps[s] \in [Index -> Cpu \cup {0}]
    OBVIOUS
  <2>2. DOMAIN reps[s] = Index /\ \A i \in Index : reps[s][i] \in Nat
    BY <2>1, Limits
  <2> QED
    BY <1>1, <2>2, SumType DEF SumFunction
<1> DEFINE f == [s \in S |-> SumFunction(reps[s])]
<1>3. \A s \in S : f[s] \in Nat
  BY <1>2
<1>4. SumFunctionOnSet(f, S) \in Nat
  <2> HIDE DEF f
  <2> QED
    BY <1>1, <1>3, SumType
<1> QED
  BY <1>1, <1>2, <1>4 DEF Used, SumFunction

\* What the check lets through fits, as it is and at its most.
LEMMA FitsAffordable ==
  ASSUME TypeOK, AtWork, NEW p \in Actor, pc[p] = "inspect", Fits(loc[p])
  PROVE  Affordable(loc[p].row)
<1>1. PICK r : r = loc[p].row
  OBVIOUS
<1>2. PICK used : used = loc[p].used
  OBVIOUS
<1>3. /\ r \in Row /\ r.n <= r.max /\ r.n \in Nat /\ r.max \in Nat /\ r.cpu \in Nat
      /\ r.auto \in BOOLEAN /\ used \in Nat
  <2>1. r \in Normal /\ used \in Nat
    BY <1>1, <1>2, Knows DEF Work, Locals
  <2>2. r \in Row /\ r.n <= r.max
    BY <2>1 DEF Normal, Row
  <2> QED
    BY <2>1, <2>2, Limits DEF Row
<1>4. used + Most(r) * r.cpu <= Quota
  BY <1>1, <1>2 DEF Fits
<1>5. r.n * r.cpu \in Nat /\ r.max * r.cpu \in Nat /\ r.n * r.cpu <= r.max * r.cpu
  BY <1>3, Multiply
<1>6. Quota \in Nat
  BY ConstantsAssumption
<1>7. Most(r) * r.cpu = IF r.auto THEN r.max * r.cpu ELSE r.n * r.cpu
  BY DEF Most
<1>8. CASE r.auto
  BY <1>1, <1>3, <1>4, <1>5, <1>6, <1>7, <1>8 DEF Affordable
<1>9. CASE ~ r.auto
  BY <1>1, <1>3, <1>4, <1>5, <1>6, <1>7, <1>9 DEF Affordable
<1> QED
  BY <1>3, <1>8, <1>9

\* A step that leaves the rows alone.
LEMMA StepAllowed ==
  ASSUME TypeOK, CheckedFit, Allowed, UNCHANGED <<rows, checked>>,
         NEW p \in Actor, NEW l, NEW at, Step(p, l, at),
         Asked(l, at), Bounded(rows, l, at)
  PROVE  CheckedFit' /\ Allowed'
<1>1. CheckedFit'
  BY DEF CheckedFit
<1>2. ASSUME NEW q \in Actor PROVE Asked(loc'[q], pc'[q]) /\ Bounded(rows', loc'[q], pc'[q])
  <2>1. CASE q = p
    <3>1. loc'[q] = l /\ pc'[q] = at
      BY <2>1 DEF Step, TypeOK
    <3> QED
      BY <3>1 DEF Bounded
  <2>2. CASE q # p
    <3>1. loc'[q] = loc[q] /\ pc'[q] = pc[q]
      BY <2>2 DEF Step, TypeOK
    <3> QED
      BY <3>1 DEF Bounded, Allowed
  <2> QED
    BY <2>1, <2>2
<1> QED
  BY <1>1, <1>2 DEF Allowed

\* One that also shortens the lists of others.
LEMMA RemovedAllowed ==
  ASSUME TypeOK, CheckedFit, Allowed, UNCHANGED <<rows, checked>>,
         NEW p \in Actor, NEW l, NEW at, NEW removed, StepRemoved(p, l, at, removed),
         at \in {"idle", "deploy", "drop"}
  PROVE  CheckedFit' /\ Allowed'
<1>1. CheckedFit'
  BY DEF CheckedFit
<1>2. ASSUME NEW q \in Actor PROVE Asked(loc'[q], pc'[q]) /\ Bounded(rows', loc'[q], pc'[q])
  <2>1. CASE q = p
    <3>1. pc'[q] = at
      BY <2>1 DEF StepRemoved, TypeOK
    <3> QED
      BY <3>1 DEF Asked, Bounded
  <2>2. CASE q # p
    <3>1. loc'[q] = [loc[q] EXCEPT !.scan = @ \ removed] /\ pc'[q] = pc[q]
      BY <2>2 DEF StepRemoved, TypeOK
    <3>2. /\ loc'[q].asked = loc[q].asked /\ loc'[q].row = loc[q].row
          /\ loc'[q].op = loc[q].op /\ loc'[q].s = loc[q].s /\ loc'[q].late = loc[q].late
      BY <3>1 DEF TypeOK, Locals
    <3>3. Asked(loc[q], pc[q]) /\ Bounded(rows, loc[q], pc[q])
      BY DEF Allowed
    <3> QED
      BY <3>1, <3>2, <3>3 DEF Asked, Bounded
  <2> QED
    BY <2>1, <2>2
<1> QED
  BY <1>1, <1>2 DEF Allowed

LEMMA AnswerAllowed ==
  ASSUME TypeOK, CheckedFit, Allowed, UNCHANGED <<rows, checked>>, NEW p \in Actor, Answer(p)
  PROVE  CheckedFit' /\ Allowed'
BY StepAllowed DEF Answer, Asked, Bounded

LEMMA BeginAllowed ==
  ASSUME TypeOK, AtWork, CheckedFit, Allowed, NEW p \in Actor, NEW op \in Ops,
         NEW s \in Service, NEW row \in Row \cup {Nil}, NEW asked \in BOOLEAN, NEW at,
         Begin(p, op, s, row, asked, at),
         at \in {"lock", "save"} => ~ asked,
         op = "autoscale" => at = "sample" /\ rows[s] = row /\ row # Nil /\ row.auto
  PROVE  CheckedFit' /\ Allowed'
<1>1. PICK l : l = Beginning(op, s, row, asked)
  OBVIOUS
<1>2. l.op = op /\ l.s = s /\ l.row = row /\ l.asked = asked
  BY <1>1, NoLocalIs DEF Beginning, NoLocal, Locals
<1>3. Step(p, l, at) /\ UNCHANGED <<rows, checked>>
  BY <1>1 DEF Begin, Beginning
<1>4. Asked(l, at) /\ Bounded(rows, l, at)
  BY <1>2 DEF Asked, Bounded
<1> QED
  BY <1>3, <1>4, StepAllowed

LEMMA RequestAllowed ==
  ASSUME TypeOK, AtWork, CheckedFit, Allowed, NEW p \in Proc, NEW s \in Service, Request(p, s)
  PROVE  CheckedFit' /\ Allowed'
<1>1. p \in Actor /\ Requests \subseteq Row
  BY ConstantsAssumption DEF Actor, Normal
<1>2. {"create", "update", "redeploy", "scale", "delete"} \subseteq Ops
  BY DEF Ops
<1>3. ASSUME NEW n \in -1..MaxReplicas, Scale(p, s, n)
      PROVE  [rows[s] EXCEPT !.n = Count(n)] \in Row
  BY <1>3, ConstantsAssumption DEF Scale, Count, TypeOK, Row
<1>4. ASSUME Delete(p, s) PROVE rows[s] \in Row
  BY <1>4 DEF Delete, TypeOK
<1> QED
  BY <1>1, <1>2, <1>3, <1>4, BeginAllowed
     DEF Request, Create, Update, Scale, Redeploy, Delete

\* Only Save, Set and Drop write rows.
LEMMA SaveAllowed ==
  ASSUME TypeOK, AtWork, CheckedFit, Allowed, NEW p \in Actor, Save(p)
  PROVE  CheckedFit' /\ Allowed'
<1> DEFINE l == loc[p]
           m == [l EXCEPT !.todo = 0..(l.row.n - 1)]
<1>1. /\ pc[p] = "save" /\ l \in Locals /\ l.s \in Service /\ l.op \in {"create", "update"}
      /\ l.row \in Row /\ Asked(l, "save")
      /\ m.s = l.s /\ m.op = l.op /\ m.row = l.row
  BY Knows, Indices DEF Save, Work, Locals, Allowed
<1>2. CASE Answer(p) /\ UNCHANGED <<rows, checked>>
  BY <1>2, AnswerAllowed
<1>3. CASE Step(p, m, "kill") /\ UNCHANGED <<rows, checked>>
  <2>1. Asked(m, "kill") /\ Bounded(rows, m, "kill")
    BY DEF Asked, Bounded
  <2> QED
    BY <1>3, <2>1, StepAllowed
<1>4. ASSUME NEW k, NEW at, at \in {"list", "kill"},
             rows' = [rows EXCEPT ![l.s] = l.row],
             checked' = IF l.asked THEN checked \cup {l.s} ELSE checked \ {l.s},
             StepWritten(p, k, at, l.s, FALSE)
      PROVE  CheckedFit' /\ Allowed'
  <2>1. CheckedFit'
    BY <1>1, <1>4 DEF CheckedFit, Asked, TypeOK
  <2>2. ASSUME NEW q \in Actor PROVE Asked(loc'[q], pc'[q]) /\ Bounded(rows', loc'[q], pc'[q])
    <3>1. CASE q = p
      <4>1. pc'[q] = at
        BY <1>4, <3>1 DEF StepWritten, TypeOK
      <4> QED
        BY <1>4, <4>1 DEF Asked, Bounded
    <3>2. CASE q # p
      <4>1. pc'[q] = pc[q]
        BY <1>4, <3>2 DEF StepWritten, TypeOK
      <4>2. loc[q] \in Locals /\ Asked(loc[q], pc[q]) /\ Bounded(rows, loc[q], pc[q])
        BY DEF TypeOK, Allowed
      <4>3. CASE loc[q].s = l.s
        <5>1. loc'[q] = [loc[q] EXCEPT !.late = TRUE, !.gone = @ \/ FALSE]
          BY <1>4, <3>2, <4>3 DEF StepWritten
        <5>2. loc'[q].late = TRUE /\ loc'[q].asked = loc[q].asked /\ loc'[q].row = loc[q].row
          BY <4>2, <5>1 DEF Locals
        <5> QED
          BY <4>1, <4>2, <5>2 DEF Asked, Bounded
      <4>4. CASE loc[q].s # l.s
        <5>1. loc'[q] = loc[q]
          BY <1>4, <3>2, <4>4 DEF StepWritten
        <5>2. rows'[loc[q].s] = rows[loc[q].s]
          BY <1>1, <1>4, <4>4, <4>2 DEF TypeOK
        <5> QED
          BY <4>1, <4>2, <5>1, <5>2 DEF Bounded
      <4> QED
        BY <4>3, <4>4
    <3> QED
      BY <3>1, <3>2
  <2> QED
    BY <2>1, <2>2 DEF Allowed
<1> QED
  BY <1>1, <1>2, <1>3, <1>4 DEF Save

\* The autoscaler writes a count within the bounds it read, over the same bounds.
LEMMA SetAllowed ==
  ASSUME TypeOK, AtWork, CheckedFit, Allowed, NEW p \in Actor, Set(p)
  PROVE  CheckedFit' /\ Allowed'
<1> DEFINE l == loc[p]
<1>1. /\ pc[p] = "set" /\ l \in Locals /\ l.s \in Service /\ l.op \in {"scale", "autoscale"}
      /\ l.row \in Row /\ Bounded(rows, l, "set") /\ Step(p, l, "list")
  BY Knows DEF Set, Work, Allowed
<1>2. CASE UNCHANGED <<rows, checked>>
  <2>1. Asked(l, "list") /\ Bounded(rows, l, "list")
    BY DEF Asked, Bounded
  <2> QED
    BY <1>1, <1>2, <2>1, StepAllowed
<1>3. ASSUME rows[l.s] # Nil,
             rows' = [rows EXCEPT ![l.s] = [rows[l.s] EXCEPT !.n = l.row.n]],
             checked' = IF l.op = "scale" \/ l.late THEN checked \ {l.s} ELSE checked
      PROVE  CheckedFit' /\ Allowed'
  <2> DEFINE old == rows[l.s]
             new == [old EXCEPT !.n = l.row.n]
  <2>1. /\ old \in Row /\ new.n = l.row.n /\ new.max = old.max /\ new.cpu = old.cpu
        /\ new.auto = old.auto
    BY <1>1, <1>3 DEF TypeOK, Row
  <2>2. /\ rows'[l.s] = new
        /\ \A s \in Service : s # l.s => rows'[s] = rows[s]
    BY <1>1, <1>3 DEF TypeOK
  <2>3. CheckedFit'
    <3>1. ASSUME NEW s \in checked', rows'[s] # Nil PROVE Affordable(rows'[s])
      <4>1. CASE s # l.s
        BY <1>3, <2>2, <3>1, <4>1 DEF CheckedFit, TypeOK
      <4>2. CASE s = l.s
        <5>1. l.op = "autoscale" /\ ~ l.late /\ s \in checked
          BY <1>1, <1>3, <3>1, <4>2
        <5>2. /\ old.auto /\ l.row.n <= old.max /\ Affordable(old)
          BY <1>1, <1>3, <4>2, <5>1 DEF Bounded, CheckedFit
        <5>3. l.row.n \in Nat /\ old.max \in Nat /\ old.cpu \in Nat /\ Quota \in Nat
          BY <1>1, <2>1, Limits DEF Row
        <5> HIDE DEF old, l, new
        <5>4. l.row.n * old.cpu <= old.max * old.cpu /\ l.row.n * old.cpu \in Nat
              /\ old.max * old.cpu \in Nat
          BY <5>2, <5>3, Multiply
        <5>5. l.row.n * old.cpu <= Quota /\ old.max * old.cpu <= Quota
          BY <5>2, <5>3, <5>4 DEF Affordable
        <5> QED
          BY <2>1, <2>2, <4>2, <5>5 DEF Affordable
      <4> QED
        BY <4>1, <4>2
    <3> QED
      BY <3>1 DEF CheckedFit
  <2>4. ASSUME NEW q \in Actor
        PROVE  Asked(loc'[q], pc'[q]) /\ Bounded(rows', loc'[q], pc'[q])
    <3>1. CASE q = p
      BY <1>1, <3>1 DEF Step, TypeOK, Asked, Bounded
    <3>2. CASE q # p
      <4>1. /\ loc'[q] = loc[q] /\ pc'[q] = pc[q]
            /\ Asked(loc[q], pc[q]) /\ Bounded(rows, loc[q], pc[q])
            /\ pc[q] # "idle" => loc[q].s \in Service
        BY <1>1, <3>2, Knows DEF Step, TypeOK, Allowed
      <4>2. ASSUME loc[q].s \in Service
            PROVE  /\ rows[loc[q].s] # Nil => rows'[loc[q].s] # Nil
                   /\ rows'[loc[q].s].auto = rows[loc[q].s].auto
                   /\ rows'[loc[q].s].max = rows[loc[q].s].max
        <5>1. CASE loc[q].s = l.s
          <6>1. new # Nil
            <7>1. new \in Row
              BY <1>1, <2>1 DEF Row
            <7> QED
              BY <7>1, ConstantsAssumption
          <6> QED
            BY <2>1, <2>2, <5>1, <6>1
        <5>2. CASE loc[q].s # l.s
          BY <2>2, <4>2, <5>2
        <5> QED
          BY <5>1, <5>2
      <4> QED
        BY <4>1, <4>2 DEF Bounded
    <3> QED
      BY <3>1, <3>2
  <2> QED
    BY <2>3, <2>4 DEF Allowed
<1> QED
  BY <1>2, <1>3 DEF Set

\* Without its row a service is not said to be checked.
LEMMA DropAllowed ==
  ASSUME TypeOK, AtWork, CheckedFit, Allowed, NEW p \in Actor, Drop(p)
  PROVE  CheckedFit' /\ Allowed'
<1> DEFINE s == loc[p].s
<1>1. s \in Service
  BY Knows DEF Drop
<1>2. CASE UNCHANGED rows /\ Answer(p)
  <2>1. UNCHANGED checked
    BY <1>2 DEF Drop
  <2> QED
    BY <1>2, <2>1, AnswerAllowed
<1>3. CASE rows' = [rows EXCEPT ![s] = Nil] /\ StepWritten(p, NoLocal, "idle", s, TRUE)
  <2>1. CheckedFit'
    <3>1. checked' \in {checked, checked \ {s}}
      BY DEF Drop
    <3>2. rows'[s] = Nil /\ \A t \in Service : t # s => rows'[t] = rows[t]
      BY <1>1, <1>3 DEF TypeOK
    <3> HIDE DEF s
    <3> QED
      BY <3>1, <3>2 DEF CheckedFit, TypeOK
  <2>2. ASSUME NEW q \in Actor
        PROVE  Asked(loc'[q], pc'[q]) /\ Bounded(rows', loc'[q], pc'[q])
    <3>1. CASE q = p
      BY <1>3, <3>1 DEF StepWritten, TypeOK, Asked, Bounded
    <3>2. CASE q # p
      <4>1. pc'[q] = pc[q]
        BY <1>3, <3>2 DEF StepWritten, TypeOK
      <4>2. loc[q] \in Locals /\ Asked(loc[q], pc[q]) /\ Bounded(rows, loc[q], pc[q])
        BY DEF TypeOK, Allowed
      <4>3. CASE loc[q].s = s
        <5>1. loc'[q] = [loc[q] EXCEPT !.late = TRUE, !.gone = @ \/ TRUE]
          BY <1>3, <3>2, <4>3 DEF StepWritten
        <5>2. loc'[q].late = TRUE /\ loc'[q].asked = loc[q].asked /\ loc'[q].row = loc[q].row
          BY <4>2, <5>1 DEF Locals
        <5> QED
          BY <4>1, <4>2, <5>2 DEF Asked, Bounded
      <4>4. CASE loc[q].s # s
        <5>1. loc'[q] = loc[q]
          BY <1>3, <3>2, <4>4 DEF StepWritten
        <5>2. pc[q] # "idle" => rows'[loc[q].s] = rows[loc[q].s]
          BY <1>1, <1>3, <4>4, Knows DEF TypeOK
        <5> QED
          BY <4>1, <4>2, <5>1, <5>2 DEF Bounded
      <4> QED
        BY <4>3, <4>4
    <3> QED
      BY <3>1, <3>2
  <2> QED
    BY <2>1, <2>2 DEF Allowed
<1> QED
  BY <1>2, <1>3 DEF Drop

LEMMA ScanAllowed ==
  ASSUME TypeOK, AtWork, CheckedFit, Allowed, NEW p \in Actor, Scan(p) \/ Inspect(p)
  PROVE  CheckedFit' /\ Allowed'
<1>1. UNCHANGED <<rows, checked>> /\ \E l : Step(p, l, "inspect")
  BY DEF Scan, Inspect
<1>2. \A l : Asked(l, "inspect") /\ Bounded(rows, l, "inspect")
  BY DEF Asked, Bounded
<1> QED
  BY <1>1, <1>2, StepAllowed

LEMMA DecideAllowed ==
  ASSUME TypeOK, AtWork, CheckedFit, Allowed, NEW p \in Actor, Decide(p)
  PROVE  CheckedFit' /\ Allowed'
<1>1. pc[p] = "inspect" /\ UNCHANGED <<rows, checked>> /\ loc[p] \in Locals
      /\ loc[p].op \in {"create", "update"}
  BY Knows DEF Decide, Work
<1>2. CASE Answer(p)
  BY <1>1, <1>2, AnswerAllowed
<1>3. ASSUME Fits(loc[p]), NEW at \in {"save", "lock"}, NEW m, m = [loc[p] EXCEPT !.used = 0],
             Step(p, m, at)
      PROVE  CheckedFit' /\ Allowed'
  <2>1. m.op = loc[p].op /\ m.row = loc[p].row /\ m.asked = loc[p].asked
    BY <1>1, <1>3 DEF Locals
  <2>2. Asked(m, at) /\ Bounded(rows, m, at)
    BY <1>1, <1>3, <2>1, FitsAffordable DEF Asked, Bounded
  <2> QED
    BY <1>1, <1>3, <2>2, StepAllowed
<1> QED
  BY <1>2, <1>3 DEF Decide

LEMMA LockAllowed ==
  ASSUME TypeOK, AtWork, CheckedFit, Allowed, NEW p \in Actor, Lock(p)
  PROVE  CheckedFit' /\ Allowed'
<1> DEFINE row == rows[loc[p].s]
           l == [loc[p] EXCEPT !.gone = FALSE, !.late = FALSE]
           m == [l EXCEPT !.row = row, !.todo = 0..(row.n - 1)]
<1>1. /\ pc[p] = "lock" /\ UNCHANGED <<rows, checked>> /\ Asked(loc[p], "lock")
      /\ loc[p] \in Locals
  BY Knows DEF Lock, Allowed
<1>2. l.row = loc[p].row /\ l.asked = loc[p].asked
  BY <1>1 DEF Locals
<1>3. Asked(l, "save") /\ Bounded(rows, l, "save")
  BY <1>1, <1>2 DEF Asked, Bounded
<1>4. ASSUME NEW at \in {"kill", "trim"} PROVE Asked(m, at) /\ Bounded(rows, m, at)
  BY <1>4 DEF Asked, Bounded
<1>5. \/ Answer(p) \/ Step(p, l, "save")
      \/ \E at \in {"kill", "trim"} : Step(p, m, at)
  BY DEF Lock
<1> HIDE DEF l, m
<1> QED
  BY <1>1, <1>3, <1>4, <1>5, StepAllowed, AnswerAllowed

\* What is left of the calls neither writes rows nor reads the bounds.
LEMMA PlainAllowed ==
  ASSUME TypeOK, AtWork, CheckedFit, Allowed, NEW p \in Actor,
         List(p) \/ Kill(p) \/ Deploy(p) \/ Trim(p) \/ Erase(p) \/ Fault(p)
  PROVE  CheckedFit' /\ Allowed'
<1>1. UNCHANGED <<rows, checked>>
  BY DEF List, Kill, Deploy, Trim, Erase, Fault
<1>2. \/ Answer(p)
      \/ \E l, at : Step(p, l, at) /\ at \in {"kill", "deploy", "trim"}
      \/ \E l, at, removed : /\ StepRemoved(p, l, at, removed)
                             /\ at \in {"idle", "deploy", "drop"}
  BY DEF List, Kill, Deploy, Trim, Erase, Fault
<1>3. ASSUME NEW l, NEW at, Step(p, l, at), at \in {"kill", "deploy", "trim"}
      PROVE  CheckedFit' /\ Allowed'
  <2>1. Asked(l, at) /\ Bounded(rows, l, at)
    BY <1>3 DEF Asked, Bounded
  <2> QED
    BY <1>1, <1>3, <2>1, StepAllowed
<1> QED
  BY <1>1, <1>2, <1>3, AnswerAllowed, RemovedAllowed

LEMMA BootAllowed ==
  ASSUME TypeOK, AtWork, CheckedFit, Allowed, NEW s \in Service, Boot(s)
  PROVE  CheckedFit' /\ Allowed'
<1> DEFINE l == [NoLocal EXCEPT !.op = "boot", !.s = s, !.row = rows[s]]
<1>1. UNCHANGED <<rows, checked>> /\ (UNCHANGED <<pc, loc>> \/ Step(Main, l, "list"))
  BY DEF Boot
<1>2. CASE UNCHANGED <<pc, loc>>
  BY <1>1, <1>2 DEF CheckedFit, Allowed, Asked, Bounded
<1>3. CASE Step(Main, l, "list")
  <2>1. Asked(l, "list") /\ Bounded(rows, l, "list")
    BY DEF Asked, Bounded
  <2> QED
    BY <1>1, <1>3, <2>1, Indices, StepAllowed
<1> QED
  BY <1>1, <1>2, <1>3

LEMMA TickAllowed ==
  ASSUME TypeOK, AtWork, CheckedFit, Allowed, NEW s \in Service, Tick(s)
  PROVE  CheckedFit' /\ Allowed'
<1>1. rows[s] \in Row /\ rows[s].auto /\ "autoscale" \in Ops
  BY DEF Tick, TypeOK, Ops
<1>2. rows[s] # Nil
  BY DEF Tick
<1> QED
  BY <1>1, <1>2, Indices, BeginAllowed DEF Tick

LEMMA SampleAllowed ==
  ASSUME TypeOK, AtWork, CheckedFit, Allowed, Sample
  PROVE  CheckedFit' /\ Allowed'
<1> DEFINE l == loc[Main]
<1>1. /\ UNCHANGED <<rows, checked>> /\ pc[Main] = "sample" /\ l \in Locals
      /\ l.row \in Row /\ l.op = "autoscale" /\ Bounded(rows, l, "sample")
  BY Indices, Knows DEF Sample, Work, Allowed
<1>2. CASE Answer(Main)
  BY <1>1, <1>2, Indices, AnswerAllowed
<1>3. CASE ~ Answer(Main)
  <2>1. PICK n : /\ \E k \in Int : n = Clamp(k, l.row.max)
                 /\ Step(Main, [l EXCEPT !.row.n = n], "get")
    <3>1. Present(l.s) \in SUBSET Index /\ IsFiniteSet(Index)
      BY ConstantsAssumption, FS_Interval DEF Index, Present
    <3>2. Cardinality(Present(l.s)) \in Nat
      BY <3>1, FS_Subset, FS_CardinalityType
    <3> QED
      BY <1>3, <3>2 DEF Sample
  <2>2. n <= l.row.max
    BY <1>1, <2>1, Limits DEF Clamp, Row
  <2> DEFINE m == [l EXCEPT !.row.n = n]
  <2>3. /\ m.s = l.s /\ m.op = l.op /\ m.row.max = l.row.max /\ m.row.n = n /\ m.late = l.late
    BY <1>1 DEF Locals, Row
  <2>4. Asked(m, "get") /\ Bounded(rows, m, "get")
    <3> HIDE DEF m, l
    <3> QED
      BY <1>1, <2>2, <2>3 DEF Asked, Bounded
  <2> HIDE DEF m
  <2>5. Step(Main, m, "get")
    BY <2>1 DEF m
  <2> QED
    BY <1>1, <2>4, <2>5, Indices, StepAllowed
<1> QED
  BY <1>2, <1>3

LEMMA GetAllowed ==
  ASSUME TypeOK, AtWork, CheckedFit, Allowed, Get
  PROVE  CheckedFit' /\ Allowed'
<1> DEFINE l == loc[Main]
<1>1. /\ UNCHANGED <<rows, checked>> /\ pc[Main] = "get" /\ l \in Locals /\ l.s \in Service
      /\ l.row \in Row /\ l.op = "autoscale" /\ Bounded(rows, l, "get")
  BY Indices, Knows DEF Get, Work, Allowed
<1>2. CASE Answer(Main)
  BY <1>1, <1>2, Indices, AnswerAllowed
<1>3. CASE ~ Answer(Main)
  <2> DEFINE row == [rows[l.s] EXCEPT !.n = l.row.n]
             m == [l EXCEPT !.row = row, !.gone = FALSE]
  <2>1. Step(Main, m, "set") /\ rows[l.s] \in Row
    BY <1>1, <1>3 DEF Get, TypeOK
  <2>2. row.n = l.row.n /\ row.max = rows[l.s].max
    BY <2>1 DEF Row
  <2>3. m.s = l.s /\ m.op = l.op /\ m.row = row /\ m.late = l.late
    BY <1>1 DEF Locals
  <2>4. Asked(m, "set") /\ Bounded(rows, m, "set")
    <3> HIDE DEF m, l, row
    <3> QED
      BY <1>1, <2>2, <2>3 DEF Asked, Bounded
  <2> HIDE DEF m
  <2> QED
    BY <1>1, <2>1, <2>4, Indices, StepAllowed
<1> QED
  BY <1>2, <1>3

\* Every step keeps what the checks allowed.
LEMMA AllowedStep ==
  TypeOK /\ AtWork /\ CheckedFit /\ Allowed /\ [Next]_vars => CheckedFit' /\ Allowed'
<1> SUFFICES ASSUME TypeOK, AtWork, CheckedFit, Allowed, [Next]_vars
             PROVE  CheckedFit' /\ Allowed'
  OBVIOUS
<1>1. CASE UNCHANGED vars
  BY <1>1 DEF vars, CheckedFit, Allowed, Asked, Bounded
<1>2. ASSUME NEW p \in Actor, Call(p) PROVE CheckedFit' /\ Allowed'
  BY <1>2, ScanAllowed, DecideAllowed, LockAllowed, SaveAllowed, SetAllowed, DropAllowed,
     PlainAllowed DEF Call
<1>3. CASE Crash
  BY <1>3 DEF Crash, CheckedFit, Allowed, Asked, Bounded
<1> QED
  BY <1>1, <1>2, <1>3, RequestAllowed, BootAllowed, TickAllowed, SampleAllowed, GetAllowed
     DEF Next

-----------------------------------------------------------------------------
(***************************************************************************)
(* The footprint.                                                          *)
(***************************************************************************)

Holds(r) == [i \in Index |-> IF i < r.n THEN r.cpu ELSE 0]
RowSum(s) == IF rows[s] = Nil THEN 0 ELSE rows[s].n * rows[s].cpu

\* A service with the replicas of its row uses as many times its limit.
LEMMA DeployedSum ==
  ASSUME TypeOK, NEW s \in Service, Deployed(s)
  PROVE  SumFunction(reps[s]) = RowSum(s)
<1>1. reps[s] \in [Index -> Cpu \cup {0}] /\ DOMAIN reps[s] = Index /\ IsFiniteSet(Index)
  BY FS_Interval, ConstantsAssumption DEF TypeOK, Index
<1>2. CASE rows[s] = Nil
  <2>1. \A i \in Index : reps[s][i] = 0
    BY <1>2 DEF Deployed
  <2> QED
    BY <1>1, <1>2, <2>1, SumZeros DEF SumFunction, RowSum
<1>3. CASE rows[s] # Nil
  <2>1. rows[s] \in Row
    BY <1>3 DEF TypeOK
  <2>2. rows[s].n \in 0..MaxReplicas /\ rows[s].cpu \in Nat
    BY <2>1, Limits DEF Row
  <2>3. reps[s] = Holds(rows[s])
    BY <1>1, <1>3 DEF Deployed, Holds
  <2>4. SumFunctionOnSet(Holds(rows[s]), Index) = rows[s].n * rows[s].cpu
    BY <2>2, Limits, SumFirst DEF Holds, Index
  <2> QED
    BY <1>1, <1>3, <2>3, <2>4 DEF SumFunction, RowSum
<1> QED
  BY <1>2, <1>3

\* A service and the others.
LEMMA UsedSplit ==
  ASSUME TypeOK, NEW s \in Service
  PROVE  /\ Used(Service) = SumFunction(reps[s]) + Used(Service \ {s})
         /\ Used(Service) \in Nat /\ Used(Service \ {s}) \in Nat
         /\ SumFunction(reps[s]) \in Nat
<1> DEFINE f == [t \in Service |-> SumFunction(reps[t])]
           g == [t \in Service \ {s} |-> SumFunction(reps[t])]
<1>1. /\ IsFiniteSet(Service) /\ IsFiniteSet(Service \ {s})
      /\ \A t \in Service : SumFunction(reps[t]) \in Nat
      /\ Used(Service) \in Nat /\ Used(Service \ {s}) \in Nat
  BY UsedIs DEF TypeOK
<1>2. /\ Used(Service) = SumFunctionOnSet(f, Service)
      /\ Used(Service \ {s}) = SumFunctionOnSet(g, Service \ {s})
  BY DEF Used, SumFunction
<1>3. /\ \A t \in Service : f[t] \in Nat
      /\ f[s] = SumFunction(reps[s])
      /\ \A t \in Service \ {s} : f[t] = g[t]
  BY <1>1
<1>4. /\ SumFunctionOnSet(f, Service) = f[s] + SumFunctionOnSet(f, Service \ {s})
      /\ SumFunctionOnSet(f, Service \ {s}) = SumFunctionOnSet(g, Service \ {s})
  <2> HIDE DEF f, g
  <2> QED
    BY <1>1, <1>3, SumRemove, SumSame
<1> QED
  BY <1>1, <1>2, <1>3, <1>4

\* A sum over replicas that do not change.
LEMMA UsedSame ==
  ASSUME NEW S \in SUBSET Service, \A t \in S : reps'[t] = reps[t]
  PROVE  Used(S)' = Used(S)
<1>1. [t \in S |-> SumFunction(reps'[t])] = [t \in S |-> SumFunction(reps[t])]
  OBVIOUS
<1> QED
  BY <1>1 DEF Used

-----------------------------------------------------------------------------
(***************************************************************************)
(* One change at a time.                                                   *)
(***************************************************************************)

\* All is as the rows say, and fits.
Calm == (\A s \in Service : Deployed(s)) /\ Used(Service) <= Quota
Others(s) == \A t \in Service \ {s} : Deployed(t)
\* The others leave room for the service that row r describes.
Room(s, r) == Used(Service \ {s}) + r.n * r.cpu <= Quota

\* What a check has listed and not yet inspected, of a service and in all.
Unseen(l, s) == [i \in Index |-> IF <<s, i>> \in l.scan THEN reps[s][i] ELSE 0]
Left(l) == SumFunction([s \in Counted(l) |-> SumFunction(Unseen(l, s))])

\* A check on its way, when nothing overlaps it, has all that is in use between what
\* it inspected and what is left.  A change that a check allowed keeps the others as
\* they are and has room; the replicas it has not yet got to are the ones its locals
\* say.
Mid(p) ==
  LET l == loc[p]
      at == pc[p]
      s == l.s
      n == l.row.n
  IN
  /\ at \in {"scan", "inspect", "lock", "save", "erase"} => Calm
  /\ at = "inspect" => l.used + Left(l) = Used(Counted(l))
  /\ at \in {"lock", "save"} /\ l.asked => Room(s, l.row)
  /\ at \in {"erase", "drop"} \/ (at = "save" /\ l.op = "update") =>
       rows[s] # Nil /\ ~ l.gone
  /\ at \in {"list", "kill", "deploy", "trim"} =>
       Others(s) /\ rows[s] = l.row /\ Room(s, l.row)
  /\ at = "list" =>
       \A i \in Index : reps[s][i] = 0 \/ (i < n /\ reps[s][i] = l.row.cpu)
  /\ at \in {"kill", "deploy", "trim"} =>
       \A i \in Index :
         /\ i < n /\ i \notin l.todo => reps[s][i] = l.row.cpu
         /\ i >= n /\ l.op # "update" => reps[s][i] = 0
  /\ at = "drop" =>
       Others(s) /\ (\A i \in Index : reps[s][i] = 0) /\ Used(Service \ {s}) <= Quota

Fine(p) == IF Working(p) THEN Mid(p) ELSE Calm

\* Without a reason to be loose, one goroutine at a time works.
Orderly == ~ loose =>
  /\ \A p \in Actor : Working(p) => Mid(p) /\ \A q \in Actor : Working(q) => q = p
  /\ (\A p \in Actor : ~ Working(p)) => Calm

LEMMA SettledOrderly == ASSUME Settled' PROVE Orderly'
BY DEF Settled, Orderly, Calm

\* What a step of p has to keep.
LEMMA Orders ==
  ASSUME TypeOK, Orderly, NEW p \in Actor,
         \A q \in Actor \ {p} : pc'[q] = pc[q],
         ~ Working(p) => /\ UNCHANGED <<rows, reps>>
                         /\ \A q \in Actor \ {p} : loc'[q] = loc[q],
         ~ loose' /\ ~ Settled' => ~ loose /\ ~ Overlapping' /\ (Fine(p) => Fine(p)')
  PROVE  Orderly'
<1> SUFFICES ASSUME ~ loose', ~ Settled' PROVE Orderly'
  BY SettledOrderly DEF Orderly
<1>1. ~ loose /\ ~ Overlapping' /\ (Fine(p) => Fine(p)')
  OBVIOUS
<1>2. \A q \in Actor \ {p} : Working(q)' <=> Working(q)
  BY DEF Working
<1>3. CASE \E q \in Actor \ {p} : Working(q)
  <2>1. PICK q \in Actor \ {p} : Working(q)
    BY <1>3
  <2>2. Mid(q) /\ ~ Working(p)
    BY <1>1, <2>1 DEF Orderly
  <2>3. Working(q)' /\ \A r \in Actor : Working(r)' => r = q
    BY <1>1, <1>2, <2>1 DEF Overlapping
  <2>4. UNCHANGED <<rows, reps>> /\ loc'[q] = loc[q] /\ pc'[q] = pc[q]
    BY <2>1, <2>2
  <2>5. Mid(q)'
    BY <2>2, <2>4 DEF Mid, Calm, Others, Room, Deployed, Used, Left, Unseen, Counted
  <2> QED
    BY <2>3, <2>5 DEF Orderly
<1>4. CASE \A q \in Actor \ {p} : ~ Working(q)
  <2>1. Fine(p)
    BY <1>1, <1>4 DEF Orderly, Fine
  <2>2. Fine(p)'
    BY <1>1, <2>1
  <2> QED
    BY <1>2, <1>4, <2>2 DEF Orderly, Fine
<1> QED
  BY <1>3, <1>4

\* A step of p that only moves p.
LEMMA StepOrders ==
  ASSUME TypeOK, Orderly, NEW p \in Actor, NEW l, NEW at, Step(p, l, at),
         ~ Working(p) => UNCHANGED <<rows, reps>>,
         ~ loose' /\ ~ Settled' => ~ loose /\ ~ Overlapping' /\ (Fine(p) => Fine(p)')
  PROVE  Orderly'
<1>1. \A q \in Actor \ {p} : pc'[q] = pc[q] /\ loc'[q] = loc[q]
  BY DEF Step, TypeOK
<1> QED
  BY <1>1, Orders

\* Nothing changes while no one works.
LEMMA CalmSame == ASSUME Calm, UNCHANGED <<rows, reps>> PROVE Calm'
BY DEF Calm, Deployed, Used

\* A goroutine that did not work goes on, and starts to work at most.
LEMMA Starts ==
  ASSUME TypeOK, Orderly, NEW p \in Actor, NEW l, NEW at, Step(p, l, at),
         UNCHANGED <<rows, reps>>, Loosen(FALSE), ~ Working(p),
         at \in {"idle", "sample", "get", "set"}
         \/ (Calm => Mid(p)')
  PROVE  Orderly'
<1>1. pc'[p] = at
  BY DEF Step, TypeOK
<1>2. Calm => Fine(p)'
  BY <1>1, CalmSame DEF Fine, Working, Mid
<1> QED
  BY <1>2, StepOrders DEF Loosen, Fine

\* A row whose replicas are there leaves room for itself.
LEMMA CalmRoom ==
  ASSUME TypeOK, Calm, NEW s \in Service, rows[s] # Nil
  PROVE  Others(s) /\ Room(s, rows[s])
<1>1. SumFunction(reps[s]) = rows[s].n * rows[s].cpu
  BY DeployedSum DEF Calm, RowSum
<1>2. Used(Service) = SumFunction(reps[s]) + Used(Service \ {s})
      /\ Used(Service \ {s}) \in Nat /\ SumFunction(reps[s]) \in Nat
  BY UsedSplit
<1>3. Used(Service \ {s}) + rows[s].n * rows[s].cpu <= Quota
  BY <1>1, <1>2 DEF Calm
<1> QED
  BY <1>3 DEF Calm, Others, Room

\* Back to calm, when the replicas of s are those of its row again.
Back(s) == /\ TypeOK /\ Others(s) /\ Deployed(s)
           /\ rows[s] # Nil => Room(s, rows[s])
           /\ rows[s] = Nil => Used(Service \ {s}) <= Quota

LEMMA BackToCalm == \A s \in Service : Back(s) => Calm
<1> SUFFICES ASSUME NEW s \in Service, Back(s) PROVE Calm
  OBVIOUS
<1>1. SumFunction(reps[s]) = RowSum(s)
  BY DeployedSum DEF Back
<1>2. Used(Service) = SumFunction(reps[s]) + Used(Service \ {s})
      /\ Used(Service \ {s}) \in Nat /\ SumFunction(reps[s]) \in Nat
  BY UsedSplit DEF Back
<1>3. Used(Service) <= Quota
  BY <1>1, <1>2 DEF Back, RowSum, Room
<1> QED
  BY <1>3 DEF Back, Calm, Others

\* The same, after a step.
LEMMA BackNext == (\A s \in Service : Back(s) => Calm)'
BY BackToCalm, PTL

LEMMA BeginOrders ==
  ASSUME TypeOK, AtWork, Orderly, NEW p \in Actor, NEW op \in Ops,
         NEW s \in Service, NEW row \in Row \cup {Nil}, NEW asked \in BOOLEAN, NEW at,
         Begin(p, op, s, row, asked, at),
         \/ at \in {"scan", "sample", "set"}
         \/ at = "lock" /\ ~ asked
         \/ at = "erase" /\ rows[s] # Nil
  PROVE  Orderly'
<1>1. PICK l : l = Beginning(op, s, row, asked)
  OBVIOUS
<1>2. l.op = op /\ l.s = s /\ l.row = row /\ l.asked = asked /\ l.gone = FALSE
  BY <1>1, NoLocalIs DEF Beginning, NoLocal, Locals
<1>3. Step(p, l, at) /\ UNCHANGED <<rows, reps>> /\ Loosen(FALSE) /\ ~ Working(p)
  BY <1>1 DEF Begin, Beginning, Working
<1>4. loc'[p] = l /\ pc'[p] = at
  BY <1>3 DEF Step, TypeOK
<1>5. at \in {"scan", "lock", "erase"} /\ Calm => Mid(p)'
  BY <1>2, <1>3, <1>4, CalmSame DEF Mid
<1> QED
  BY <1>3, <1>5, Starts

LEMMA RequestOrders ==
  ASSUME TypeOK, AtWork, Orderly, NEW p \in Proc, NEW s \in Service, Request(p, s)
  PROVE  Orderly'
<1>1. p \in Actor /\ Requests \subseteq Row
  BY ConstantsAssumption DEF Actor, Normal
<1>2. {"create", "update", "redeploy", "scale", "delete"} \subseteq Ops
  BY DEF Ops
<1>3. ASSUME NEW n \in -1..MaxReplicas, Scale(p, s, n)
      PROVE  [rows[s] EXCEPT !.n = Count(n)] \in Row
  BY <1>3, ConstantsAssumption DEF Scale, Count, TypeOK, Row
<1>4. ASSUME Delete(p, s) PROVE rows[s] \in Row
  BY <1>4 DEF Delete, TypeOK
<1> QED
  BY <1>1, <1>2, <1>3, <1>4, BeginOrders
     DEF Request, Create, Update, Scale, Redeploy, Delete

\* A call of p amid its check or its change.
LEMMA CallOrders ==
  ASSUME TypeOK, Orderly, NEW p \in Actor, Working(p), NEW at,
         pc' = [pc EXCEPT ![p] = at],
         ~ loose' /\ ~ Settled' => ~ loose /\ ~ Overlapping',
         ~ loose' /\ ~ Settled' /\ Mid(p) =>
            IF at = "idle" THEN Calm' ELSE Mid(p)',
         at \in {"idle", "inspect", "lock", "save", "list", "kill", "deploy", "trim", "drop"}
  PROVE  Orderly'
<1>1. \A q \in Actor \ {p} : pc'[q] = pc[q]
  BY DEF TypeOK
<1>2. pc'[p] = at
  BY DEF TypeOK
<1>3. ~ loose' /\ ~ Settled' => (Fine(p) => Fine(p)')
  BY <1>2 DEF Fine, Working
<1> QED
  BY <1>1, <1>3, Orders

\* The same of a step, or of one that writes a row.
LEMMA WorkOrders ==
  ASSUME TypeOK, Orderly, NEW p \in Actor, Working(p), NEW l, NEW at,
         Step(p, l, at) \/ \E s, g : StepWritten(p, l, at, s, g),
         ~ loose' /\ ~ Settled' => ~ loose /\ ~ Overlapping',
         ~ loose' /\ ~ Settled' /\ Mid(p) =>
            IF at = "idle" THEN Calm' ELSE Mid(p)',
         at \in {"idle", "inspect", "lock", "save", "list", "kill", "deploy", "trim", "drop"}
  PROVE  Orderly'
BY CallOrders DEF Step, StepWritten

\* What a check has still to inspect: less by each container,
LEMMA LeftLess ==
  ASSUME TypeOK, NEW l, NEW m, NEW d \in Service, NEW i \in Index,
         d \in Counted(l), <<d, i>> \in l.scan,
         Counted(m) = Counted(l), m.scan = l.scan \ {<<d, i>>}
  PROVE  /\ Left(m) + reps[d][i] = Left(l)
         /\ Left(m) \in Nat /\ reps[d][i] \in Nat
<1> DEFINE C == Counted(l)
           f == [s \in C |-> SumFunction(Unseen(l, s))]
           g == [s \in C |-> SumFunction(Unseen(m, s))]
<1>1. C \in SUBSET Service /\ IsFiniteSet(C) /\ IsFiniteSet(Index)
  <2>1. C \in SUBSET Service
    BY CountedIs
  <2>2. IsFiniteSet(Counted(l)) /\ IsFiniteSet(Index)
    BY <2>1, UsedIs DEF TypeOK
  <2> QED
    BY <2>1, <2>2
<1>2. \A s \in Service, j \in Index : reps[s][j] \in Nat
  <2>1. \A s \in Service, j \in Index : reps[s][j] \in Cpu \cup {0}
    BY DEF TypeOK
  <2> QED
    BY <2>1, Limits
<1>3. \A k, s : DOMAIN Unseen(k, s) = Index
  BY DEF Unseen
<1>4. \A k : \A s \in Service, j \in Index : Unseen(k, s)[j] \in Nat
  BY <1>2 DEF Unseen
<1>5. \A s \in C : f[s] \in Nat /\ g[s] \in Nat
  <2>1. \A k : \A s \in Service : SumFunction(Unseen(k, s)) \in Nat
    BY <1>1, <1>3, <1>4, SumType DEF SumFunction
  <2> QED
    BY <1>1, <2>1
<1>6. /\ \A s \in Service \ {d} : Unseen(l, s) = Unseen(m, s)
      /\ \A j \in Index \ {i} : Unseen(l, d)[j] = Unseen(m, d)[j]
      /\ Unseen(l, d)[i] = reps[d][i] /\ Unseen(m, d)[i] = 0
  BY DEF Unseen
<1>7. SumFunction(Unseen(l, d)) + 0 = SumFunction(Unseen(m, d)) + reps[d][i]
  <2>1. SumFunctionOnSet(Unseen(l, d), Index) + Unseen(m, d)[i]
        = SumFunctionOnSet(Unseen(m, d), Index) + Unseen(l, d)[i]
    BY <1>1, <1>4, <1>6, SumBut
  <2> QED
    BY <1>3, <1>6, <2>1 DEF SumFunction
<1>8. \A s \in C \ {d} : f[s] = g[s]
  BY <1>1, <1>6
<1>9. f[d] = g[d] + reps[d][i]
  <2>1. f[d] = SumFunction(Unseen(l, d)) /\ g[d] = SumFunction(Unseen(m, d))
    OBVIOUS
  <2> HIDE DEF f, g
  <2> QED
    BY <1>5, <1>7, <2>1
<1>10. Left(l) = SumFunctionOnSet(f, C) /\ Left(m) = SumFunctionOnSet(g, C)
  BY DEF Left, SumFunction
<1> HIDE DEF f, g, C
<1>11. d \in C
  BY DEF C
<1>12. SumFunctionOnSet(f, C) + g[d] = SumFunctionOnSet(g, C) + f[d]
  BY <1>1, <1>5, <1>8, <1>11, SumBut
<1>13. SumFunctionOnSet(f, C) \in Nat /\ SumFunctionOnSet(g, C) \in Nat
  BY <1>1, <1>5, SumType
<1>14. f[d] \in Nat /\ g[d] \in Nat /\ reps[d][i] \in Nat
  BY <1>2, <1>5, <1>11
<1> QED
  BY <1>9, <1>10, <1>12, <1>13, <1>14

\* all that is in use when it has just listed,
LEMMA LeftAll ==
  ASSUME TypeOK, NEW l, NEW m, Counted(m) = Counted(l),
         m.scan = {c \in Counted(l) \X Index : c[2] \in Present(c[1])}
  PROVE  Left(m) = Used(Counted(m))
<1>1. Counted(m) \in SUBSET Service
  BY CountedIs
<1>2. ASSUME NEW s \in Counted(m) PROVE Unseen(m, s) = reps[s]
  <2>1. reps[s] \in [Index -> Cpu \cup {0}]
    BY <1>1 DEF TypeOK
  <2>2. \A i \in Index : <<s, i>> \in m.scan <=> reps[s][i] # 0
    BY DEF Present
  <2> QED
    BY <2>1, <2>2 DEF Unseen
<1> QED
  BY <1>2 DEF Left, Used

\* and nothing in the end.
LEMMA LeftNone == ASSUME NEW l, l.scan = {} PROVE Left(l) = 0
<1> DEFINE C == Counted(l)
           f == [s \in C |-> SumFunction(Unseen(l, s))]
<1>1. IsFiniteSet(C) /\ IsFiniteSet(Index)
  <2>1. C \in SUBSET Service
    BY CountedIs
  <2> QED
    BY <2>1, ConstantsAssumption, FS_Subset, FS_Interval DEF Index
<1>2. ASSUME NEW s PROVE SumFunction(Unseen(l, s)) = 0
  <2>1. DOMAIN Unseen(l, s) = Index /\ \A i \in Index : Unseen(l, s)[i] = 0
    BY DEF Unseen
  <2> QED
    BY <1>1, <2>1, SumZeros DEF SumFunction
<1>3. \A s \in C : f[s] = 0
  BY <1>2
<1>4. Left(l) = SumFunctionOnSet(f, C)
  BY DEF Left, SumFunction
<1> HIDE DEF f, C
<1> QED
  BY <1>1, <1>3, <1>4, SumZeros

\* A check that goes on, with all that is in use accounted for.
LEMMA MidInspect ==
  ASSUME NEW p \in Actor, NEW m, loc'[p] = m, pc'[p] = "inspect", UNCHANGED <<rows, reps>>,
         Calm, m.used + Left(m) = Used(Counted(m))
  PROVE  Mid(p)'
<1>1. (loc[p])' = m /\ (pc[p])' = "inspect" /\ Calm'
  BY CalmSame
<1>2. (loc[p].used + Left(loc[p]) = Used(Counted(loc[p])))'
  BY <1>1 DEF Left, Unseen, Used, Counted
<1> QED
  BY <1>1, <1>2 DEF Mid

LEMMA ScanOrders == ASSUME TypeOK, AtWork, Orderly, NEW p \in Actor, Scan(p) PROVE Orderly'
<1>1. PICK l : l = loc[p]
  OBVIOUS
<1>2. PICK scan : scan = {c \in Counted(l) \X Index : c[2] \in Present(c[1])}
  OBVIOUS
<1>3. PICK m : m = [l EXCEPT !.scan = scan]
  OBVIOUS
<1>4. /\ pc[p] = "scan" /\ UNCHANGED <<rows, reps>> /\ Loosen(FALSE) /\ Working(p)
      /\ Step(p, m, "inspect")
  BY <1>1, <1>2, <1>3 DEF Scan, Working
<1>5. l \in Locals /\ l.used = 0
  BY <1>1, <1>4, Knows DEF Work
<1>6. m.used = 0 /\ m.op = l.op /\ m.s = l.s /\ m.scan = scan
  BY <1>3, <1>5 DEF Locals
<1>7. Counted(m) = Counted(l)
  BY <1>6 DEF Counted
<1>8. Left(m) = Used(Counted(m)) /\ Left(m) \in Nat
  <2>1. Left(m) = Used(Counted(m))
    BY <1>2, <1>6, <1>7, LeftAll
  <2>2. Used(Counted(m)) \in Nat
    BY CountedIs, UsedIs DEF TypeOK
  <2> QED
    BY <2>1, <2>2
<1>9. loc'[p] = m /\ pc'[p] = "inspect"
  BY <1>4 DEF Step, TypeOK
<1>10. Mid(p) => Calm
  BY <1>4 DEF Mid
<1>11. m.used + Left(m) = Used(Counted(m))
  BY <1>6, <1>8
<1>12. Mid(p) => Mid(p)'
  BY <1>4, <1>9, <1>10, <1>11, MidInspect
<1>13. ~ loose' /\ ~ Settled' => ~ loose /\ ~ Overlapping'
  BY <1>4 DEF Loosen
<1> QED
  BY <1>4, <1>12, <1>13, WorkOrders

LEMMA InspectOrders ==
  ASSUME TypeOK, AtWork, Orderly, NEW p \in Actor, Inspect(p)
  PROVE  Orderly'
<1>1. PICK l : l = loc[p]
  OBVIOUS
<1>2. PICK c \in l.scan, found \in BOOLEAN, m \in Locals : Inspects(p, c, found, m)
  BY <1>1, Inspecting
<1>3. /\ pc[p] = "inspect" /\ UNCHANGED <<rows, reps>> /\ Loosen(~ found) /\ Working(p)
      /\ Step(p, m, "inspect")
  BY <1>2 DEF Inspect, Inspects, Working
<1>4. loc'[p] = m /\ pc'[p] = "inspect" /\ l \in Locals
  BY <1>1, <1>3 DEF Step, TypeOK
<1>5. Mid(p) => Calm /\ l.used + Left(l) = Used(Counted(l))
  BY <1>1, <1>3 DEF Mid
<1>6. found /\ Mid(p) => m.used + Left(m) = Used(Counted(m))
  <2>1. PICK d, i : d = c[1] /\ i = c[2]
    OBVIOUS
  <2>2. /\ d \in Service /\ i \in Index /\ d \in Counted(l) /\ c = <<d, i>>
        /\ Counted(m) = Counted(l) /\ m.scan = l.scan \ {c}
        /\ found => m.used = l.used + reps[d][i]
    BY <1>1, <1>2, <2>1 DEF Inspects
  <2>3. Left(m) + reps[d][i] = Left(l) /\ Left(m) \in Nat /\ reps[d][i] \in Nat
    BY <2>2, LeftLess
  <2>4. l.used \in Nat
    BY <1>4 DEF Locals
  <2> QED
    BY <1>5, <2>2, <2>3, <2>4
<1>7. found /\ Mid(p) => Mid(p)'
  BY <1>3, <1>4, <1>5, <1>6, MidInspect
<1>8. ~ loose' /\ ~ Settled' => found /\ ~ loose /\ ~ Overlapping'
  BY <1>3 DEF Loosen
<1> QED
  BY <1>3, <1>7, <1>8, WorkOrders

\* What the check lets through has room beside the others.
LEMMA DecideOrders ==
  ASSUME TypeOK, AtWork, Orderly, NEW p \in Actor, Decide(p)
  PROVE  Orderly'
<1>1. PICK l : l = loc[p]
  OBVIOUS
<1>2. PICK m : m = [l EXCEPT !.used = 0]
  OBVIOUS
<1>3. PICK r : r = l.row
  OBVIOUS
<1>4. /\ pc[p] = "inspect" /\ l.scan = {} /\ UNCHANGED <<rows, reps>> /\ Loosen(FALSE)
      /\ Working(p)
      /\ l \in Locals /\ l.s \in Service /\ r \in Normal /\ l.op \in {"create", "update"}
  BY <1>1, <1>3, Knows DEF Decide, Working, Work
<1>5. Mid(p) => Calm /\ l.used + Left(l) = Used(Counted(l))
  BY <1>1, <1>4 DEF Mid
<1>6. Calm => Calm'
  BY <1>4, CalmSame
<1>7. CASE Answer(p)
  BY <1>4, <1>5, <1>6, <1>7, WorkOrders DEF Answer, Loosen
<1>8. ASSUME Fits(l), NEW at, at = IF l.op = "create" THEN "save" ELSE "lock", Step(p, m, at)
      PROVE  Orderly'
  <2>1. /\ loc'[p] = m /\ pc'[p] = at /\ at \in {"save", "lock"}
        /\ m.s = l.s /\ m.row = r /\ m.op = l.op
        /\ at = "save" => m.op # "update"
    BY <1>2, <1>3, <1>4, <1>8 DEF Step, TypeOK, Locals
  <2>2. r.n \in Nat /\ r.max \in Nat /\ r.cpu \in Nat /\ r.n <= r.max
    BY <1>4, Limits DEF Row, Normal
  <2>3. r.n * r.cpu <= r.max * r.cpu /\ r.n * r.cpu \in Nat /\ r.max * r.cpu \in Nat
    BY <2>2, Multiply
  <2>4. Most(r) * r.cpu >= r.n * r.cpu /\ Most(r) * r.cpu \in Nat
    <3>1. Most(r) * r.cpu = IF r.auto THEN r.max * r.cpu ELSE r.n * r.cpu
      BY DEF Most
    <3> QED
      BY <2>3, <3>1
  <2>5. l.used + Most(r) * r.cpu <= Quota
    BY <1>3, <1>8 DEF Fits
  <2>6. l.used \in Nat /\ (Mid(p) => l.used = Used(Counted(l)))
    <3>1. Left(l) = 0
      BY <1>4, LeftNone
    <3>2. l.used \in Nat
      BY <1>4 DEF Locals
    <3> QED
      BY <1>5, <3>1, <3>2
  <2>7. Used(Service \ {l.s}) <= Used(Counted(l)) /\ Used(Service \ {l.s}) \in Nat
    <3>1. /\ Used(Service) \in Nat /\ Used(Service \ {l.s}) \in Nat
          /\ Used(Service) = SumFunction(reps[l.s]) + Used(Service \ {l.s})
          /\ SumFunction(reps[l.s]) \in Nat
      BY <1>4, UsedSplit
    <3>2. Counted(l) = Service \/ Counted(l) = Service \ {l.s}
      BY DEF Counted
    <3> QED
      BY <3>1, <3>2
  <2>8. Mid(p) => Room(l.s, r)
    <3>1. Mid(p) => Used(Service \ {l.s}) <= l.used
      BY <2>6, <2>7
    <3>2. Mid(p) => Used(Service \ {l.s}) + r.n * r.cpu <= Quota
      BY <2>3, <2>4, <2>5, <2>6, <2>7, <3>1, Limits
    <3> QED
      BY <3>2 DEF Room
  <2>9. Mid(p) => Room(l.s, r)'
    BY <1>4, <2>8, UsedSame DEF Room
  <2>10. Mid(p) => Mid(p)'
    BY <1>5, <1>6, <2>1, <2>9 DEF Mid, Room
  <2> QED
    BY <1>4, <2>1, <2>10, <1>8, WorkOrders DEF Loosen
<1> QED
  BY <1>1, <1>2, <1>7, <1>8 DEF Decide

\* Once the row is written.
LEMMA MidNext ==
  ASSUME NEW p \in Actor, NEW l, NEW at \in {"list", "kill", "deploy", "trim"},
         loc'[p] = l, pc'[p] = at,
         Others(l.s)', rows'[l.s] = l.row, Room(l.s, l.row)',
         \A i \in Index :
           IF at = "list" THEN reps'[l.s][i] = 0 \/ (i < l.row.n /\ reps'[l.s][i] = l.row.cpu)
           ELSE /\ i < l.row.n /\ i \notin l.todo => reps'[l.s][i] = l.row.cpu
                /\ i >= l.row.n /\ l.op # "update" => reps'[l.s][i] = 0
  PROVE  Mid(p)'
<1>1. /\ (loc[p])' = l /\ (pc[p])' = at
      /\ Others(loc[p].s)' /\ Room(loc[p].s, loc[p].row)'
  BY DEF Others, Room
<1> QED
  BY <1>1 DEF Mid

\* The others, and the room they leave, do not change with the replicas of s.
LEMMA OthersSame ==
  ASSUME NEW s \in Service, \A t \in Service \ {s} : rows'[t] = rows[t] /\ reps'[t] = reps[t]
  PROVE  /\ Others(s) => Others(s)'
         /\ \A r : Room(s, r) => Room(s, r)'
         /\ Used(Service \ {s})' = Used(Service \ {s})
<1>1. Used(Service \ {s})' = Used(Service \ {s})
  BY UsedSame
<1> QED
  BY <1>1 DEF Others, Deployed, Room

\* Update and Redeploy read the row, under the lock.
LEMMA LockOrders == ASSUME TypeOK, AtWork, Orderly, NEW p \in Actor, Lock(p) PROVE Orderly'
<1>1. PICK o : o = loc[p]
  OBVIOUS
<1>2. PICK row : row = rows[o.s]
  OBVIOUS
<1>3. PICK l : l = [o EXCEPT !.gone = FALSE, !.late = FALSE]
  OBVIOUS
<1>4. PICK m : m = [l EXCEPT !.row = row, !.todo = 0..(row.n - 1)]
  OBVIOUS
<1>5. PICK at : at = IF row.n > 0 THEN "kill" ELSE "trim"
  OBVIOUS
<1>6. /\ pc[p] = "lock" /\ UNCHANGED <<rows, reps>> /\ Loosen(FALSE) /\ Working(p)
      /\ o \in Locals /\ o.s \in Service /\ o.op \in {"update", "redeploy"}
  BY <1>1, Knows DEF Lock, Working, Work
<1>7. ~ loose' /\ ~ Settled' => ~ loose /\ ~ Overlapping'
  BY <1>6 DEF Loosen
<1>8. Mid(p) => Calm /\ (o.asked => Room(o.s, o.row))
  BY <1>1, <1>6 DEF Mid
<1>9. Calm => Calm'
  BY <1>6, CalmSame
<1>10. /\ l.op = o.op /\ l.s = o.s /\ l.row = o.row /\ l.asked = o.asked
       /\ l.gone = FALSE /\ l \in Locals
  BY <1>3, <1>6 DEF Locals
<1>11. \/ Answer(p)
       \/ row # Nil /\ o.op = "update" /\ Step(p, l, "save")
       \/ row # Nil /\ o.op = "redeploy" /\ Step(p, m, at)
  BY <1>1, <1>2, <1>3, <1>4, <1>5, <1>6, <1>10 DEF Lock
<1>12. CASE Answer(p)
  BY <1>6, <1>7, <1>8, <1>9, <1>12, WorkOrders DEF Answer
<1>13. CASE row # Nil /\ o.op = "update" /\ Step(p, l, "save")
  <2>1. loc'[p] = l /\ pc'[p] = "save"
    BY <1>13 DEF Step, TypeOK
  <2>2. o.asked /\ Mid(p) => Room(o.s, o.row)'
    BY <1>6, <1>8, OthersSame
  <2>3. rows'[o.s] # Nil
    BY <1>2, <1>6, <1>13
  <2>4. Mid(p) => Mid(p)'
    BY <1>8, <1>9, <1>10, <2>1, <2>2, <2>3 DEF Mid, Room
  <2> QED
    BY <1>6, <1>7, <1>13, <2>4, WorkOrders
<1>14. CASE row # Nil /\ o.op = "redeploy" /\ Step(p, m, at)
  <2>1. loc'[p] = m /\ pc'[p] = at /\ at \in {"kill", "trim"}
    BY <1>5, <1>14 DEF Step, TypeOK
  <2>2. row \in Row /\ row.n \in 0..MaxReplicas
    BY <1>2, <1>6, <1>14 DEF TypeOK, Row
  <2>3. m.s = o.s /\ m.op = "redeploy" /\ m.row = row /\ m.todo = 0..(row.n - 1)
    BY <1>4, <1>10, <1>14, Indices, <2>2 DEF Locals
  <2>4. Calm => Others(o.s)' /\ Room(o.s, row)'
    BY <1>2, <1>6, <1>14, CalmRoom, OthersSame
  <2>5. Calm => \A i \in Index : i >= row.n => reps'[o.s][i] = 0
    BY <1>2, <1>6, <2>2, <1>14, ConstantsAssumption DEF Calm, Deployed, Index
  <2>6. \A i \in Index : i < row.n => i \in m.todo
    BY <2>2, <2>3, ConstantsAssumption DEF Index
  <2>7. rows'[m.s] = m.row /\ (Calm => Others(m.s)' /\ Room(m.s, m.row)')
    BY <1>2, <1>6, <2>3, <2>4
  <2>8. Calm => \A i \in Index : /\ i < m.row.n /\ i \notin m.todo => reps'[m.s][i] = m.row.cpu
                                 /\ i >= m.row.n => reps'[m.s][i] = 0
    BY <2>3, <2>5, <2>6
  <2>9. Mid(p) => Mid(p)'
    <3> SUFFICES ASSUME Mid(p) PROVE Mid(p)'
      OBVIOUS
    <3>1. Calm /\ at # "list" /\ at \in {"list", "kill", "deploy", "trim"}
      BY <1>8, <2>1
    <3>2. /\ Others(m.s)' /\ Room(m.s, m.row)'
          /\ \A i \in Index : /\ i < m.row.n /\ i \notin m.todo => reps'[m.s][i] = m.row.cpu
                              /\ i >= m.row.n => reps'[m.s][i] = 0
      <4>1. Others(m.s)' /\ Room(m.s, m.row)'
        BY <2>7, <3>1
      <4> QED
        BY <2>8, <3>1, <4>1
    <3> QED
      BY <2>1, <2>7, <3>1, <3>2, MidNext
  <2> QED
    BY <1>6, <1>7, <1>14, <2>1, <2>9, WorkOrders
<1> QED
  BY <1>11, <1>12, <1>13, <1>14

\* The row is written: the others still leave room for it.
LEMMA SaveOrders == ASSUME TypeOK, AtWork, Orderly, NEW p \in Actor, Save(p) PROVE Orderly'
<1>1. PICK l : l = loc[p]
  OBVIOUS
<1>2. PICK m : m = [l EXCEPT !.todo = 0..(l.row.n - 1)]
  OBVIOUS
<1>3. /\ pc[p] = "save" /\ UNCHANGED reps /\ Working(p) /\ Loosen(~ l.asked)
      /\ l \in Locals /\ l.s \in Service /\ l.op \in {"create", "update"}
      /\ l.row \in Row /\ l.row.n \in 0..MaxReplicas
  BY <1>1, Knows DEF Save, Working, Work, Row
<1>4. m.s = l.s /\ m.op = l.op /\ m.row = l.row /\ m.todo = 0..(l.row.n - 1)
  BY <1>2, <1>3, Indices DEF Locals
<1>5. ~ loose' /\ ~ Settled' => ~ loose /\ ~ Overlapping' /\ l.asked
  BY <1>3 DEF Loosen
<1>6. Mid(p) => Calm /\ (l.asked => Room(l.s, l.row))
                /\ (l.op = "update" => rows[l.s] # Nil /\ ~ l.gone)
  BY <1>1, <1>3 DEF Mid
<1>7. CASE Answer(p) /\ UNCHANGED rows
  <2>1. Calm => Calm'
    BY <1>3, <1>7, CalmSame
  <2> QED
    BY <1>3, <1>5, <1>6, <1>7, <2>1, WorkOrders DEF Answer
<1>8. ASSUME l.op = "update", ~ (rows[l.s] # Nil /\ ~ l.gone), Step(p, m, "kill")
      PROVE  Orderly'
  <2>1. ~ Mid(p)
    BY <1>6, <1>8
  <2> QED
    BY <1>3, <1>5, <1>8, <2>1, WorkOrders
<1>9. ASSUME l.op = "create" => rows[l.s] = Nil, rows' = [rows EXCEPT ![l.s] = l.row],
             NEW k, NEW at,
             \/ l.op = "create" /\ k = l /\ at = "list"
             \/ l.op = "update" /\ k = m /\ at = "kill",
             StepWritten(p, k, at, l.s, FALSE)
      PROVE  Orderly'
  <2>1. loc'[p] = k /\ pc'[p] = at
    BY <1>9 DEF StepWritten, TypeOK
  <2>2. k.s = l.s /\ k.op = l.op /\ k.row = l.row
    BY <1>4, <1>9
  <2>3. rows'[l.s] = l.row /\ \A t \in Service \ {l.s} : rows'[t] = rows[t]
    BY <1>3, <1>9 DEF TypeOK
  <2>4. Calm => Others(l.s)
    BY DEF Calm, Others
  <2>5. /\ Calm => Others(l.s)'
        /\ Room(l.s, l.row) => Room(l.s, l.row)'
    BY <1>3, <2>3, <2>4, OthersSame
  <2>6. at = "list" /\ Calm => \A i \in Index : reps'[l.s][i] = 0
    BY <1>3, <1>9 DEF Calm, Deployed
  <2>7. at = "kill" => \A i \in Index : i < l.row.n => i \in k.todo
    BY <1>3, <1>4, <1>9, ConstantsAssumption DEF Index
  <2>8. l.asked /\ Mid(p) => Mid(p)'
    <3>1. at \in {"list", "kill"} /\ (at = "kill" => l.op = "update")
      BY <1>9
    <3> QED
      BY <1>6, <2>1, <2>2, <2>3, <2>5, <2>6, <2>7, <3>1, MidNext
  <2> QED
    BY <1>3, <1>5, <1>9, <2>8, WorkOrders
<1>10. CASE l.op = "create" /\ rows[l.s] = Nil /\ rows' = [rows EXCEPT ![l.s] = l.row]
            /\ StepWritten(p, l, "list", l.s, FALSE)
  BY <1>9, <1>10
<1>11. CASE l.op = "update" /\ rows' = [rows EXCEPT ![l.s] = l.row]
            /\ StepWritten(p, m, "kill", l.s, FALSE)
  BY <1>9, <1>11
<1> QED
  BY <1>1, <1>2, <1>3, <1>7, <1>8, <1>10, <1>11 DEF Save

LEMMA SetOrders == ASSUME TypeOK, AtWork, Orderly, NEW p \in Actor, Set(p) PROVE Orderly'
<1>1. Working(p) /\ Step(p, loc[p], "list") /\ (~ loose' => Settled')
  BY DEF Set, Working, Loosen
<1> QED
  BY <1>1, WorkOrders

LEMMA ListOrders == ASSUME TypeOK, AtWork, Orderly, NEW p \in Actor, List(p) PROVE Orderly'
<1>1. PICK l : l = loc[p]
  OBVIOUS
<1>2. PICK todo : todo = {i \in Index \ Present(l.s) : i < l.row.n}
  OBVIOUS
<1>3. PICK m : m = [l EXCEPT !.todo = todo, !.left = {i \in Present(l.s) : i >= l.row.n}]
  OBVIOUS
<1>4. PICK at : at = IF todo = {} THEN "trim" ELSE "deploy"
  OBVIOUS
<1>5. /\ pc[p] = "list" /\ UNCHANGED <<rows, reps>> /\ Working(p) /\ Loosen(FALSE)
      /\ Step(p, m, at)
  BY <1>1, <1>2, <1>3, <1>4 DEF List, Working
<1>6. /\ l \in Locals /\ l.s \in Service /\ l.row \in Row /\ l.row.n \in Nat
      /\ l.op # "update"
  BY <1>1, <1>5, Knows DEF Work, Row
<1>7. /\ m.s = l.s /\ m.op = l.op /\ m.row = l.row /\ m.todo = todo
      /\ loc'[p] = m /\ pc'[p] = at /\ at \in {"trim", "deploy"}
  BY <1>3, <1>4, <1>5, <1>6 DEF Locals, Step, TypeOK
<1>8. Mid(p) => /\ Others(l.s) /\ rows[l.s] = l.row /\ Room(l.s, l.row)
                /\ \A i \in Index : reps[l.s][i] = 0
                                    \/ (i < l.row.n /\ reps[l.s][i] = l.row.cpu)
  BY <1>1, <1>5 DEF Mid
<1>9. Others(l.s) /\ Room(l.s, l.row) => Others(l.s)' /\ Room(l.s, l.row)'
  BY <1>5, <1>6, OthersSame
<1>10. Mid(p) => \A i \in Index : /\ i < l.row.n /\ i \notin todo => reps[l.s][i] = l.row.cpu
                                  /\ i >= l.row.n => reps[l.s][i] = 0
  BY <1>2, <1>6, <1>8, ConstantsAssumption DEF Present, Index
<1>11. Mid(p) => Mid(p)'
  BY <1>5, <1>7, <1>8, <1>9, <1>10, MidNext
<1> QED
  BY <1>5, <1>7, <1>11, WorkOrders DEF Loosen

LEMMA KillOrders == ASSUME TypeOK, AtWork, Orderly, NEW p \in Actor, Kill(p) PROVE Orderly'
<1>1. PICK l : l = loc[p]
  OBVIOUS
<1>2. PICK k : k = Min(l.todo)
  OBVIOUS
<1>3. /\ pc[p] = "kill" /\ UNCHANGED rows /\ Working(p) /\ Loosen(FALSE)
      /\ StepRemoved(p, l, "deploy", {<<l.s, k>>}) /\ reps' = [reps EXCEPT ![l.s][k] = 0]
  BY <1>1, <1>2 DEF Kill, Working
<1>4. /\ l \in Locals /\ l.s \in Service /\ l.row \in Row
      /\ l.todo # {} /\ l.todo \in SUBSET Index /\ \A i \in l.todo : i < l.row.n
  <2>1. /\ l \in Locals /\ l.s \in Service /\ l.row \in Row
        /\ l.todo # {} /\ l.todo \subseteq 0..(l.row.n - 1)
    BY <1>1, <1>3, Knows DEF Work
  <2>2. l.todo \in SUBSET Index /\ l.row.n \in Nat
    BY <2>1 DEF Locals, Row
  <2> QED
    BY <2>1, <2>2
<1>5. k \in l.todo /\ loc'[p] = l /\ pc'[p] = "deploy"
  BY <1>2, <1>3, <1>4, MinIs DEF StepRemoved, TypeOK
<1>6. /\ \A t \in Service \ {l.s} : reps'[t] = reps[t]
      /\ \A i \in Index : i # k => reps'[l.s][i] = reps[l.s][i]
      /\ k \in Index /\ reps'[l.s][k] = 0
  BY <1>3, <1>4, <1>5 DEF TypeOK
<1>7. Mid(p) => /\ Others(l.s) /\ rows[l.s] = l.row /\ Room(l.s, l.row)
                /\ \A i \in Index :
                     /\ i < l.row.n /\ i \notin l.todo => reps[l.s][i] = l.row.cpu
                     /\ i >= l.row.n /\ l.op # "update" => reps[l.s][i] = 0
  BY <1>1, <1>3 DEF Mid
<1>8. Others(l.s) /\ Room(l.s, l.row) => Others(l.s)' /\ Room(l.s, l.row)'
  BY <1>3, <1>4, <1>6, OthersSame
<1>9. Mid(p) => Mid(p)'
  BY <1>3, <1>5, <1>6, <1>7, <1>8, MidNext
<1>10. ~ loose' /\ ~ Settled' => ~ loose /\ ~ Overlapping'
  BY <1>3 DEF Loosen
<1>11. Working(p) /\ pc' = [pc EXCEPT ![p] = "deploy"]
  BY <1>3 DEF StepRemoved
<1> QED
  BY <1>9, <1>10, <1>11, CallOrders

\* The end of a change, when all was kept.
LEMMA CalmNext ==
  ASSUME TypeOK', NEW s \in Service, Others(s)', Deployed(s)', NEW r, r = rows'[s],
         r # Nil => Room(s, r)',
         r = Nil => Used(Service \ {s})' <= Quota
  PROVE  Calm'
<1>1. r # Nil => (Used(Service \ {s}))' + r.n * r.cpu <= Quota
  BY DEF Room
<1>2. Back(s)'
  BY <1>1 DEF Back, Room
<1> QED
  BY <1>2, BackNext

\* A replica more, with the limit of the row; its name may be taken.
LEMMA DeployOrders ==
  ASSUME TypeOK, TypeOK', AtWork, Orderly, NEW p \in Actor, Deploy(p) PROVE Orderly'
<1>1. PICK l : l = loc[p]
  OBVIOUS
<1>2. PICK i : i = Min(l.todo)
  OBVIOUS
<1>3. PICK m : m = [l EXCEPT !.todo = l.todo \ {i}]
  OBVIOUS
<1>4. PICK at : at = IF l.todo \ {i} = {} THEN "trim"
                     ELSE IF l.op \in {"update", "redeploy"} THEN "kill" ELSE "deploy"
  OBVIOUS
<1>5. pc[p] = "deploy" /\ UNCHANGED rows /\ Working(p) /\ Loosen(reps[l.s][i] # 0)
  BY <1>1, <1>2 DEF Deploy, Working
<1>6. /\ l \in Locals /\ l.s \in Service /\ l.row \in Row /\ l.row.n \in Nat
      /\ l.todo # {} /\ l.todo \in SUBSET Index
  BY <1>1, <1>5, Knows DEF Work, Locals, Row
<1>7. i \in l.todo
  BY <1>2, <1>6, MinIs
<1>8. CASE reps[l.s][i] # 0
  <2>1. ~ loose' => Settled'
    BY <1>5, <1>8 DEF Loosen
  <2>2. Step(p, NoLocal, "idle")
    BY <1>1, <1>2, <1>8 DEF Deploy, Answer
  <2> QED
    BY <1>5, <2>1, <2>2, WorkOrders
<1>9. CASE reps[l.s][i] = 0
  <2>1. reps' = [reps EXCEPT ![l.s][i] = l.row.cpu] /\ Step(p, m, at)
    BY <1>1, <1>2, <1>3, <1>4, <1>9 DEF Deploy
  <2>2. /\ loc'[p] = m /\ pc'[p] = at /\ at \in {"trim", "kill", "deploy"}
        /\ m.s = l.s /\ m.op = l.op /\ m.row = l.row /\ m.todo = l.todo \ {i}
    BY <1>3, <1>4, <1>6, <2>1 DEF Locals, Step, TypeOK
  <2>3. /\ \A t \in Service \ {l.s} : reps'[t] = reps[t]
        /\ \A j \in Index : j # i => reps'[l.s][j] = reps[l.s][j]
        /\ reps'[l.s][i] = l.row.cpu
    BY <1>6, <1>7, <2>1 DEF TypeOK
  <2>4. Mid(p) => /\ Others(l.s) /\ rows[l.s] = l.row /\ Room(l.s, l.row)
                  /\ \A j \in Index :
                       /\ j < l.row.n /\ j \notin l.todo => reps[l.s][j] = l.row.cpu
                       /\ j >= l.row.n /\ l.op # "update" => reps[l.s][j] = 0
    BY <1>1, <1>5 DEF Mid
  <2>5. Others(l.s) /\ Room(l.s, l.row) => Others(l.s)' /\ Room(l.s, l.row)'
    BY <1>5, <1>6, <2>3, OthersSame
  <2>6. i < l.row.n
    <3>1. l.todo \subseteq 0..(l.row.n - 1)
      BY <1>1, <1>5, Knows DEF Work
    <3> QED
      BY <1>6, <1>7, <3>1
  <2>7. Mid(p) => /\ rows'[l.s] = l.row
                  /\ \A j \in Index :
                       /\ j < l.row.n /\ j \notin m.todo => reps'[l.s][j] = l.row.cpu
                       /\ j >= l.row.n /\ l.op # "update" => reps'[l.s][j] = 0
    BY <1>5, <1>6, <2>2, <2>3, <2>4, <2>6, ConstantsAssumption DEF Index
  <2>8. Mid(p) => Mid(p)'
    BY <2>2, <2>4, <2>5, <2>7, MidNext
  <2> QED
    BY <1>5, <2>1, <2>2, <2>8, WorkOrders DEF Loosen
<1> QED
  BY <1>8, <1>9

\* The end of a change: what is left are the replicas of the row.
LEMMA TrimOrders ==
  ASSUME TypeOK, TypeOK', AtWork, Orderly, NEW p \in Actor, Trim(p) PROVE Orderly'
<1>1. PICK l : l = loc[p]
  OBVIOUS
<1>2. PICK left : left = CASE l.op = "update" -> {i \in Present(l.s) : i >= l.row.n}
                           [] l.op = "redeploy" -> {}
                           [] OTHER -> l.left
  OBVIOUS
<1>3. /\ pc[p] = "trim" /\ UNCHANGED rows /\ Working(p)
      /\ l \in Locals /\ l.s \in Service /\ l.row \in Row /\ l.row.n \in Nat
      /\ l.todo = {} /\ \A i \in l.left : i >= l.row.n
  BY <1>1, Knows DEF Trim, Working, Work, Row
<1>4. PICK S : /\ reps' = [reps EXCEPT ![l.s] =
                             [i \in Index |-> IF i \in S THEN 0 ELSE reps[l.s][i]]]
               /\ \E removed : StepRemoved(p, NoLocal, "idle", removed)
               /\ Loosen(S # left)
  <2>1. \E S : /\ reps' = [reps EXCEPT ![l.s] = [i \in Index |-> IF i \in S THEN 0 ELSE @[i]]]
               /\ StepRemoved(p, NoLocal, "idle", {l.s} \X S) /\ Loosen(S # left)
    <3> DEFINE lefts == CASE loc[p].op = "update" ->
                               {i \in Present(loc[p].s) : i >= loc[p].row.n}
                          [] loc[p].op = "redeploy" -> {}
                          [] OTHER -> loc[p].left
    <3>1. \E S \in IF Faulty \/ loc[p].op # "update" THEN SUBSET lefts ELSE {lefts} :
            /\ reps' = [reps EXCEPT ![loc[p].s] = [i \in Index |-> IF i \in S THEN 0 ELSE @[i]]]
            /\ StepRemoved(p, NoLocal, "idle", {loc[p].s} \X S)
            /\ Unlock(p)
            /\ UNCHANGED <<rows, boot, checked, ops, crashes>>
            /\ Loosen(S # lefts)
      BY Zenon DEF Trim
    <3>2. left = lefts
      BY <1>1, <1>2
    <3> HIDE DEF lefts
    <3> QED
      BY <1>1, <3>1, <3>2
  <2>2. \A S : [reps EXCEPT ![l.s] = [i \in Index |-> IF i \in S THEN 0 ELSE @[i]]]
               = [reps EXCEPT ![l.s] = [i \in Index |-> IF i \in S THEN 0 ELSE reps[l.s][i]]]
    BY <1>3 DEF TypeOK
  <2> QED
    BY <2>1, <2>2
<1>5. /\ \A t \in Service \ {l.s} : reps'[t] = reps[t]
      /\ \A i \in Index : reps'[l.s][i] = IF i \in S THEN 0 ELSE reps[l.s][i]
  BY <1>3, <1>4 DEF TypeOK
<1>6. Mid(p) => /\ Others(l.s) /\ rows[l.s] = l.row /\ Room(l.s, l.row)
                /\ \A i \in Index :
                     /\ i < l.row.n => reps[l.s][i] = l.row.cpu
                     /\ i >= l.row.n /\ l.op # "update" => reps[l.s][i] = 0
  BY <1>1, <1>3 DEF Mid
<1>7. Others(l.s) /\ Room(l.s, l.row) => Others(l.s)' /\ Room(l.s, l.row)'
  BY <1>3, <1>5, OthersSame
<1>8. /\ \A i \in left : i >= l.row.n
      /\ l.op = "update" => \A i \in Index : i >= l.row.n /\ i \notin left => reps[l.s][i] = 0
  BY <1>2, <1>3 DEF Present
<1>9. S = left /\ Mid(p) =>
        \A i \in Index : reps'[l.s][i] = IF i < l.row.n THEN l.row.cpu ELSE 0
  BY <1>3, <1>5, <1>6, <1>8, ConstantsAssumption DEF Index
<1>10. l.row # Nil
  BY <1>3, ConstantsAssumption
<1>11. Mid(p) => rows'[l.s] = l.row
  BY <1>3, <1>6
<1>12. S = left /\ Mid(p) => Deployed(l.s)'
  BY <1>9, <1>10, <1>11 DEF Deployed
<1>13. S = left /\ Mid(p) => Calm'
  BY <1>3, <1>6, <1>7, <1>10, <1>11, <1>12, CalmNext
<1>14. ~ loose' /\ ~ Settled' => S = left /\ ~ loose /\ ~ Overlapping'
  BY <1>4 DEF Loosen
<1>15. Working(p) /\ pc' = [pc EXCEPT ![p] = "idle"]
  BY <1>3, <1>4 DEF StepRemoved
<1> QED
  BY <1>13, <1>14, <1>15, CallOrders

\* The replicas of a deleted service go, then its row.
LEMMA EraseOrders ==
  ASSUME TypeOK, TypeOK', AtWork, Orderly, NEW p \in Actor, Erase(p) PROVE Orderly'
<1>1. PICK l : l = loc[p]
  OBVIOUS
<1>2. /\ pc[p] = "erase" /\ UNCHANGED rows /\ Working(p)
      /\ \E removed : StepRemoved(p, l, "drop", removed)
      /\ l \in Locals /\ l.s \in Service /\ l.op = "delete"
  BY <1>1, Knows DEF Erase, Working, Work
<1>3. PICK kept : /\ reps' = [reps EXCEPT ![l.s] =
                                [i \in Index |-> IF i \in kept THEN reps[l.s][i] ELSE 0]]
                  /\ Loosen(kept # {})
  BY <1>1, <1>2 DEF Erase, TypeOK
<1>4. /\ \A t \in Service \ {l.s} : reps'[t] = reps[t]
      /\ kept = {} => \A i \in Index : reps'[l.s][i] = 0
      /\ loc'[p] = l /\ pc'[p] = "drop"
  BY <1>2, <1>3 DEF TypeOK, StepRemoved
<1>5. Mid(p) => /\ Calm /\ rows[l.s] # Nil /\ ~ l.gone
  BY <1>1, <1>2 DEF Mid
<1>6. Calm => Others(l.s)' /\ Used(Service \ {l.s})' <= Quota
  <2>1. Used(Service \ {l.s})' = Used(Service \ {l.s}) /\ (Others(l.s) => Others(l.s)')
    BY <1>2, <1>4, OthersSame
  <2>2. Used(Service) = SumFunction(reps[l.s]) + Used(Service \ {l.s})
        /\ Used(Service \ {l.s}) \in Nat /\ SumFunction(reps[l.s]) \in Nat
    BY <1>2, UsedSplit
  <2>3. Calm => Others(l.s) /\ Used(Service) <= Quota
    BY DEF Calm, Others
  <2>4. Calm => Used(Service \ {l.s}) <= Quota
    BY <2>2, <2>3, Limits
  <2> QED
    BY <2>1, <2>3, <2>4
<1>7. kept = {} /\ Mid(p) => Mid(p)'
  <2>1. /\ (loc[p])' = l /\ (pc[p])' = "drop" /\ (rows[l.s])' = rows[l.s]
        /\ Calm => Others(loc[p].s)' /\ Used(Service \ {loc[p].s})' <= Quota
    BY <1>2, <1>4, <1>6 DEF Others, Used
  <2> QED
    BY <1>2, <1>4, <1>5, <2>1 DEF Mid
<1>8. ~ loose' /\ ~ Settled' => kept = {} /\ ~ loose /\ ~ Overlapping'
  BY <1>3 DEF Loosen
<1>9. Working(p) /\ pc' = [pc EXCEPT ![p] = "drop"]
  BY <1>2 DEF StepRemoved
<1> QED
  BY <1>7, <1>8, <1>9, CallOrders

LEMMA DropOrders ==
  ASSUME TypeOK, TypeOK', AtWork, Orderly, NEW p \in Actor, Drop(p) PROVE Orderly'
<1>1. PICK l : l = loc[p]
  OBVIOUS
<1>2. /\ pc[p] = "drop" /\ UNCHANGED reps /\ Working(p) /\ Loosen(FALSE)
      /\ l \in Locals /\ l.s \in Service
  BY <1>1, Knows DEF Drop, Working
<1>3. Mid(p) => /\ rows[l.s] # Nil /\ ~ l.gone /\ Others(l.s)
                /\ \A i \in Index : reps[l.s][i] = 0
                /\ Used(Service \ {l.s}) <= Quota
  BY <1>1, <1>2 DEF Mid
<1>4. CASE rows[l.s] # Nil /\ ~ l.gone
  <2>1. rows' = [rows EXCEPT ![l.s] = Nil] /\ StepWritten(p, NoLocal, "idle", l.s, TRUE)
    BY <1>1, <1>4 DEF Drop
  <2>2. rows'[l.s] = Nil /\ \A t \in Service \ {l.s} : rows'[t] = rows[t]
    BY <1>2, <2>1 DEF TypeOK
  <2>3. (Others(l.s) => Others(l.s)') /\ Used(Service \ {l.s})' = Used(Service \ {l.s})
    BY <1>2, <2>2, OthersSame
  <2>4. Mid(p) => Deployed(l.s)'
    BY <1>2, <1>3, <2>2 DEF Deployed
  <2>5. Mid(p) => Calm'
    BY <1>2, <1>3, <2>2, <2>3, <2>4, CalmNext
  <2> QED
    BY <1>2, <2>1, <2>5, WorkOrders DEF Loosen
<1>5. CASE ~ (rows[l.s] # Nil /\ ~ l.gone)
  <2>1. ~ Mid(p) /\ Step(p, NoLocal, "idle")
    BY <1>1, <1>3, <1>5 DEF Drop, Answer
  <2> QED
    BY <1>2, <2>1, WorkOrders DEF Loosen
<1> QED
  BY <1>4, <1>5

\* SyncAll begins with a service, or goes on to the next.
LEMMA BootOrders ==
  ASSUME TypeOK, AtWork, Orderly, NEW s \in Service, Boot(s) PROVE Orderly'
<1>1. pc[Main] = "idle" /\ UNCHANGED <<rows, reps>> /\ Loosen(FALSE) /\ ~ Working(Main)
      /\ Main \in Actor
  BY Indices DEF Boot, Working
<1>2. CASE UNCHANGED <<pc, loc>>
  <2>1. (pc[Main])' = pc[Main] /\ \A q \in Actor : pc'[q] = pc[q] /\ loc'[q] = loc[q]
    BY <1>2
  <2>2. Fine(Main) => Fine(Main)'
    BY <1>1, <2>1, CalmSame DEF Fine, Working
  <2> QED
    BY <1>1, <2>1, <2>2, Orders DEF Loosen
<1>3. CASE ~ UNCHANGED <<pc, loc>>
  <2>1. PICK l : l = [NoLocal EXCEPT !.op = "boot", !.s = s, !.row = rows[s]]
    OBVIOUS
  <2>2. Step(Main, l, "list") /\ rows[s] \in Row /\ rows[s] # Nil
    BY <1>3, <2>1, ConstantsAssumption DEF Boot, TypeOK
  <2>3. l.s = s /\ l.row = rows[s]
    BY <2>1, NoLocalIs DEF NoLocal, Locals
  <2>4. loc'[Main] = l /\ pc'[Main] = "list"
    BY <1>1, <2>2 DEF Step, TypeOK
  <2>5. Calm => Others(s)' /\ Room(s, l.row)'
    BY <1>1, <2>2, <2>3, CalmRoom, OthersSame
  <2>6. Calm => \A i \in Index : reps'[s][i] = 0 \/ (i < l.row.n /\ reps'[s][i] = l.row.cpu)
    BY <1>1, <2>2, <2>3 DEF Calm, Deployed
  <2>7. Calm => Mid(Main)'
    BY <1>1, <2>3, <2>4, <2>5, <2>6, MidNext
  <2> QED
    BY <1>1, <2>2, <2>7, Starts
<1> QED
  BY <1>2, <1>3

LEMMA TickOrders ==
  ASSUME TypeOK, AtWork, Orderly, NEW s \in Service, Tick(s) PROVE Orderly'
<1>1. rows[s] \in Row /\ "autoscale" \in Ops /\ Main \in Actor
  BY Indices DEF Tick, TypeOK, Ops
<1> QED
  BY <1>1, BeginOrders DEF Tick

LEMMA SampleOrders == ASSUME TypeOK, AtWork, Orderly, Sample PROVE Orderly'
<1>1. /\ UNCHANGED <<rows, reps>> /\ Loosen(FALSE) /\ ~ Working(Main) /\ Main \in Actor
      /\ \E l : Step(Main, l, "get") \/ Step(Main, l, "idle")
  <2>1. Answer(Main) \/ \E l : Step(Main, l, "get")
    BY DEF Sample
  <2> QED
    BY <2>1, Indices DEF Sample, Answer, Working
<1> QED
  BY <1>1, Starts

LEMMA GetOrders == ASSUME TypeOK, AtWork, Orderly, Get PROVE Orderly'
<1>1. /\ UNCHANGED <<rows, reps>> /\ Loosen(FALSE) /\ ~ Working(Main) /\ Main \in Actor
      /\ \E l : Step(Main, l, "set") \/ Step(Main, l, "idle")
  BY Indices DEF Get, Answer, Working
<1> QED
  BY <1>1, Starts

\* A failing call amid a change is a reason to be loose.
LEMMA FaultOrders == ASSUME TypeOK, AtWork, Orderly, NEW p \in Actor, Fault(p) PROVE Orderly'
<1>1. Step(p, NoLocal, "idle") /\ UNCHANGED <<rows, reps>> /\ Loosen(Working(p))
  BY DEF Fault, Answer
<1>2. CASE Working(p)
  BY <1>1, <1>2, WorkOrders DEF Loosen
<1>3. CASE ~ Working(p)
  BY <1>1, <1>3, Starts DEF Loosen
<1> QED
  BY <1>2, <1>3

\* So is a crash.
LEMMA CrashOrders == ASSUME TypeOK, AtWork, Orderly, Crash PROVE Orderly'
<1>1. /\ UNCHANGED <<rows, reps>> /\ Loosen(\E p \in Actor : Working(p))
      /\ \A p \in Actor : pc'[p] = "idle"
  BY DEF Crash
<1>2. \A p \in Actor : ~ Working(p)'
  BY <1>1 DEF Working
<1>3. ~ loose' /\ ~ Settled' => Calm
  BY <1>1 DEF Loosen, Orderly
<1>4. ~ loose' /\ ~ Settled' => Calm'
  BY <1>1, <1>3, CalmSame
<1> QED
  BY <1>2, <1>4, SettledOrderly DEF Orderly

\* Every step keeps the order.
LEMMA OrderlyStep ==
  TypeOK /\ AtWork /\ Orderly /\ [Next]_vars => Orderly'
<1> SUFFICES ASSUME TypeOK, AtWork, Orderly, [Next]_vars PROVE Orderly'
  OBVIOUS
<1>1. TypeOK'
  BY TypeStep
<1>2. CASE UNCHANGED vars
  BY <1>2 DEF vars, Orderly, Working, Mid, Calm, Others, Room, Deployed, Used,
     Left, Unseen, Counted
<1>3. ASSUME NEW p \in Actor, Call(p) PROVE Orderly'
  BY <1>1, <1>3, ScanOrders, InspectOrders, DecideOrders, LockOrders, SaveOrders, SetOrders, ListOrders, KillOrders,
     DeployOrders, TrimOrders, EraseOrders, DropOrders, FaultOrders DEF Call
<1> QED
  BY <1>2, <1>3, RequestOrders, BootOrders, TickOrders, SampleOrders, GetOrders, CrashOrders
     DEF Next

LEMMA OrderlyInit == Init => Orderly
<1> SUFFICES ASSUME Init PROVE Orderly
  OBVIOUS
<1>1. TypeOK
  BY TypeInit
<1>2. \A s \in Service : Deployed(s)
  BY DEF Init, Deployed
<1>3. \A p \in Actor : ~ Working(p)
  BY DEF Init, Working
<1>4. \A s \in Service : SumFunction(reps[s]) = 0
  BY <1>1, <1>2, DeployedSum DEF Init, RowSum
<1> DEFINE f == [s \in Service |-> SumFunction(reps[s])]
<1>5. \A s \in Service : f[s] = 0
  BY <1>4
<1>6. SumFunctionOnSet(f, Service) = 0
  <2> HIDE DEF f
  <2> QED
    BY <1>5, SumZeros, ConstantsAssumption
<1>7. Used(Service) <= Quota
  BY <1>6, Limits DEF Used, SumFunction
<1> QED
  BY <1>2, <1>3, <1>7 DEF Orderly, Calm

-----------------------------------------------------------------------------
(***************************************************************************)
(* Theorems.                                                               *)
(***************************************************************************)

\* Rows, replicas, locks, calls and locals keep their types: no limit but those asked
\* for is ever deployed, and no index beyond the bound (internal/service, internal/api).
THEOREM TypeCorrect == Spec => []TypeOK
<1>1. TypeOK /\ AtWork /\ [Next]_vars => (TypeOK /\ AtWork)'
  BY TypeStep
<1> QED
  BY <1>1, TypeInit, PTL DEF Spec

\* A service as its last check allowed it fits the quota alone, at the count it has,
\* for any number of requests, edits and ticks of the autoscaler, through failures
\* and crashes (enforceServiceQuota; scaler.go clamps to the bounds that were checked).
THEOREM CheckedServicesFit == Spec => []ServicesFit
<1>1. Init => CheckedFit /\ Allowed
  BY DEF Init, CheckedFit, Allowed, Asked, Bounded
<1>2. TypeOK /\ AtWork /\ CheckedFit /\ Allowed /\ [Next]_vars
        => (TypeOK /\ AtWork /\ CheckedFit /\ Allowed)'
  BY TypeStep, AllowedStep
<1>3. CheckedFit => ServicesFit
  BY DEF CheckedFit, ServicesFit, Affordable
<1> QED
  BY <1>1, <1>2, <1>3, TypeInit, PTL DEF Spec

\* While no service is being checked or changed, the replicas of a member add up to no
\* more than the quota, unless checks or changes overlapped, an inspect failed, a change
\* was cut short or one was not checked since all was last as the rows say
\* (enforceServiceQuota container by container, then the service manager).
THEOREM FootprintWithinQuota == Spec => []WithinQuota
<1>1. TypeOK /\ AtWork /\ Orderly /\ [Next]_vars => (TypeOK /\ AtWork /\ Orderly)'
  BY TypeStep, OrderlyStep
<1>2. Orderly => WithinQuota
  BY DEF Orderly, WithinQuota, Calm
<1> QED
  BY <1>1, <1>2, TypeInit, OrderlyInit, PTL DEF Spec
=============================================================================
