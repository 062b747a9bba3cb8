---------------------------- MODULE EndpointsProofs ----------------------------
(***************************************************************************)
(* Proofs about Endpoints, for every set of requests, environments, hosts  *)
(* and TLS material, with failing calls and restarts.                      *)
(*                                                                         *)
(* FreshClients is not inductive: that a fill keeps the client of the row  *)
(* depends on what the row was when the fill read it, which AllAgree says  *)
(* of every goroutine that no change of the row has overtaken; CertsKept   *)
(* follows from what it says of updates.                                   *)
(***************************************************************************)
EXTENDS Endpoints, TLAPS

\* What a goroutine read of a row that nobody changed since.
Agrees(l, at) ==
  l.late \/ /\ at = "put" => l.row = rows[l.id]
            /\ at = "write" => \/ rows[l.id] = Nil
                               \/ l.row.cert = rows[l.id].cert
                               \/ l.given \in Cert \cap {l.row.cert}
AllAgree == \A p \in Proc : Agrees(loc[p], pc[p])

IInv == TypeOK /\ AllAgree /\ FreshClients

-----------------------------------------------------------------------------
(***************************************************************************)
(* One step of a goroutine.                                                *)
(***************************************************************************)

LEMMA NoLocalType == NoLocal \in Locals /\ ~ NoLocal.late
BY DEF NoLocal, Locals

\* Locals with which p may make the call `at`.
Fits(l, at) ==
  /\ l \in Locals /\ at \in Calls
  /\ at # "idle" => l.id \in born
  /\ at \in {"put", "read", "write"} => l.row \in Row

LEMMA AtCall ==
  ASSUME IInv, NEW p \in Proc, pc[p] # "idle"
  PROVE  Fits(loc[p], pc[p]) /\ loc[p].id \in Id /\ Agrees(loc[p], pc[p])
<1>1. /\ loc \in [Proc -> Locals] /\ pc \in [Proc -> Calls] /\ born \in SUBSET Id
      /\ \A q \in Proc : /\ pc[q] # "idle" => loc[q].id \in born
                         /\ pc[q] \in {"put", "read", "write"} => loc[q].row \in Row
  BY DEF IInv, TypeOK
<1>2. loc[p] \in Locals /\ pc[p] \in Calls
  BY <1>1
<1>3. loc[p].id \in born
  BY <1>1
<1>4. pc[p] \in {"put", "read", "write"} => loc[p].row \in Row
  BY <1>1
<1> QED
  BY <1>1, <1>2, <1>3, <1>4 DEF IInv, AllAgree, Fits

\* Step changes p alone; the rows may change too where p is the last to know.
LEMMA StepKeeps ==
  ASSUME IInv, NEW p \in Proc, NEW l, NEW at, Step(p, l, at), Fits(l, at),
         UNCHANGED <<rows, born>>, Agrees(l, at),
         clients' \in [Id -> Client \cup {Nil}], stale' \in SUBSET Id,
         \A id \in Id \ born : clients'[id] = Nil
  PROVE  /\ TypeOK' /\ AllAgree' /\ pc'[p] = at
         /\ \A q \in Proc \ {p} : pc'[q] = pc[q] /\ loc'[q] = loc[q]
<1>1. /\ pc' \in [Proc -> Calls] /\ loc' \in [Proc -> Locals]
      /\ pc'[p] = at /\ loc'[p] = l
      /\ \A q \in Proc \ {p} : pc'[q] = pc[q] /\ loc'[q] = loc[q]
  BY DEF Step, Fits, IInv, TypeOK
<1>2. TypeOK'
  BY <1>1 DEF IInv, TypeOK, Fits
<1>3. ASSUME NEW q \in Proc PROVE Agrees(loc[q], pc[q])'
  BY <1>1 DEF Agrees, IInv, AllAgree
<1> QED
  BY <1>1, <1>2, <1>3 DEF AllAgree

\* The row of id changes, and who read it before is told so.
LEMMA StepLateKeeps ==
  ASSUME IInv, NEW p \in Proc, NEW l, NEW at, NEW id \in born, StepLate(p, l, at, id),
         Fits(l, at), at \in {"idle", "evict"},
         UNCHANGED <<born, clients>>, stale' \in SUBSET Id,
         NEW r \in Row \cup {Nil}, rows' = [rows EXCEPT ![id] = r]
  PROVE  /\ TypeOK' /\ AllAgree' /\ pc'[p] = at /\ loc'[p] = l
         /\ \A q \in Proc \ {p} : pc'[q] = pc[q] /\ loc'[q].id = loc[q].id
<1>1. ASSUME NEW q \in Proc, q # p
      PROVE  /\ pc'[q] = pc[q] /\ loc'[q] \in Locals
             /\ loc'[q].id = loc[q].id /\ loc'[q].row = loc[q].row
             /\ loc'[q].given = loc[q].given
             /\ loc[q].late => loc'[q].late
             /\ loc[q].id = id /\ pc[q] \in {"put", "write"} => loc'[q].late
  <2>1. pc'[q] = pc[q] /\ loc[q] \in Locals
    BY <1>1 DEF StepLate, IInv, TypeOK
  <2>2. CASE loc[q].id = id /\ pc[q] \in {"put", "write"}
    <3>1. loc'[q] = [loc[q] EXCEPT !.late = TRUE]
      BY <1>1, <2>2 DEF StepLate
    <3> QED
      BY <2>1, <3>1 DEF Locals
  <2>3. CASE ~ (loc[q].id = id /\ pc[q] \in {"put", "write"})
    <3>1. loc'[q] = loc[q]
      BY <1>1, <2>3 DEF StepLate
    <3> QED
      BY <2>1, <2>3, <3>1
  <2> QED
    BY <2>2, <2>3
<1>2. loc'[p] = l /\ pc'[p] = at
  BY DEF StepLate, IInv, TypeOK
<1>3. loc' \in [Proc -> Locals] /\ pc' \in [Proc -> Calls]
  <2>1. pc' \in [Proc -> Calls]
    BY DEF StepLate, Fits, IInv, TypeOK
  <2>2. loc' = [q \in Proc |-> loc'[q]]
    BY DEF StepLate
  <2> QED
    BY <1>1, <1>2, <2>1, <2>2 DEF Fits
<1>4. TypeOK'
  <2>1. rows' \in [Id -> Row \cup {Nil}] /\ \A i \in Id \ born : rows'[i] = rows[i]
    BY DEF IInv, TypeOK
  <2>2. ASSUME NEW q \in Proc
        PROVE  /\ pc'[q] # "idle" => loc'[q].id \in born
               /\ pc'[q] \in {"put", "read", "write"} => loc'[q].row \in Row
    <3>1. CASE q = p
      BY <1>2, <3>1 DEF Fits
    <3>2. CASE q # p
      BY <1>1, <3>2, AtCall DEF Fits
    <3> QED
      BY <3>1, <3>2
  <2> QED
    BY <1>3, <2>1, <2>2 DEF IInv, TypeOK
<1>5. ASSUME NEW q \in Proc PROVE Agrees(loc[q], pc[q])'
  <2>1. CASE q = p
    BY <1>2, <2>1 DEF Agrees
  <2>2. CASE q # p /\ loc[q].id = id
    BY <1>1, <2>2 DEF Agrees
  <2>3. CASE q # p /\ loc[q].id # id
    <3>1. rows'[loc[q].id] = rows[loc[q].id] \/ pc[q] = "idle"
      BY <2>3, AtCall DEF IInv, TypeOK
    <3> QED
      BY <1>1, <2>3, <3>1 DEF Agrees, IInv, AllAgree
  <2> QED
    BY <2>1, <2>2, <2>3
<1> QED
  BY <1>1, <1>2, <1>4, <1>5 DEF AllAgree

-----------------------------------------------------------------------------
(***************************************************************************)
(* Steps that leave the rows and the cache alone.                          *)
(***************************************************************************)

\* Nothing becomes stale, and no eviction is forgotten.
LEMMA Quietly ==
  ASSUME IInv, NEW p \in Proc, NEW l, NEW at, Step(p, l, at), Fits(l, at),
         Agrees(l, at), pc[p] # "evict",
         UNCHANGED <<rows, born, clients, stale>>
  PROVE  IInv'
<1>1. TypeOK' /\ AllAgree' /\ \A q \in Proc \ {p} : pc'[q] = pc[q] /\ loc'[q] = loc[q]
  BY StepKeeps DEF IInv, TypeOK
<1>2. FreshClients'
  BY <1>1 DEF IInv, FreshClients
<1> QED
  BY <1>1, <1>2 DEF IInv

LEMMA Answered == Fits(NoLocal, "idle") /\ Agrees(NoLocal, "idle")
BY NoLocalType DEF Fits, Agrees, Calls

LEMMA ClientForStep ==
  ASSUME IInv, NEW p \in Proc, NEW id \in Id, ClientFor(p, id) PROVE IInv'
<1> DEFINE l == [NoLocal EXCEPT !.id = id, !.row = Nil, !.given = NoCert]
<1>1. l \in Locals /\ l.id = id
  BY DEF Locals, NoLocal
<1>2. Step(p, l, "get") /\ id \in born /\ pc[p] = "idle"
  BY DEF ClientFor, Begin
<1> HIDE DEF l
<1>3. Fits(l, "get") /\ Agrees(l, "get")
  BY <1>1, <1>2 DEF Fits, Agrees, Calls
<1> QED
  BY <1>2, <1>3, Quietly DEF ClientFor

LEMMA GetStep == ASSUME IInv, NEW p \in Proc, Get(p) PROVE IInv'
<1> DEFINE l == [loc[p] EXCEPT !.row = rows[loc[p].id]]
<1>1. pc[p] = "get" /\ UNCHANGED <<rows, born, clients, stale>>
  BY DEF Get
<1>2. Fits(loc[p], "get") /\ loc[p].id \in Id
  BY <1>1, AtCall
<1>3. CASE rows[loc[p].id] # Nil /\ Step(p, l, "put")
  <2>1. l \in Locals /\ l.id = loc[p].id /\ l.row = rows[loc[p].id] /\ l.row \in Row
    BY <1>2, <1>3 DEF Fits, Locals, IInv, TypeOK
  <2> HIDE DEF l
  <2>2. Fits(l, "put") /\ Agrees(l, "put")
    BY <1>2, <2>1 DEF Fits, Agrees, Calls
  <2> QED
    BY <1>1, <1>3, <2>2, Quietly
<1>4. CASE Answer(p)
  BY <1>1, <1>4, Answered, Quietly DEF Answer
<1> QED
  BY <1>3, <1>4 DEF Get

LEMMA UpdateStep ==
  ASSUME IInv, NEW p \in Proc, NEW id \in Id, NEW host \in Host,
         NEW given \in Cert \cup {NoCert}, Update(p, id, host, given)
  PROVE  IInv'
<1> DEFINE row == [host |-> host, cert |-> given]
           l == [NoLocal EXCEPT !.id = id, !.row = row, !.given = given]
<1>1. row \in Row
  BY DEF Row
<1>2. Step(p, l, "read") /\ id \in born /\ pc[p] = "idle"
  BY DEF Update, Begin
<1> HIDE DEF row
<1>3. l \in Locals /\ l.id = id /\ l.row \in Row
  BY <1>1 DEF Locals, NoLocal
<1> HIDE DEF l
<1>4. Fits(l, "read") /\ Agrees(l, "read")
  BY <1>2, <1>3 DEF Fits, Agrees, Calls
<1> QED
  BY <1>2, <1>4, Quietly DEF Update

LEMMA ReadStep == ASSUME IInv, NEW p \in Proc, Read(p) PROVE IInv'
<1> DEFINE id == loc[p].id
           cert == Kept(id, loc[p].given)
           l == [loc[p] EXCEPT !.row.cert = cert]
<1>1. pc[p] = "read" /\ UNCHANGED <<rows, born, clients, stale>>
  BY DEF Read
<1>2. Fits(loc[p], "read") /\ id \in Id
  BY <1>1, AtCall
<1>3. CASE rows[id] # Nil /\ Step(p, l, "write")
  <2>1. /\ cert \in Cert \cup {NoCert}
        /\ cert = rows[id].cert \/ loc[p].given \in Cert \cap {cert}
    BY <1>2, <1>3 DEF Kept, Fits, Locals, Row, IInv, TypeOK
  <2> HIDE DEF cert
  <2>2. /\ l \in Locals /\ l.id = id /\ l.given = loc[p].given
        /\ l.row \in Row /\ l.row.cert = cert
    BY <1>2, <2>1 DEF Fits, Locals, Row
  <2> HIDE DEF l
  <2>3. Fits(l, "write") /\ Agrees(l, "write")
    BY <1>2, <2>1, <2>2 DEF Fits, Agrees, Calls
  <2> QED
    BY <1>1, <1>3, <2>3, Quietly
<1>4. CASE Answer(p)
  BY <1>1, <1>4, Answered, Quietly DEF Answer
<1> QED
  BY <1>3, <1>4 DEF Read

-----------------------------------------------------------------------------
(***************************************************************************)
(* Steps that change the cache or a row.                                   *)
(***************************************************************************)

LEMMA PutStep == ASSUME IInv, NEW p \in Proc, Put(p) PROVE IInv'
<1> DEFINE id == loc[p].id
<1>1. /\ pc[p] = "put" /\ Answer(p) /\ UNCHANGED <<rows, born>>
      /\ clients' = [clients EXCEPT ![id] = loc[p].row]
      /\ stale' = IF loc[p].late THEN stale \cup {id} ELSE stale \ {id}
  BY DEF Put
<1>2. id \in Id /\ id \in born /\ loc[p].row \in Row /\ Agrees(loc[p], "put")
  BY <1>1, AtCall DEF Fits
<1>3. /\ clients' \in [Id -> Client \cup {Nil}] /\ stale' \in SUBSET Id
      /\ \A i \in Id \ born : clients'[i] = Nil
  BY <1>1, <1>2 DEF IInv, TypeOK, Client
<1>4. TypeOK' /\ AllAgree' /\ \A q \in Proc \ {p} : pc'[q] = pc[q] /\ loc'[q] = loc[q]
  BY <1>1, <1>3, Answered, StepKeeps DEF Answer
<1>5. ASSUME NEW i \in Id \ stale'
      PROVE  \/ clients'[i] \in {Nil, rows'[i]}
             \/ \E q \in Proc : pc'[q] = "evict" /\ loc'[q].id = i
  <2>1. CASE i = id
    BY <1>1, <1>2, <1>5, <2>1 DEF Agrees, IInv, TypeOK
  <2>2. CASE i # id
    BY <1>1, <1>4, <1>5, <2>2 DEF IInv, TypeOK, FreshClients
  <2> QED
    BY <2>1, <2>2
<1> QED
  BY <1>4, <1>5 DEF IInv, FreshClients

\* Two steps drop a client: the second half of Update, the first of Delete.
LEMMA Dropping ==
  ASSUME IInv, NEW p \in Proc, NEW l, NEW at, Step(p, l, at), Fits(l, at), Agrees(l, at),
         NEW id \in Id, UNCHANGED <<rows, born>>,
         clients' = [clients EXCEPT ![id] = Nil], stale' = stale \ {id},
         pc[p] = "evict" => loc[p].id = id
  PROVE  IInv'
<1>1. /\ clients' \in [Id -> Client \cup {Nil}] /\ stale' \in SUBSET Id
      /\ \A i \in Id \ born : clients'[i] = Nil
  BY DEF IInv, TypeOK
<1>2. TypeOK' /\ AllAgree' /\ \A q \in Proc \ {p} : pc'[q] = pc[q] /\ loc'[q] = loc[q]
  BY <1>1, StepKeeps
<1>3. ASSUME NEW i \in Id \ stale'
      PROVE  \/ clients'[i] \in {Nil, rows'[i]}
             \/ \E q \in Proc : pc'[q] = "evict" /\ loc'[q].id = i
  <2>1. CASE i = id
    BY <2>1 DEF IInv, TypeOK
  <2>2. CASE i # id
    BY <1>2, <1>3, <2>2 DEF IInv, TypeOK, FreshClients
  <2> QED
    BY <2>1, <2>2
<1> QED
  BY <1>2, <1>3 DEF IInv, FreshClients

LEMMA EvictStep == ASSUME IInv, NEW p \in Proc, Evict(p) PROVE IInv'
<1>1. pc[p] = "evict" /\ Answer(p)
  BY DEF Evict
<1>2. loc[p].id \in Id
  BY <1>1, AtCall
<1> QED
  BY <1>1, <1>2, Answered, Dropping DEF Evict, Answer

LEMMA DeleteStep ==
  ASSUME IInv, NEW p \in Proc, NEW id \in Id, Delete(p, id) PROVE IInv'
<1> DEFINE l == [NoLocal EXCEPT !.id = id, !.row = Nil, !.given = NoCert]
<1>1. l \in Locals /\ l.id = id
  BY DEF Locals, NoLocal
<1>2. Step(p, l, "erase") /\ id \in born /\ pc[p] = "idle"
  BY DEF Delete, Begin
<1> HIDE DEF l
<1>3. Fits(l, "erase") /\ Agrees(l, "erase")
  BY <1>1, <1>2 DEF Fits, Agrees, Calls
<1> QED
  BY <1>2, <1>3, Dropping DEF Delete

\* A row changes: its client is dropped next, known to be old, or not there.
LEMMA Changing ==
  ASSUME IInv, NEW p \in Proc, pc[p] \in {"write", "erase"},
         NEW l, NEW at, StepLate(p, l, at, loc[p].id),
         \/ at = "idle" /\ l = NoLocal /\ (clients[loc[p].id] # Nil => loc[p].id \in stale')
         \/ at = "evict" /\ l = loc[p],
         UNCHANGED <<born, clients>>, stale' \in SUBSET Id, stale \subseteq stale',
         NEW r \in Row \cup {Nil}, rows' = [rows EXCEPT ![loc[p].id] = r]
  PROVE  IInv'
<1> DEFINE id == loc[p].id
<1>1. id \in Id /\ id \in born /\ Fits(l, at) /\ at \in {"idle", "evict"}
  BY AtCall, Answered DEF Fits, Calls
<1>2. /\ TypeOK' /\ AllAgree' /\ pc'[p] = at /\ loc'[p] = l
      /\ \A q \in Proc \ {p} : pc'[q] = pc[q] /\ loc'[q].id = loc[q].id
  BY <1>1, StepLateKeeps
<1>3. ASSUME NEW i \in Id \ stale'
      PROVE  \/ clients'[i] \in {Nil, rows'[i]}
             \/ \E q \in Proc : pc'[q] = "evict" /\ loc'[q].id = i
  <2>1. CASE i = id
    BY <1>2, <1>3, <2>1
  <2>2. CASE i # id
    <3>1. rows'[i] = rows[i] /\ i \notin stale
      BY <1>3, <2>2 DEF IInv, TypeOK
    <3> QED
      BY <1>2, <3>1 DEF IInv, FreshClients
  <2> QED
    BY <2>1, <2>2
<1> QED
  BY <1>2, <1>3 DEF IInv, FreshClients

\* The row an UPDATE statement leaves.
LEMMA WrittenRow ==
  ASSUME IInv, NEW p \in Proc, pc[p] = "write"
  PROVE  \E r \in Row \cup {Nil} :
            /\ Written(p) = [rows EXCEPT ![loc[p].id] = r]
            /\ r \in {rows[loc[p].id], loc[p].row}
<1>1. loc[p].id \in Id /\ loc[p].row \in Row /\ rows \in [Id -> Row \cup {Nil}]
  BY AtCall DEF IInv, TypeOK, Fits
<1>2. CASE rows[loc[p].id] = Nil
  BY <1>1, <1>2 DEF Written
<1>3. CASE rows[loc[p].id] # Nil
  BY <1>1, <1>3 DEF Written
<1> QED
  BY <1>2, <1>3

LEMMA WriteStep == ASSUME IInv, NEW p \in Proc, Write(p) PROVE IInv'
<1>1. pc[p] = "write" /\ UNCHANGED <<born, clients>>
  BY DEF Write
<1>2. loc[p].id \in Id
  BY <1>1, AtCall
<1>3. PICK r \in Row \cup {Nil} : Written(p) = [rows EXCEPT ![loc[p].id] = r]
  BY <1>1, WrittenRow
<1>4. CASE rows' = Written(p) /\ StepLate(p, loc[p], "evict", loc[p].id) /\ UNCHANGED stale
  BY <1>1, <1>3, <1>4, Changing DEF IInv, TypeOK
<1>5. CASE /\ rows' = Written(p) /\ StepLate(p, NoLocal, "idle", loc[p].id)
           /\ stale' = IF clients[loc[p].id] # Nil THEN stale \cup {loc[p].id} ELSE stale
  <2>1. /\ stale' \in SUBSET Id /\ stale \subseteq stale'
        /\ clients[loc[p].id] # Nil => loc[p].id \in stale'
    BY <1>2, <1>5 DEF IInv, TypeOK
  <2> QED
    BY <1>1, <1>3, <1>5, <2>1, Changing
<1>6. CASE Answer(p) /\ UNCHANGED <<rows, stale>>
  BY <1>1, <1>6, Answered, Quietly DEF Answer
<1> QED
  BY <1>4, <1>5, <1>6 DEF Write

LEMMA EraseStep == ASSUME IInv, NEW p \in Proc, Erase(p) PROVE IInv'
<1>1. pc[p] = "erase" /\ UNCHANGED <<born, clients>>
  BY DEF Erase
<1>2. loc[p].id \in Id
  BY <1>1, AtCall
<1>3. CASE /\ rows' = [rows EXCEPT ![loc[p].id] = Nil]
           /\ stale' = IF clients[loc[p].id] # Nil THEN stale \cup {loc[p].id} ELSE stale
           /\ StepLate(p, NoLocal, "idle", loc[p].id)
  <2>1. /\ stale' \in SUBSET Id /\ stale \subseteq stale'
        /\ clients[loc[p].id] # Nil => loc[p].id \in stale'
    BY <1>2, <1>3 DEF IInv, TypeOK
  <2> QED
    BY <1>1, <1>3, <2>1, Changing
<1>4. CASE Answer(p) /\ UNCHANGED <<rows, stale>>
  BY <1>1, <1>4, Answered, Quietly DEF Answer
<1> QED
  BY <1>3, <1>4 DEF Erase

\* A new id has no client, and no goroutine works on it.
LEMMA CreateStep ==
  ASSUME IInv, NEW id \in Id, NEW row \in Row, Create(id, row) PROVE IInv'
<1>1. /\ id \notin born /\ born' = born \cup {id} /\ rows' = [rows EXCEPT ![id] = row]
      /\ UNCHANGED <<clients, pc, loc, stale>>
  BY DEF Create
<1>2. TypeOK'
  <2>1. /\ rows' \in [Id -> Row \cup {Nil}] /\ born' \in SUBSET Id
        /\ \A i \in Id \ born' : rows'[i] = Nil /\ clients'[i] = Nil
    BY <1>1 DEF IInv, TypeOK
  <2>2. ASSUME NEW p \in Proc
        PROVE  /\ pc'[p] # "idle" => loc'[p].id \in born'
               /\ pc'[p] \in {"put", "read", "write"} => loc'[p].row \in Row
    BY <1>1, AtCall DEF Fits
  <2> QED
    BY <1>1, <2>1, <2>2 DEF IInv, TypeOK
<1>3. ASSUME NEW p \in Proc PROVE Agrees(loc[p], pc[p])'
  <2>1. CASE pc[p] = "idle"
    BY <1>1, <2>1 DEF Agrees
  <2>2. CASE pc[p] # "idle"
    <3>1. rows'[loc[p].id] = rows[loc[p].id] /\ Agrees(loc[p], pc[p])
      BY <1>1, <2>2, AtCall DEF Fits, IInv, TypeOK
    <3> QED
      BY <1>1, <3>1 DEF Agrees
  <2> QED
    BY <2>1, <2>2
<1>4. FreshClients'
  BY <1>1 DEF IInv, TypeOK, FreshClients
<1> QED
  BY <1>2, <1>3, <1>4 DEF IInv, AllAgree

LEMMA CrashStep == ASSUME IInv, Crash PROVE IInv'
<1>1. TypeOK'
  BY NoLocalType DEF IInv, TypeOK, Crash, Calls
<1>2. AllAgree' /\ FreshClients'
  BY DEF Crash, AllAgree, Agrees, FreshClients
<1> QED
  BY <1>1, <1>2 DEF IInv

-----------------------------------------------------------------------------

LEMMA InitIInv == ASSUME Init PROVE IInv
<1>1. TypeOK
  BY NoLocalType DEF Init, TypeOK, Calls
<1>2. AllAgree /\ FreshClients
  BY DEF Init, AllAgree, Agrees, FreshClients
<1> QED
  BY <1>1, <1>2 DEF IInv

LEMMA NextIInv == ASSUME IInv, [Next]_vars PROVE IInv'
<1>1. ASSUME NEW p \in Proc, Call(p) PROVE IInv'
  BY <1>1, GetStep, PutStep, ReadStep, WriteStep, EvictStep, EraseStep DEF Call
<1>2. ASSUME NEW p \in Proc, NEW id \in Id, Request(p, id) PROVE IInv'
  BY <1>2, ClientForStep, UpdateStep, DeleteStep DEF Request
<1>3. CASE UNCHANGED vars
  BY <1>3 DEF IInv, vars, TypeOK, AllAgree, Agrees, FreshClients
<1> QED
  BY <1>1, <1>2, <1>3, CreateStep, CrashStep DEF Next

\* The invariant that the other theorems follow from.
THEOREM InductiveInvariant == Spec => []IInv
<1>1. Init => IInv
  BY InitIInv
<1>2. IInv /\ [Next]_vars => IInv'
  BY NextIInv
<1> QED
  BY <1>1, <1>2, PTL DEF Spec

\* Every value keeps its type: in particular a client is only dialled from a row
\* that was there, and an id that was never given out has none.
THEOREM TypeCorrect == Spec => []TypeOK
<1>1. IInv => TypeOK
  BY DEF IInv
<1> QED
  BY <1>1, InductiveInvariant, PTL

\* A cached client is that of the row that is there, or about to be dropped,
\* unless a change of the row came between a fill's read and its store, between
\* the halves of a Delete, or was not answered.
THEOREM ClientsStayFresh == Spec => []FreshClients
<1>1. IInv => FreshClients
  BY DEF IInv
<1> QED
  BY <1>1, InductiveInvariant, PTL

\* No update without TLS material changes the material of a row, unless another
\* change of that row came between its read and its write.
THEOREM CertsAreKept == Spec => CertsKept
<1> DEFINE Keeps(id) ==
      rows[id] # Nil /\ rows'[id] # Nil =>
        \/ rows'[id].cert = rows[id].cert
        \/ \E p \in Proc : /\ pc[p] = "write" /\ loc[p].id = id
                           /\ \/ loc[p].given \in Cert \cap {rows'[id].cert}
                              \/ loc[p].late
<1>1. ASSUME IInv, [Next]_vars, NEW id \in Id PROVE Keeps(id)
  <2>1. CASE rows' = rows
    BY <2>1
  <2>2. ASSUME NEW p \in Proc, Write(p) PROVE Keeps(id)
    <3>1. pc[p] = "write" /\ (rows' = rows \/ rows' = Written(p))
      BY <2>2 DEF Write
    <3>2. PICK r \in Row \cup {Nil} : /\ Written(p) = [rows EXCEPT ![loc[p].id] = r]
                                      /\ r \in {rows[loc[p].id], loc[p].row}
      BY <1>1, <3>1, WrittenRow
    <3>3. CASE rows' = Written(p) /\ loc[p].id = id
      <4>1. rows'[id] \in {rows[id], loc[p].row}
        BY <1>1, <3>2, <3>3 DEF IInv, TypeOK
      <4>2. Agrees(loc[p], "write")
        BY <1>1, <3>1, AtCall
      <4> QED
        BY <3>1, <3>3, <4>1, <4>2 DEF Agrees
    <3>4. CASE rows' = Written(p) /\ loc[p].id # id
      <4>1. rows'[id] = rows[id]
        BY <1>1, <3>2, <3>4 DEF IInv, TypeOK
      <4> QED
        BY <4>1
    <3> QED
      BY <2>1, <3>1, <3>3, <3>4
  <2>3. ASSUME NEW p \in Proc, Erase(p) PROVE Keeps(id)
    BY <1>1, <2>3 DEF Erase, IInv, TypeOK
  <2>4. ASSUME NEW i \in Id, NEW row \in Row, Create(i, row) PROVE Keeps(id)
    BY <1>1, <2>4 DEF Create, IInv, TypeOK
  <2>5. CASE Crash \/ UNCHANGED vars
    BY <2>1, <2>5 DEF Crash, vars
  <2>6. ASSUME NEW p \in Proc,
               \/ Get(p) \/ Put(p) \/ Read(p) \/ Evict(p)
               \/ \E i \in Id : Request(p, i)
        PROVE  Keeps(id)
    BY <2>1, <2>6 DEF Get, Put, Read, Evict, Request, ClientFor, Update, Delete
  <2> QED
    BY <1>1, <2>2, <2>3, <2>4, <2>5, <2>6 DEF Next, Call
<1>2. IInv /\ [Next]_vars => [\A id \in Id : Keeps(id)]_vars
  BY <1>1
<1> QED
  BY <1>2, InductiveInvariant, PTL DEF Spec, CertsKept
=============================================================================
