------------------------------ MODULE Endpoints ------------------------------
(***************************************************************************)
(* The endpoint manager (internal/endpoint): the rows of the remote        *)
(* environments and the cache of Docker clients dialled from them.         *)
(*                                                                         *)
(* ClientFor reads the row between its two critical sections, and Update   *)
(* and Delete change the row outside of theirs, so a step is one call on   *)
(* the store or one critical section of Manager.mu.                        *)
(***************************************************************************)
CONSTANTS
  Proc,     \* the goroutines of requests
  Id,       \* ids of remote environments, never reused
  Host,     \* Docker hosts
  Cert,     \* TLS material
  NoCert,   \* none: in a row, or in the body of an update
  Nil,      \* no row, no client
  Faulty    \* may calls fail?

Row == [host : Host, cert : Cert \cup {NoCert}]
Client == Row     \* a client is the address and the material it was dialled with

ASSUME ConstantsAssumption ==
  /\ NoCert \notin Cert
  /\ Nil \notin Row
  /\ Faulty \in BOOLEAN

VARIABLES
  rows,     \* the endpoints table; Nil before and after the endpoint's life
  born,     \* the ids that were given out
  clients,  \* Manager.clients
  pc,       \* the call each goroutine makes next
  loc,      \* the local variables of each goroutine
  stale     \* history: ids whose client outlived the row it was dialled from

vars == <<rows, born, clients, pc, loc, stale>>

Calls == {"idle", "get", "put", "read", "write", "evict", "erase"}
Locals == [id : Id \cup {Nil},
           row : Row \cup {Nil},            \* read by a fill; written by an update
           given : Cert \cup {NoCert},      \* the material an update was sent
           late : BOOLEAN]                  \* history: the row changed since it was read
NoLocal == [id |-> Nil, row |-> Nil, given |-> NoCert, late |-> FALSE]

TypeOK ==
  /\ rows \in [Id -> Row \cup {Nil}]
  /\ born \in SUBSET Id
  /\ clients \in [Id -> Client \cup {Nil}]
  /\ pc \in [Proc -> Calls]
  /\ loc \in [Proc -> Locals]
  /\ stale \in SUBSET Id
  /\ \A id \in Id \ born : rows[id] = Nil /\ clients[id] = Nil
  /\ \A p \in Proc : /\ pc[p] # "idle" => loc[p].id \in born
                     /\ pc[p] \in {"put", "read", "write"} => loc[p].row \in Row

-----------------------------------------------------------------------------

Step(p, l, at) ==
  /\ loc' = [loc EXCEPT ![p] = l]
  /\ pc' = [pc EXCEPT ![p] = at]
Answer(p) == Step(p, NoLocal, "idle")

Begin(p, id, row, given, at) ==
  /\ pc[p] = "idle"
  /\ id \in born                    \* clients know the ids they were shown
  /\ Step(p, [NoLocal EXCEPT !.id = id, !.row = row, !.given = given], at)

\* p makes the call `at` next, and whoever holds a row of id that it read before
\* now holds an old one.
StepLate(p, l, at, id) ==
  /\ loc' = [q \in Proc |->
        IF q = p THEN l
        ELSE IF loc[q].id = id /\ pc[q] \in {"put", "write"}
        THEN [loc[q] EXCEPT !.late = TRUE] ELSE loc[q]]
  /\ pc' = [pc EXCEPT ![p] = at]

(***************************************************************************)
(* ClientFor, which every request to a remote environment begins with.     *)
(***************************************************************************)

\* A cached client is used as it is.
ClientFor(p, id) ==
  /\ clients[id] = Nil
  /\ Begin(p, id, Nil, NoCert, "get")
  /\ UNCHANGED <<rows, born, clients, stale>>

\* Mutant: the error of GetEndpoint is ignored.
GetIgnored(p) ==
  /\ pc[p] = "get"
  /\ Step(p, [loc[p] EXCEPT !.row = rows[loc[p].id]], "put")
  /\ UNCHANGED <<rows, born, clients, stale>>

\* GetEndpoint and the dial; a missing row or a failing call is an error.
Get(p) ==
  LET row == rows[loc[p].id] IN
  /\ pc[p] = "get"
  /\ \/ row # Nil /\ Step(p, [loc[p] EXCEPT !.row = row], "put")
     \/ (Faulty \/ row = Nil) /\ Answer(p)
  /\ UNCHANGED <<rows, born, clients, stale>>

\* Keep the client, over whatever another goroutine keeps meanwhile.
Put(p) ==
  LET id == loc[p].id IN
  /\ pc[p] = "put"
  /\ clients' = [clients EXCEPT ![id] = loc[p].row]
  /\ stale' = IF loc[p].late THEN stale \cup {id} ELSE stale \ {id}
  /\ Answer(p)
  /\ UNCHANGED <<rows, born>>

(***************************************************************************)
(* Create, Update and Delete.                                              *)
(***************************************************************************)

Create(id, row) ==
  /\ id \notin born
  /\ born' = born \cup {id}
  /\ rows' = [rows EXCEPT ![id] = row]
  /\ UNCHANGED <<clients, pc, loc, stale>>

\* The body names the host, and may bring new TLS material.
Update(p, id, host, given) ==
  /\ Begin(p, id, [host |-> host, cert |-> given], given, "read")
  /\ UNCHANGED <<rows, born, clients, stale>>

\* Mutant: an update without material stores none.
KeptNone(id, given) == given
\* The material an update stores: the new one, or else the one of the row.
Kept(id, given) == IF given # NoCert THEN given ELSE rows[id].cert

Read(p) ==
  LET id == loc[p].id IN
  /\ pc[p] = "read"
  /\ \/ /\ rows[id] # Nil
        /\ Step(p, [loc[p] EXCEPT !.row.cert = Kept(id, loc[p].given)], "write")
     \/ (Faulty \/ rows[id] = Nil) /\ Answer(p)
  /\ UNCHANGED <<rows, born, clients, stale>>

\* The UPDATE statement writes the whole row; without one it changes nothing and
\* is no error.
Written(p) ==
  LET id == loc[p].id IN
  IF rows[id] = Nil THEN rows ELSE [rows EXCEPT ![id] = loc[p].row]

\* Mutant: the cached client is not dropped.
WriteKeepsClient(p) ==
  /\ pc[p] = "write"
  /\ rows' = Written(p)
  /\ StepLate(p, NoLocal, "idle", loc[p].id)
  /\ UNCHANGED <<born, clients, stale>>

Write(p) ==
  LET id == loc[p].id IN
  /\ pc[p] = "write"
  /\ \/ /\ rows' = Written(p)
        /\ StepLate(p, loc[p], "evict", id)
        /\ UNCHANGED stale
     \/ /\ Faulty                 \* committed, but the answer was lost
        /\ rows' = Written(p)
        /\ StepLate(p, NoLocal, "idle", id)
        /\ stale' = IF clients[id] # Nil THEN stale \cup {id} ELSE stale
     \/ Faulty /\ Answer(p) /\ UNCHANGED <<rows, stale>>
  /\ UNCHANGED <<born, clients>>

Evict(p) ==
  LET id == loc[p].id IN
  /\ pc[p] = "evict"
  /\ clients' = [clients EXCEPT ![id] = Nil]
  /\ stale' = stale \ {id}
  /\ Answer(p)
  /\ UNCHANGED <<rows, born>>

\* Delete drops the client first and the row second.
Delete(p, id) ==
  /\ Begin(p, id, Nil, NoCert, "erase")
  /\ clients' = [clients EXCEPT ![id] = Nil]
  /\ stale' = stale \ {id}
  /\ UNCHANGED <<rows, born>>

\* A client that another request cached in between stays.
Erase(p) ==
  LET id == loc[p].id IN
  /\ pc[p] = "erase"
  /\ \/ /\ rows' = [rows EXCEPT ![id] = Nil]
        /\ stale' = IF clients[id] # Nil THEN stale \cup {id} ELSE stale
        /\ StepLate(p, NoLocal, "idle", id)
     \/ Faulty /\ Answer(p) /\ UNCHANGED <<rows, stale>>
  /\ UNCHANGED <<born, clients>>

\* Clients and requests are lost in a restart.
Crash ==
  /\ clients' = [id \in Id |-> Nil]
  /\ pc' = [p \in Proc |-> "idle"]
  /\ loc' = [p \in Proc |-> NoLocal]
  /\ stale' = {}
  /\ UNCHANGED <<rows, born>>

-----------------------------------------------------------------------------

Init ==
  /\ rows = [id \in Id |-> Nil]
  /\ born = {}
  /\ clients = [id \in Id |-> Nil]
  /\ pc = [p \in Proc |-> "idle"]
  /\ loc = [p \in Proc |-> NoLocal]
  /\ stale = {}

Request(p, id) ==
  \/ ClientFor(p, id)
  \/ \E host \in Host, given \in Cert \cup {NoCert} : Update(p, id, host, given)
  \/ Delete(p, id)

Call(p) == Get(p) \/ Put(p) \/ Read(p) \/ Write(p) \/ Evict(p) \/ Erase(p)

Next ==
  \/ \E p \in Proc : Call(p) \/ \E id \in Id : Request(p, id)
  \/ \E id \in Id, row \in Row : Create(id, row)
  \/ Crash

Spec == Init /\ [][Next]_vars

-----------------------------------------------------------------------------
(***************************************************************************)
(* Properties.                                                             *)
(***************************************************************************)

\* The cached client of an environment was dialled from the row that is there,
\* or an update is about to drop it; except where a fill that had read the row
\* before a change kept its client after it, a fill came between the two halves
\* of a Delete, or the answer of an UPDATE was lost (endpoint.go: Update "drops
\* the cached client so the next request rebuilds the connection").
FreshClients ==
  \A id \in Id \ stale :
    \/ clients[id] \in {Nil, rows[id]}
    \/ \E p \in Proc : pc[p] = "evict" /\ loc[p].id = id

\* The TLS material of an environment changes only to what an update brought, or
\* by an update without material that another change of the row has overtaken
\* (endpoint.go: "Empty cert material preserves the existing certs").
CertsKept ==
  [][\A id \in Id : rows[id] # Nil /\ rows'[id] # Nil =>
       \/ rows'[id].cert = rows[id].cert
       \/ \E p \in Proc : /\ pc[p] = "write" /\ loc[p].id = id
                          /\ \/ loc[p].given \in Cert \cap {rows'[id].cert}
                             \/ loc[p].late]_vars
=============================================================================
