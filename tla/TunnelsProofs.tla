----------------------------- MODULE TunnelsProofs -----------------------------
(***************************************************************************)
(* Proofs about Tunnels, for every set of requests, tunnels, addresses and *)
(* connections, with failing calls, connections that drop and restarts.    *)
(*                                                                         *)
(* Reachable and RunningIsReal are not inductive: that Store overwrites no *)
(* live connection unless its own was lost takes that a remote port has    *)
(* one listener, and that Stop and Close touch nobody's connection takes   *)
(* that a connection has one holder.  FlagTold needs to know what is so    *)
(* while requests on a tunnel are under way.                               *)
(***************************************************************************)
EXTENDS Tunnels, TLAPS

Holds(p) == pc[p] \in {"listen", "store"}

\* A connection that a start holds is its own and in no entry yet.
Own(p, c) ==
  /\ c \in Conn
  /\ conn[c].t = loc[p].t
  /\ ~ conn[c].done
  /\ pc[p] = "listen" => conn[c].st \in {"dialled", "lost"}
  /\ pc[p] = "store" => conn[c].st \in {"bound", "lost"}
  /\ \A t \in Tunnel : running[t] # c

LocalsFit ==
  \A p \in Proc : /\ pc[p] # "idle" => loc[p].t \in Tunnel
                  /\ Holds(p) => Own(p, loc[p].c)

HeldByOne ==
  \A p, q \in Proc : Holds(p) /\ Holds(q) /\ loc[p].c = loc[q].c => p = q

\* The remote host gives a port to one listener.
PortsExclusive ==
  \A c, d \in Conn :
    /\ conn[c].st = "bound" /\ conn[d].st = "bound"
    /\ Address[conn[c].t] = Address[conn[d].t]
    => c = d

ConnInv == LocalsFit /\ HeldByOne /\ PortsExclusive /\ Reachable /\ RunningIsReal

Begins(p, t) == loc[p].t = t /\ pc[p] \in Starting
Ends(p, t) == loc[p].t = t /\ pc[p] \in Stopping

\* An id that was never given out has no requests.
UnbornIdle ==
  \A t \in Tunnel : rows[t] = "unborn" =>
    running[t] = Nil /\ \A p \in Proc : ~ Begins(p, t) /\ ~ Ends(p, t)

\* The flag follows the tunnel: while it stops it does not run; while it starts
\* and runs, the flag is on or a start is about to put it on.
InStep(t) ==
  /\ (\E p \in Proc : Ends(p, t)) =>
        running[t] = Nil /\ \A p \in Proc : ~ Begins(p, t)
  /\ (\E p \in Proc : Begins(p, t)) => Exists(t)
  /\ (\A p \in Proc : ~ Ends(p, t)) =>
        /\ rows[t] = "on" => running[t] # Nil
        /\ running[t] # Nil =>
             rows[t] = "on" \/ \E p \in Proc : Begins(p, t) /\ pc[p] = "enable"
  /\ \A p \in Proc : Begins(p, t) /\ pc[p] = "enable" => running[t] # Nil

FlagInv == UnbornIdle /\ \A t \in Tunnel \ blurred : InStep(t)

IInv == TypeOK /\ ConnInv /\ FlagInv

-----------------------------------------------------------------------------
(***************************************************************************)
(* One step of a goroutine.                                                *)
(***************************************************************************)

Calls == {"idle"} \cup Starting \cup Stopping

LEMMA NoLocalType == NoLocal \in Locals /\ NoLocal.c = Nil
BY DEF NoLocal, Locals

LEMMA LocalsEdited ==
  ASSUME NEW l \in Locals, NEW c \in Conn \cup {Nil}, NEW t \in Tunnel
  PROVE  /\ [l EXCEPT !.c = c] \in Locals
         /\ [l EXCEPT !.c = c].t = l.t /\ [l EXCEPT !.c = c].c = c
         /\ [NoLocal EXCEPT !.t = t] \in Locals
         /\ [NoLocal EXCEPT !.t = t].t = t
BY DEF Locals, NoLocal

LEMMA Stepped ==
  ASSUME TypeOK, NEW p \in Proc, NEW l \in Locals, NEW at \in Calls, Step(p, l, at)
  PROVE  /\ pc' \in [Proc -> Calls] /\ loc' \in [Proc -> Locals]
         /\ pc'[p] = at /\ loc'[p] = l
         /\ \A q \in Proc \ {p} : pc'[q] = pc[q] /\ loc'[q] = loc[q]
BY DEF TypeOK, Step, Calls

\* The types of the fields of a connection, and of an edited one.
LEMMA ConnectionType ==
  /\ FreeConn \in Connection /\ FreeConn.st = "free" /\ ~ FreeConn.done
  /\ \A t \in Tunnel : LET c == [FreeConn EXCEPT !.st = "dialled", !.t = t] IN
        c \in Connection /\ c.st = "dialled" /\ c.t = t /\ ~ c.done
  /\ \A c \in Connection :
        /\ c.st \in {"free", "dialled", "bound", "lost"}
        /\ c.st # "free" => c.t \in Tunnel
        /\ c.done => c.st # "free"
        /\ c.st # "free" => \A st \in {"bound", "lost"} :
             /\ [c EXCEPT !.st = st] \in Connection
             /\ [c EXCEPT !.st = st].st = st
             /\ [c EXCEPT !.st = st].t = c.t
             /\ [c EXCEPT !.st = st].done = c.done
        /\ c.st # "free" =>
             /\ [c EXCEPT !.done = TRUE] \in Connection
             /\ [c EXCEPT !.done = TRUE].done
             /\ [c EXCEPT !.done = TRUE].t = c.t
             /\ [c EXCEPT !.done = TRUE].st = c.st
BY DEF Connection, FreeConn

LEMMA Replaced ==
  ASSUME TypeOK, NEW c \in Conn, NEW n \in Connection, conn' = [conn EXCEPT ![c] = n]
  PROVE  /\ conn' \in [Conn -> Connection] /\ conn'[c] = n
         /\ \A d \in Conn \ {c} : conn'[d] = conn[d]
BY DEF TypeOK

-----------------------------------------------------------------------------
(***************************************************************************)
(* Connections: each action keeps ConnInv.                                 *)
(***************************************************************************)

\* What a goroutine amid a call knows.
LEMMA AtCall ==
  ASSUME TypeOK, LocalsFit, NEW p \in Proc, pc[p] # "idle"
  PROVE  /\ loc[p] \in Locals /\ loc[p].t \in Tunnel
         /\ Holds(p) => Own(p, loc[p].c)
BY DEF TypeOK, LocalsFit

\* A step of a goroutine that holds no connection, before and after.
LEMMA ConnSame ==
  ASSUME TypeOK, ConnInv, NEW p \in Proc, ~ Holds(p),
         UNCHANGED <<running, conn, shadowed>>,
         NEW l \in Locals, NEW at \in Calls \ {"listen", "store"}, Step(p, l, at),
         at # "idle" => l.t \in Tunnel
  PROVE  ConnInv'
<1>1. /\ pc'[p] = at /\ loc'[p] = l
      /\ \A q \in Proc \ {p} : pc'[q] = pc[q] /\ loc'[q] = loc[q]
  BY Stepped
<1>2. ~ Holds(p)'
  BY <1>1 DEF Holds
<1>3. \A q \in Proc : Holds(q)' => q # p /\ Holds(q) /\ loc'[q] = loc[q] /\ pc'[q] = pc[q]
  BY <1>1, <1>2 DEF Holds
<1>4. \A q \in Proc : Holds(q) => Holds(q)' /\ loc'[q] = loc[q]
  BY <1>1 DEF Holds
<1>5. LocalsFit'
  BY <1>1, <1>3 DEF ConnInv, LocalsFit, Own
<1>6. HeldByOne'
  BY <1>3 DEF ConnInv, HeldByOne
<1>7. \A c : Held(c) => Held(c)'
  BY <1>4 DEF Held, Holds
<1>8. Reachable'
  BY <1>7 DEF ConnInv, Reachable
<1> QED
  BY <1>5, <1>6, <1>8 DEF ConnInv, PortsExclusive, RunningIsReal

LEMMA DialConn ==
  ASSUME TypeOK, ConnInv, NEW p \in Proc, pc[p] = "dial",
         NEW c \in Unused,
         conn' = [conn EXCEPT ![c] = [FreeConn EXCEPT !.st = "dialled", !.t = loc[p].t]],
         shadowed' = shadowed \ {c},
         Step(p, [loc[p] EXCEPT !.c = c], "listen"),
         UNCHANGED running
  PROVE  ConnInv' /\ conn' \in [Conn -> Connection] /\ loc'[p].t = loc[p].t
<1> DEFINE t == loc[p].t
           l == [loc[p] EXCEPT !.c = c]
<1>1. /\ t \in Tunnel /\ loc[p] \in Locals
  BY AtCall DEF ConnInv
<1>2. /\ c \in Conn /\ conn[c].st # "bound"
      /\ \A u \in Tunnel : running[u] # c
      /\ \A q \in Proc : loc[q].c # c
  BY DEF Unused, Referred
<1>3. l \in Locals /\ l.t = t /\ l.c = c
  BY <1>1, <1>2, LocalsEdited
<1>4. /\ pc'[p] = "listen" /\ loc'[p] = l
      /\ \A q \in Proc \ {p} : pc'[q] = pc[q] /\ loc'[q] = loc[q]
  <2> HIDE DEF l
  <2>1. Step(p, l, "listen")
    BY DEF l
  <2> QED
    BY <2>1, <1>3, Stepped DEF Calls, Starting
<1>5. /\ conn' \in [Conn -> Connection]
      /\ conn'[c].st = "dialled" /\ conn'[c].t = t /\ ~ conn'[c].done
      /\ \A d \in Conn \ {c} : conn'[d] = conn[d]
  <2> DEFINE n == [FreeConn EXCEPT !.st = "dialled", !.t = t]
  <2>1. n \in Connection /\ n.st = "dialled" /\ n.t = t /\ ~ n.done
    BY <1>1, ConnectionType
  <2>2. conn' = [conn EXCEPT ![c] = n]
    OBVIOUS
  <2> HIDE DEF n
  <2> QED
    BY <1>2, <2>1, <2>2, Replaced
<1> HIDE DEF l, t
<1>6. LocalsFit'
  <2>1. pc'[p] # "idle" /\ loc'[p].t \in Tunnel /\ loc'[p].c = c /\ Own(p, c)'
    BY <1>1, <1>2, <1>3, <1>4, <1>5 DEF Own, t
  <2>2. ASSUME NEW q \in Proc \ {p} PROVE (pc[q] # "idle" => loc'[q].t \in Tunnel)
                                          /\ (Holds(q)' => Own(q, loc[q].c)')
    <3>1. Holds(q)' => Own(q, loc[q].c)
      BY <1>4 DEF ConnInv, LocalsFit, Holds
    <3>2. Own(q, loc[q].c) => Own(q, loc[q].c)'
      BY <1>2, <1>4, <1>5 DEF Own
    <3> QED
      BY <3>1, <3>2, <1>4 DEF ConnInv, LocalsFit
  <2> QED
    BY <2>1, <2>2, <1>4 DEF LocalsFit, Holds
<1>7. HeldByOne'
  BY <1>2, <1>3, <1>4 DEF ConnInv, HeldByOne, Holds
<1>8. PortsExclusive'
  BY <1>5 DEF ConnInv, PortsExclusive
<1>9. Reachable'
  <2>1. Held(c)'
    BY <1>3, <1>4 DEF Held
  <2>2. \A d \in Conn \ {c} : Held(d) => Held(d)'
    BY <1>4 DEF Held
  <2> QED
    BY <2>1, <2>2, <1>5 DEF ConnInv, Reachable
<1>10. RunningIsReal'
  BY <1>2, <1>5 DEF ConnInv, RunningIsReal, TypeOK
<1> QED
  BY <1>3, <1>4, <1>5, <1>6, <1>7, <1>8, <1>9, <1>10 DEF ConnInv, t

LEMMA BindConn ==
  ASSUME TypeOK, ConnInv, NEW p \in Proc, pc[p] = "listen", Bind(p),
         UNCHANGED <<running, shadowed>>
  PROVE  ConnInv' /\ conn' \in [Conn -> Connection]
<1>1. PICK c : c = loc[p].c
  OBVIOUS
<1>2. loc[p] \in Locals /\ loc[p].t \in Tunnel /\ Own(p, c)
  BY <1>1, AtCall DEF ConnInv, Holds
<1>3. /\ pc'[p] = "store" /\ loc'[p] = loc[p]
      /\ \A q \in Proc \ {p} : pc'[q] = pc[q] /\ loc'[q] = loc[q]
  BY <1>2, Stepped DEF Bind, Calls, Starting
<1>4. /\ conn' \in [Conn -> Connection]
      /\ conn'[c].st = "bound" /\ conn'[c].t = loc[p].t /\ ~ conn'[c].done
      /\ \A d \in Conn \ {c} : conn'[d] = conn[d]
  <2> DEFINE n == [conn[c] EXCEPT !.st = "bound"]
  <2>1. c \in Conn /\ conn[c] \in Connection /\ conn[c].st = "dialled"
    BY <1>1, <1>2 DEF TypeOK, Own, Bind
  <2>2. n \in Connection /\ n.st = "bound" /\ n.t = loc[p].t /\ ~ n.done
    BY <1>2, <2>1, ConnectionType DEF Own
  <2>3. conn' = [conn EXCEPT ![c] = n]
    BY <1>1 DEF Bind
  <2> HIDE DEF n
  <2> QED
    BY <2>1, <2>2, <2>3, Replaced
<1>5. \A q \in Proc \ {p} : Holds(q) => loc[q].c # c
  BY <1>1 DEF ConnInv, HeldByOne, Holds
<1>6. LocalsFit'
  <2>1. Own(p, c)'
    BY <1>2, <1>3, <1>4 DEF Own
  <2>2. ASSUME NEW q \in Proc \ {p}, Holds(q)' PROVE Own(q, loc[q].c)'
    <3>1. Holds(q) /\ Own(q, loc[q].c)
      BY <2>2, <1>3 DEF ConnInv, LocalsFit, Holds
    <3> QED
      BY <3>1, <1>3, <1>4, <1>5 DEF Own
  <2> QED
    BY <2>1, <2>2, <1>1, <1>2, <1>3 DEF ConnInv, LocalsFit
<1>7. HeldByOne'
  BY <1>3 DEF ConnInv, HeldByOne, Holds
<1>8. PortsExclusive'
  <2>1. \A d \in Conn \ {c} : conn[d].st = "bound" => Address[conn[d].t] # Address[loc[p].t]
    BY DEF Bind, Taken
  <2> QED
    BY <1>4, <2>1 DEF ConnInv, PortsExclusive
<1>9. Reachable'
  <2>1. Held(c)' /\ \A d \in Conn : Held(d) => Held(d)'
    BY <1>1, <1>3 DEF Held
  <2> QED
    BY <2>1, <1>4 DEF ConnInv, Reachable
<1>10. RunningIsReal'
  BY <1>2, <1>4 DEF ConnInv, RunningIsReal, Own, TypeOK
<1> QED
  BY <1>4, <1>6, <1>7, <1>8, <1>9, <1>10 DEF ConnInv

LEMMA NotBoundConn ==
  ASSUME TypeOK, ConnInv, NEW p \in Proc, pc[p] = "listen", Answer(p),
         conn' = [conn EXCEPT ![loc[p].c] = FreeConn],
         UNCHANGED <<running, shadowed>>
  PROVE  ConnInv' /\ conn' \in [Conn -> Connection]
<1>1. PICK c : c = loc[p].c
  OBVIOUS
<1>2. Own(p, c)
  BY <1>1, AtCall DEF ConnInv, Holds
<1>3. /\ pc'[p] = "idle"
      /\ \A q \in Proc \ {p} : pc'[q] = pc[q] /\ loc'[q] = loc[q]
  BY NoLocalType, Stepped DEF Answer, Calls
<1>4. /\ conn' \in [Conn -> Connection] /\ conn'[c].st = "free"
      /\ \A d \in Conn \ {c} : conn'[d] = conn[d]
  BY <1>1, <1>2, ConnectionType, Replaced DEF Own
<1>5. \A q \in Proc \ {p} : Holds(q) => loc[q].c # c
  BY <1>1 DEF ConnInv, HeldByOne, Holds
<1>6. LocalsFit'
  <2>1. ASSUME NEW q \in Proc \ {p}, Holds(q)' PROVE Own(q, loc[q].c)'
    <3>1. Holds(q) /\ Own(q, loc[q].c)
      BY <2>1, <1>3 DEF ConnInv, LocalsFit, Holds
    <3> QED
      BY <3>1, <1>3, <1>4, <1>5 DEF Own
  <2> QED
    BY <2>1, <1>3 DEF ConnInv, LocalsFit, Holds
<1>7. HeldByOne'
  BY <1>3 DEF ConnInv, HeldByOne, Holds
<1>8. PortsExclusive'
  BY <1>4 DEF ConnInv, PortsExclusive
<1>9. Reachable'
  <2>1. \A d \in Conn \ {c} : Held(d) => Held(d)'
    BY <1>1, <1>3 DEF Held
  <2> QED
    BY <2>1, <1>4 DEF ConnInv, Reachable
<1>10. RunningIsReal'
  BY <1>2, <1>4 DEF ConnInv, RunningIsReal, Own, TypeOK
<1> QED
  BY <1>4, <1>6, <1>7, <1>8, <1>9, <1>10 DEF ConnInv

\* Only a lost connection can take the place of a live one: both would listen on
\* the tunnel's port.
LEMMA StoreConn ==
  ASSUME TypeOK, ConnInv, NEW p \in Proc, Store(p)
  PROVE  /\ ConnInv' /\ running' \in [Tunnel -> Conn \cup {Nil}]
         /\ shadowed' \in SUBSET Conn
         /\ loc'[p].t = loc[p].t /\ running'[loc[p].t] # Nil
<1>1. PICK c, t : c = loc[p].c /\ t = loc[p].t
  OBVIOUS
<1>2. /\ pc[p] = "store" /\ running' = [running EXCEPT ![t] = c]
      /\ shadowed' = IF conn[c].st = "lost" THEN shadowed \cup ({running[t]} \ {Nil})
                                           ELSE shadowed
      /\ Step(p, [loc[p] EXCEPT !.c = Nil], "enable")
      /\ UNCHANGED <<rows, conn, blurred>>
  BY <1>1 DEF Store
<1>3. loc[p] \in Locals /\ t \in Tunnel /\ Own(p, c)
  BY <1>1, <1>2, AtCall DEF ConnInv, Holds
<1>4. /\ pc'[p] = "enable" /\ loc'[p].t = t
      /\ \A q \in Proc \ {p} : pc'[q] = pc[q] /\ loc'[q] = loc[q]
  <2>1. PICK l : l = [loc[p] EXCEPT !.c = Nil]
    OBVIOUS
  <2>2. l \in Locals /\ l.t = t
    BY <1>1, <1>3, <2>1, LocalsEdited
  <2> QED
    BY <1>2, <2>1, <2>2, Stepped DEF Calls, Starting
<1>5. /\ running' \in [Tunnel -> Conn \cup {Nil}] /\ running'[t] = c
      /\ \A u \in Tunnel \ {t} : running'[u] = running[u]
      /\ running[t] \in Conn \cup {Nil} /\ shadowed' \in SUBSET Conn
  BY <1>2, <1>3 DEF TypeOK, Own
<1>6. \A q \in Proc \ {p} : Holds(q) => loc[q].c # c
  BY <1>1, <1>2 DEF ConnInv, HeldByOne, Holds
<1>7. LocalsFit'
  <2>1. ASSUME NEW q \in Proc \ {p}, Holds(q)' PROVE Own(q, loc[q].c)'
    <3>1. Holds(q) /\ Own(q, loc[q].c)
      BY <2>1, <1>4 DEF ConnInv, LocalsFit, Holds
    <3> QED
      BY <3>1, <1>2, <1>4, <1>5, <1>6 DEF Own
  <2> QED
    BY <2>1, <1>3, <1>4 DEF ConnInv, LocalsFit, Holds
<1>8. HeldByOne'
  BY <1>4 DEF ConnInv, HeldByOne, Holds
<1>9. PortsExclusive'
  BY <1>2 DEF ConnInv, PortsExclusive
<1>10. Reachable'
  <2> SUFFICES ASSUME NEW d \in Conn, conn[d].st \in {"dialled", "bound"}
               PROVE  Held(d)' \/ running'[conn[d].t] = d \/ conn[d].done \/ d \in shadowed'
    BY <1>2 DEF Reachable
  <2>1. CASE d = c
    BY <2>1, <1>3, <1>5, <1>1 DEF Own
  <2>2. CASE d # c /\ Held(d)
    BY <2>2, <1>1, <1>4 DEF Held
  <2>3. CASE d # c /\ running[conn[d].t] = d
    <3>1. CASE conn[d].t = t
      <4>1. conn[d].st = "bound" /\ running[t] = d /\ d # Nil
        BY <2>3, <3>1, <1>3, ConstantsAssumption DEF ConnInv, RunningIsReal
      <4>2. conn[c].st # "bound"
        BY <4>1, <3>1, <2>3, <1>1, <1>3 DEF ConnInv, PortsExclusive, Own
      <4>3. conn[c].st = "lost"
        BY <4>2, <1>2, <1>3 DEF Own
      <4> QED
        BY <4>1, <4>3, <1>2
    <3>2. CASE conn[d].t # t
      <4>1. conn[d].t \in Tunnel
        <5>1. conn[d] \in Connection /\ conn[d].st # "free"
          BY DEF TypeOK
        <5> QED
          BY <5>1, ConnectionType
      <4> QED
        BY <4>1, <3>2, <2>3, <1>5
    <3> QED
      BY <3>1, <3>2
  <2>4. CASE conn[d].done \/ d \in shadowed
    BY <2>4, <1>2
  <2> QED
    BY <2>1, <2>2, <2>3, <2>4 DEF ConnInv, Reachable
<1>11. RunningIsReal'
  BY <1>1, <1>2, <1>3, <1>5 DEF ConnInv, RunningIsReal, Own
<1> QED
  BY <1>1, <1>3, <1>4, <1>5, <1>7, <1>8, <1>9, <1>10, <1>11, ConstantsAssumption DEF ConnInv, Own

\* A stop finds the tunnel's connection and nobody else's.
LEMMA StopConn ==
  ASSUME TypeOK, ConnInv, NEW p \in Proc, NEW t \in Tunnel, NEW at \in Stopping,
         Begun(p, t, at), Stop(t)
  PROVE  /\ ConnInv' /\ running' \in [Tunnel -> Conn \cup {Nil}] /\ running'[t] = Nil
         /\ conn' \in [Conn -> Connection]
         /\ \A u \in Tunnel \ {t} : running'[u] = running[u]
<1>1. /\ pc[p] = "idle" /\ at \in Calls \ {"listen", "store"}
      /\ Step(p, [NoLocal EXCEPT !.t = t], at) /\ UNCHANGED shadowed
  BY DEF Begun, Calls, Stopping
<1>2. PICK l : l = [NoLocal EXCEPT !.t = t]
  OBVIOUS
<1>3. l \in Locals /\ l.t = t
  BY <1>2, NoLocalType, LocalsEdited
<1>4. /\ pc'[p] = at /\ loc'[p] = l
      /\ \A q \in Proc \ {p} : pc'[q] = pc[q] /\ loc'[q] = loc[q]
  BY <1>1, <1>2, <1>3, Stepped
<1>5. /\ running' \in [Tunnel -> Conn \cup {Nil}] /\ running'[t] = Nil
      /\ \A u \in Tunnel \ {t} : running'[u] = running[u]
  BY DEF Stop, TypeOK
<1>6. CASE running[t] = Nil
  <2>1. running' = running /\ conn' = conn
    BY <1>6, <1>5 DEF Stop, TypeOK
  <2>2. ConnInv'
    BY <2>1, <1>1, <1>2, <1>3, ConnSame DEF Holds
  <2> QED
    BY <2>1, <2>2, <1>5 DEF TypeOK
<1>7. CASE running[t] # Nil
  <2>1. PICK d \in Conn : d = running[t]
    BY <1>7 DEF TypeOK
  <2>2. conn[d].t = t /\ conn[d].st \in {"bound", "lost"} /\ ~ conn[d].done
    BY <1>7, <2>1 DEF ConnInv, RunningIsReal
  <2>3. /\ conn' \in [Conn -> Connection]
        /\ conn'[d].done /\ conn'[d].t = t /\ conn'[d].st = conn[d].st
        /\ \A e \in Conn \ {d} : conn'[e] = conn[e]
    <3> DEFINE n == [conn[d] EXCEPT !.done = TRUE]
    <3>1. conn[d] \in Connection /\ conn[d].st # "free"
      BY <2>2 DEF TypeOK
    <3>2. n \in Connection /\ n.done /\ n.t = t /\ n.st = conn[d].st
      BY <2>2, <3>1, ConnectionType
    <3>3. conn' = [conn EXCEPT ![d] = n]
      BY <1>7, <2>1 DEF Stop, Cancelled
    <3> HIDE DEF n
    <3> QED
      BY <3>2, <3>3, Replaced
  <2>4. LocalsFit'
    <3>1. ASSUME NEW q \in Proc, Holds(q)' PROVE Own(q, loc[q].c)'
      <4>1. q # p /\ Holds(q) /\ Own(q, loc[q].c) /\ loc[q].c # d
        BY <3>1, <1>1, <1>4, <2>1 DEF ConnInv, LocalsFit, Holds, Own
      <4> QED
        BY <4>1, <1>4, <1>5, <2>3, ConstantsAssumption DEF Own
    <3> QED
      BY <3>1, <1>3, <1>4 DEF ConnInv, LocalsFit
  <2>5. HeldByOne'
    BY <1>1, <1>4 DEF ConnInv, HeldByOne, Holds
  <2>6. PortsExclusive'
    BY <2>2, <2>3 DEF ConnInv, PortsExclusive
  <2>7. Reachable'
    <3>1. \A e \in Conn : Held(e) => Held(e)'
      BY <1>1, <1>4 DEF Held
    <3>2. ASSUME NEW e \in Conn \ {d}, conn[e].st \in {"dialled", "bound"},
                 running[conn[e].t] = e
          PROVE  running'[conn[e].t] = e
      <4>1. conn[e] \in Connection /\ conn[e].st # "free"
        BY <3>2 DEF TypeOK
      <4>2. conn[e].t \in Tunnel
        BY <4>1, ConnectionType
      <4> QED
        BY <4>2, <3>2, <2>1, <1>5
    <3> QED
      BY <3>1, <3>2, <2>3, <1>1 DEF ConnInv, Reachable
  <2>8. RunningIsReal'
    <3> SUFFICES ASSUME NEW u \in Tunnel, running'[u] # Nil
                 PROVE  LET c == conn'[running'[u]] IN
                          c.t = u /\ c.st \in {"bound", "lost"} /\ ~ c.done
      BY DEF RunningIsReal
    <3>1. u # t /\ running'[u] = running[u] /\ running[u] \in Conn
      BY <1>5 DEF TypeOK
    <3>2. running[u] # d
      BY <3>1, <2>2 DEF ConnInv, RunningIsReal
    <3> QED
      BY <3>1, <3>2, <2>3 DEF ConnInv, RunningIsReal
  <2> QED
    BY <1>5, <2>3, <2>4, <2>5, <2>6, <2>7, <2>8 DEF ConnInv
<1> QED
  BY <1>6, <1>7

\* Close and Lose change a connection and no goroutine.
LEMMA CloseConn ==
  ASSUME TypeOK, ConnInv, NEW c \in Conn, Close(c)
  PROVE  ConnInv' /\ conn' \in [Conn -> Connection] /\ shadowed' \in SUBSET Conn
<1>1. /\ conn[c].done /\ shadowed' = shadowed \ {c}
      /\ UNCHANGED <<rows, running, pc, loc, blurred>>
  BY DEF Close
<1>2. /\ conn' \in [Conn -> Connection] /\ conn'[c].st = "free"
      /\ \A d \in Conn \ {c} : conn'[d] = conn[d]
  <2>1. conn' = [conn EXCEPT ![c] = FreeConn]
    BY DEF Close
  <2>2. FreeConn \in Connection /\ FreeConn.st = "free"
    BY ConnectionType
  <2> QED
    BY <2>1, <2>2, Replaced
<1>3. LocalsFit'
  BY <1>1, <1>2 DEF ConnInv, LocalsFit, Own, Holds
<1>4. Reachable'
  BY <1>1, <1>2 DEF ConnInv, Reachable, Held
<1>5. RunningIsReal'
  BY <1>1, <1>2 DEF ConnInv, RunningIsReal, TypeOK
<1> QED
  BY <1>1, <1>2, <1>3, <1>4, <1>5 DEF ConnInv, HeldByOne, Holds, PortsExclusive, TypeOK

LEMMA LoseConn ==
  ASSUME TypeOK, ConnInv, NEW c \in Conn, Lose(c)
  PROVE  ConnInv' /\ conn' \in [Conn -> Connection]
<1>1. /\ conn[c].st \in {"dialled", "bound"}
      /\ UNCHANGED <<rows, running, pc, loc, shadowed, blurred>>
  BY DEF Lose
<1>2. /\ conn' \in [Conn -> Connection] /\ conn'[c].st = "lost"
      /\ conn'[c].t = conn[c].t /\ conn'[c].done = conn[c].done
      /\ \A d \in Conn \ {c} : conn'[d] = conn[d]
  <2> DEFINE n == [conn[c] EXCEPT !.st = "lost"]
  <2>1. conn[c] \in Connection /\ conn[c].st # "free"
    BY <1>1 DEF TypeOK
  <2>2. n \in Connection /\ n.st = "lost" /\ n.t = conn[c].t /\ n.done = conn[c].done
    BY <2>1, ConnectionType
  <2>3. conn' = [conn EXCEPT ![c] = n]
    BY DEF Lose
  <2> HIDE DEF n
  <2> QED
    BY <2>2, <2>3, Replaced
<1>3. LocalsFit'
  BY <1>1, <1>2 DEF ConnInv, LocalsFit, Own, Holds
<1>4. Reachable'
  BY <1>1, <1>2 DEF ConnInv, Reachable, Held
<1>5. RunningIsReal'
  BY <1>1, <1>2 DEF ConnInv, RunningIsReal, TypeOK
<1> QED
  BY <1>1, <1>2, <1>3, <1>4, <1>5 DEF ConnInv, HeldByOne, Holds, PortsExclusive

LEMMA CrashConn ==
  ASSUME Crash
  PROVE  ConnInv'
BY DEF Crash, ConnInv, LocalsFit, HeldByOne, Holds, PortsExclusive, Reachable,
       RunningIsReal, FreeConn

-----------------------------------------------------------------------------
(***************************************************************************)
(* Flags: each action keeps FlagInv.                                       *)
(***************************************************************************)

\* A start makes its next call: nothing is known anew.
LEMMA GoesOn ==
  ASSUME TypeOK, FlagInv, NEW p \in Proc, pc[p] \in {"check", "dial", "listen"},
         NEW l \in Locals, l.t = loc[p].t, NEW at \in {"dial", "listen", "store"},
         Step(p, l, at), UNCHANGED <<rows, running, blurred>>
  PROVE  FlagInv'
<1>1. /\ pc'[p] = at /\ loc'[p] = l
      /\ \A q \in Proc \ {p} : pc'[q] = pc[q] /\ loc'[q] = loc[q]
  BY Stepped DEF Calls, Starting
<1>2. \A q \in Proc, t \in Tunnel :
        /\ Begins(q, t)' <=> Begins(q, t)
        /\ Ends(q, t)' <=> Ends(q, t)
        /\ pc'[q] = "enable" <=> pc[q] = "enable"
  BY <1>1 DEF Begins, Ends, Starting, Stopping
<1> QED
  BY <1>2 DEF FlagInv, UnbornIdle, InStep, Exists

\* A start ends before it has stored anything.
LEMMA GivesUp ==
  ASSUME TypeOK, FlagInv, NEW p \in Proc, pc[p] \in {"check", "dial", "listen"},
         Answer(p), UNCHANGED <<rows, running, blurred>>
  PROVE  FlagInv'
<1>1. /\ pc'[p] = "idle"
      /\ \A q \in Proc \ {p} : pc'[q] = pc[q] /\ loc'[q] = loc[q]
  BY NoLocalType, Stepped DEF Answer, Calls
<1>2. \A q \in Proc, t \in Tunnel :
        /\ Begins(q, t)' <=> Begins(q, t) /\ q # p
        /\ Ends(q, t)' <=> Ends(q, t)
        /\ pc'[q] = "enable" <=> pc[q] = "enable"
  BY <1>1 DEF Begins, Ends, Starting, Stopping
<1>3. \A t \in Tunnel : InStep(t) => InStep(t)'
  BY <1>2 DEF InStep, Exists
<1> QED
  BY <1>2, <1>3 DEF FlagInv, UnbornIdle

LEMMA CreateFlag ==
  ASSUME TypeOK, FlagInv, NEW t \in Tunnel, NEW flag \in {"off", "on"},
         CreateTunnel(t, flag)
  PROVE  FlagInv' /\ rows' \in [Tunnel -> {"unborn", "off", "on", "deleted"}]
         /\ blurred' \in SUBSET Tunnel
<1>1. /\ rows[t] = "unborn" /\ UNCHANGED <<running, pc, loc>>
      /\ rows' \in [Tunnel -> {"unborn", "off", "on", "deleted"}] /\ rows'[t] = flag
      /\ \A u \in Tunnel \ {t} : rows'[u] = rows[u]
      /\ blurred \subseteq blurred' /\ blurred' \in SUBSET Tunnel
      /\ t \in blurred' \/ flag = "off"
  BY DEF CreateTunnel, TypeOK
<1>2. running[t] = Nil /\ \A p \in Proc : ~ Begins(p, t) /\ ~ Ends(p, t)
  BY <1>1 DEF FlagInv, UnbornIdle
<1>3. UnbornIdle'
  BY <1>1 DEF FlagInv, UnbornIdle, Begins, Ends
<1>4. flag = "off" => InStep(t)'
  BY <1>1, <1>2 DEF InStep, Begins, Ends
<1>5. \A u \in Tunnel \ {t} : InStep(u) => InStep(u)'
  BY <1>1 DEF InStep, Begins, Ends, Exists
<1> QED
  BY <1>1, <1>3, <1>4, <1>5 DEF FlagInv

LEMMA StartFlag ==
  ASSUME TypeOK, FlagInv, NEW p \in Proc, NEW t \in Tunnel, StartTunnel(p, t)
  PROVE  FlagInv'
<1>1. PICK l : l = [NoLocal EXCEPT !.t = t]
  OBVIOUS
<1>2. l \in Locals /\ l.t = t
  BY <1>1, NoLocalType, LocalsEdited
<1>3. /\ pc[p] = "idle" /\ Exists(t) /\ UNCHANGED <<rows, running>>
      /\ blurred' = IF StopsOf(t) # {} THEN blurred \cup {t} ELSE blurred
  BY DEF StartTunnel
<1>4. /\ pc'[p] = "check" /\ loc'[p] = l
      /\ \A q \in Proc \ {p} : pc'[q] = pc[q] /\ loc'[q] = loc[q]
  BY <1>1, <1>2, Stepped DEF StartTunnel, Calls, Starting
<1>5. \A q \in Proc, u \in Tunnel :
        /\ Begins(q, u)' <=> Begins(q, u) \/ (q = p /\ u = t)
        /\ Ends(q, u)' <=> Ends(q, u)
        /\ pc'[q] = "enable" <=> pc[q] = "enable"
        /\ q = p => ~ Begins(q, u)
  BY <1>2, <1>3, <1>4 DEF Begins, Ends, Starting, Stopping
<1>6. UnbornIdle'
  BY <1>3, <1>5 DEF FlagInv, UnbornIdle, Exists
<1>7. ASSUME NEW u \in Tunnel \ blurred' PROVE InStep(u)'
  <2>1. InStep(u)
    BY <1>3 DEF FlagInv
  <2>2. u = t => \A q \in Proc : ~ Ends(q, t)
    BY <1>3 DEF StopsOf, Ends
  <2> QED
    BY <1>3, <1>5, <2>1, <2>2 DEF InStep, Exists
<1> QED
  BY <1>6, <1>7 DEF FlagInv

LEMMA StoreFlag ==
  ASSUME TypeOK, ConnInv, FlagInv, NEW p \in Proc, Store(p)
  PROVE  FlagInv'
<1>1. PICK t, l : t = loc[p].t /\ l = [loc[p] EXCEPT !.c = Nil]
  OBVIOUS
<1>2. /\ pc[p] = "store" /\ Step(p, l, "enable") /\ UNCHANGED <<rows, blurred>>
  BY <1>1 DEF Store
<1>3. loc[p] \in Locals /\ t \in Tunnel
  BY <1>1, <1>2, AtCall DEF ConnInv
<1>4. l \in Locals /\ l.t = t
  BY <1>1, <1>3, LocalsEdited
<1>5. /\ pc'[p] = "enable" /\ loc'[p] = l
      /\ \A q \in Proc \ {p} : pc'[q] = pc[q] /\ loc'[q] = loc[q]
  BY <1>2, <1>4, Stepped DEF Calls, Starting
<1>6. running'[t] # Nil /\ \A u \in Tunnel \ {t} : running'[u] = running[u]
  <2>1. running'[t] # Nil
    BY <1>1, StoreConn
  <2> QED
    BY <2>1, <1>1 DEF Store, TypeOK
<1>7. \A q \in Proc, u \in Tunnel :
        /\ Begins(q, u)' <=> Begins(q, u)
        /\ Ends(q, u)' <=> Ends(q, u)
        /\ pc'[q] = "enable" <=> pc[q] = "enable" \/ q = p
  BY <1>1, <1>2, <1>4, <1>5 DEF Begins, Ends, Starting, Stopping
<1>8. Begins(p, t) /\ \A u \in Tunnel : Begins(p, u) => u = t
  BY <1>1, <1>2 DEF Begins, Starting
<1>9. UnbornIdle'
  BY <1>2, <1>3, <1>6, <1>7, <1>8 DEF FlagInv, UnbornIdle
<1>10. ASSUME NEW u \in Tunnel \ blurred PROVE InStep(u)'
  <2>1. InStep(u)
    BY DEF FlagInv
  <2>2. CASE u = t
    BY <2>1, <2>2, <1>2, <1>6, <1>7, <1>8 DEF InStep, Exists
  <2>3. CASE u # t
    BY <2>1, <2>3, <1>2, <1>6, <1>7, <1>8 DEF InStep, Exists
  <2> QED
    BY <2>2, <2>3
<1> QED
  BY <1>2, <1>9, <1>10 DEF FlagInv

LEMMA StopFlag ==
  ASSUME TypeOK, FlagInv, NEW p \in Proc, NEW t \in Tunnel, NEW at \in Stopping,
         Begun(p, t, at), Stop(t)
  PROVE  FlagInv'
<1>1. PICK l : l = [NoLocal EXCEPT !.t = t]
  OBVIOUS
<1>2. l \in Locals /\ l.t = t
  BY <1>1, NoLocalType, LocalsEdited
<1>3. /\ pc[p] = "idle" /\ rows[t] # "unborn" /\ UNCHANGED rows
      /\ blurred' = IF StartsOf(t) # {} THEN blurred \cup {t} ELSE blurred \ {t}
  BY DEF Begun
<1>4. /\ pc'[p] = at /\ loc'[p] = l
      /\ \A q \in Proc \ {p} : pc'[q] = pc[q] /\ loc'[q] = loc[q]
  BY <1>1, <1>2, Stepped DEF Begun, Calls
<1>5. running'[t] = Nil /\ \A u \in Tunnel \ {t} : running'[u] = running[u]
  BY DEF Stop, TypeOK
<1>6. \A q \in Proc, u \in Tunnel :
        /\ Begins(q, u)' <=> Begins(q, u)
        /\ Ends(q, u)' <=> Ends(q, u) \/ (q = p /\ u = t)
        /\ Begins(q, u) => (pc'[q] = "enable" <=> pc[q] = "enable")
  BY <1>2, <1>3, <1>4 DEF Begins, Ends, Starting, Stopping
<1>7. UnbornIdle'
  BY <1>3, <1>5, <1>6 DEF FlagInv, UnbornIdle
<1>8. ASSUME NEW u \in Tunnel \ blurred' PROVE InStep(u)'
  <2>1. CASE u = t
    <3>1. \A q \in Proc : ~ Begins(q, t)
      BY <2>1, <1>3 DEF StartsOf, Begins
    <3> QED
      BY <2>1, <3>1, <1>5, <1>6 DEF InStep
  <2>2. CASE u # t
    <3>1. InStep(u)
      BY <2>2, <1>3 DEF FlagInv
    <3> QED
      BY <2>2, <3>1, <1>3, <1>5, <1>6 DEF InStep, Exists
  <2> QED
    BY <2>1, <2>2
<1> QED
  BY <1>7, <1>8 DEF FlagInv

\* The last call of a start, a stop or a delete: the row gets its flag, or that
\* fails.
LEMMA EndFlag ==
  ASSUME TypeOK, LocalsFit, FlagInv, NEW p \in Proc,
         Enable(p) \/ Disable(p) \/ Drop(p)
  PROVE  FlagInv' /\ rows' \in [Tunnel -> {"unborn", "off", "on", "deleted"}]
         /\ blurred' \in SUBSET Tunnel
<1>1. PICK t : t = loc[p].t
  OBVIOUS
<1>2. pc[p] \in {"enable", "disable", "drop"} /\ UNCHANGED running /\ Answer(p)
  BY DEF Enable, Disable, Drop
<1>3. t \in Tunnel
  BY <1>1, <1>2, AtCall
<1>4. /\ pc'[p] = "idle"
      /\ \A q \in Proc \ {p} : pc'[q] = pc[q] /\ loc'[q] = loc[q]
  BY <1>2, NoLocalType, Stepped DEF Answer, Calls
<1>5. \A q \in Proc, u \in Tunnel :
        /\ Begins(q, u)' <=> Begins(q, u) /\ q # p
        /\ Ends(q, u)' <=> Ends(q, u) /\ q # p
        /\ q # p => (pc'[q] = "enable" <=> pc[q] = "enable")
  BY <1>4 DEF Begins, Ends, Starting, Stopping
<1>6. /\ Begins(p, t) <=> pc[p] = "enable"
      /\ Ends(p, t) <=> pc[p] # "enable"
      /\ \A u \in Tunnel \ {t} : ~ Begins(p, u) /\ ~ Ends(p, u)
  BY <1>1, <1>2 DEF Begins, Ends, Starting, Stopping
<1>7. rows[t] # "unborn"
  BY <1>2, <1>3, <1>6 DEF FlagInv, UnbornIdle
<1>8. \/ rows' = rows /\ blurred' = blurred \cup {t}
      \/ /\ blurred' = blurred
         /\ \/ pc[p] = "enable" /\ SetEnabled(t, "on")
            \/ pc[p] = "disable" /\ SetEnabled(t, "off")
            \/ pc[p] = "drop" /\ rows' = [rows EXCEPT ![t] = "deleted"]
  BY <1>1 DEF Enable, Disable, Drop
<1>9. /\ rows' \in [Tunnel -> {"unborn", "off", "on", "deleted"}]
      /\ blurred' \in SUBSET Tunnel /\ blurred \subseteq blurred'
      /\ \A u \in Tunnel \ {t} : rows'[u] = rows[u]
      /\ rows'[t] # "unborn"
  BY <1>3, <1>7, <1>8 DEF SetEnabled, TypeOK
<1>10. UnbornIdle'
  BY <1>2, <1>5, <1>9 DEF FlagInv, UnbornIdle
<1>11. ASSUME NEW u \in Tunnel \ blurred' PROVE InStep(u)'
  <2>1. InStep(u)
    BY <1>9 DEF FlagInv
  <2>2. CASE u # t
    BY <2>1, <2>2, <1>2, <1>5, <1>6, <1>9 DEF InStep, Exists
  <2>3. CASE u = t /\ pc[p] = "enable"
    <3>1. Exists(t)
      BY <2>1, <2>3, <1>6 DEF InStep
    <3>2. rows'[t] = "on"
      BY <2>3, <3>1, <1>3, <1>8 DEF SetEnabled, TypeOK
    <3> QED
      BY <2>1, <2>3, <3>2, <1>2, <1>5, <1>6 DEF InStep, Exists
  <2>4. CASE u = t /\ pc[p] # "enable"
    <3>1. running[t] = Nil /\ \A q \in Proc : ~ Begins(q, t)
      BY <2>1, <2>4, <1>6 DEF InStep
    <3>2. rows'[t] # "on"
      BY <2>4, <1>3, <1>8 DEF SetEnabled, Exists, TypeOK
    <3> QED
      BY <2>4, <3>1, <3>2, <1>2, <1>5 DEF InStep
  <2> QED
    BY <2>2, <2>3, <2>4
<1> QED
  BY <1>9, <1>10, <1>11 DEF FlagInv

LEMMA CrashFlag ==
  ASSUME TypeOK, Crash
  PROVE  FlagInv'
BY DEF TypeOK, Crash, FlagInv, UnbornIdle, InStep, Begins, Ends, Starting, Stopping

-----------------------------------------------------------------------------
(***************************************************************************)
(* The invariant.                                                          *)
(***************************************************************************)

LEMMA TypeKept ==
  ASSUME rows' \in [Tunnel -> {"unborn", "off", "on", "deleted"}],
         running' \in [Tunnel -> Conn \cup {Nil}],
         conn' \in [Conn -> Connection],
         pc' \in [Proc -> Calls],
         loc' \in [Proc -> Locals],
         shadowed' \in SUBSET Conn,
         blurred' \in SUBSET Tunnel
  PROVE  TypeOK'
BY DEF TypeOK, Calls

\* Calls that change nothing but p's place in a start.
LEMMA MoveKeeps ==
  ASSUME IInv, NEW p \in Proc, pc[p] \in {"check", "dial"},
         UNCHANGED <<rows, running, conn, shadowed, blurred>>,
         Step(p, loc[p], "dial") \/ Answer(p)
  PROVE  IInv'
<1>1. loc[p] \in Locals /\ loc[p].t \in Tunnel
  BY AtCall DEF IInv, ConnInv
<1>2. CASE Step(p, loc[p], "dial")
  <2>1. "dial" \in Calls \ {"listen", "store"}
    BY DEF Calls, Starting
  <2>2. pc' \in [Proc -> Calls] /\ loc' \in [Proc -> Locals]
    BY <1>1, <1>2, <2>1, Stepped DEF IInv
  <2>3. ConnInv'
    BY <1>1, <1>2, <2>1, ConnSame DEF IInv, Holds
  <2>4. FlagInv'
    BY <1>1, <1>2, GoesOn DEF IInv
  <2> QED
    BY <2>2, <2>3, <2>4, TypeKept DEF IInv, TypeOK
<1>3. CASE Answer(p)
  <2>1. "idle" \in Calls \ {"listen", "store"}
    BY DEF Calls
  <2>2. pc' \in [Proc -> Calls] /\ loc' \in [Proc -> Locals]
    BY <1>3, <2>1, NoLocalType, Stepped DEF IInv, Answer
  <2>3. ConnInv'
    BY <1>3, <2>1, NoLocalType, ConnSame DEF IInv, Holds, Answer
  <2>4. FlagInv'
    BY <1>3, GivesUp DEF IInv
  <2> QED
    BY <2>2, <2>3, <2>4, TypeKept DEF IInv, TypeOK
<1> QED
  BY <1>2, <1>3

LEMMA DialKeeps ==
  ASSUME IInv, NEW p \in Proc, Dial(p)
  PROVE  IInv'
<1>1. pc[p] = "dial" /\ UNCHANGED <<rows, running, blurred>>
  BY DEF Dial
<1>2. loc[p] \in Locals /\ loc[p].t \in Tunnel
  BY <1>1, AtCall DEF IInv, ConnInv
<1>3. CASE Answer(p) /\ UNCHANGED <<conn, shadowed>>
  BY <1>1, <1>3, MoveKeeps
<1>4. ASSUME NEW c \in Unused,
             conn' = [conn EXCEPT ![c] = [FreeConn EXCEPT !.st = "dialled",
                                                          !.t = loc[p].t]],
             shadowed' = shadowed \ {c},
             Step(p, [loc[p] EXCEPT !.c = c], "listen")
      PROVE  IInv'
  <2>1. ConnInv' /\ conn' \in [Conn -> Connection]
    BY <1>1, <1>4, DialConn DEF IInv
  <2>2. PICK l : l = [loc[p] EXCEPT !.c = c]
    OBVIOUS
  <2>3. l \in Locals /\ l.t = loc[p].t
    <3>1. c \in Conn
      BY DEF Unused
    <3> QED
      BY <1>2, <2>2, <3>1, LocalsEdited
  <2>4. pc' \in [Proc -> Calls] /\ loc' \in [Proc -> Locals]
    BY <1>4, <2>2, <2>3, Stepped DEF IInv, Calls, Starting
  <2>5. FlagInv'
    BY <1>1, <1>4, <2>2, <2>3, GoesOn DEF IInv
  <2> QED
    BY <1>1, <1>4, <2>1, <2>4, <2>5, TypeKept DEF IInv, TypeOK
<1>5. CASE Unused # {} /\ LET c == CHOOSE x \in Unused : TRUE IN
             /\ conn' = [conn EXCEPT ![c] = [FreeConn EXCEPT !.st = "dialled",
                                                             !.t = loc[p].t]]
             /\ shadowed' = shadowed \ {c}
             /\ Step(p, [loc[p] EXCEPT !.c = c], "listen")
  <2>1. PICK c : c = CHOOSE x \in Unused : TRUE
    OBVIOUS
  <2>2. c \in Unused
    BY <1>5, <2>1
  <2> QED
    BY <1>4, <1>5, <2>1, <2>2
<1> QED
  BY <1>3, <1>5 DEF Dial

LEMMA ListenKeeps ==
  ASSUME IInv, NEW p \in Proc, Listen(p)
  PROVE  IInv'
<1>1. pc[p] = "listen" /\ UNCHANGED <<rows, running, shadowed, blurred>>
  BY DEF Listen
<1>2. loc[p] \in Locals
  BY <1>1, AtCall DEF IInv, ConnInv
<1>3. CASE Bind(p)
  <2>1. ConnInv' /\ conn' \in [Conn -> Connection]
    BY <1>1, <1>3, BindConn DEF IInv
  <2>2. pc' \in [Proc -> Calls] /\ loc' \in [Proc -> Locals]
    BY <1>2, <1>3, Stepped DEF IInv, Bind, Calls, Starting
  <2>3. FlagInv'
    BY <1>1, <1>2, <1>3, GoesOn DEF IInv, Bind
  <2> QED
    BY <1>1, <2>1, <2>2, <2>3, TypeKept DEF IInv, TypeOK
<1>4. CASE NotBound(p) /\ conn' = [conn EXCEPT ![loc[p].c] = FreeConn]
  <2>1. Answer(p)
    BY <1>4 DEF NotBound
  <2>2. ConnInv' /\ conn' \in [Conn -> Connection]
    BY <1>1, <1>4, <2>1, NotBoundConn DEF IInv
  <2>3. pc' \in [Proc -> Calls] /\ loc' \in [Proc -> Locals]
    BY <2>1, NoLocalType, Stepped DEF IInv, Answer, Calls
  <2>4. FlagInv'
    BY <1>1, <2>1, GivesUp DEF IInv
  <2> QED
    BY <1>1, <2>2, <2>3, <2>4, TypeKept DEF IInv, TypeOK
<1> QED
  BY <1>3, <1>4 DEF Listen

LEMMA StoreKeeps ==
  ASSUME IInv, NEW p \in Proc, Store(p)
  PROVE  IInv'
<1>1. pc[p] = "store" /\ UNCHANGED <<rows, conn, blurred>>
  BY DEF Store
<1>2. /\ ConnInv' /\ running' \in [Tunnel -> Conn \cup {Nil}]
      /\ shadowed' \in SUBSET Conn
  BY StoreConn DEF IInv
<1>3. FlagInv'
  BY StoreFlag DEF IInv
<1>4. pc' \in [Proc -> Calls] /\ loc' \in [Proc -> Locals]
  <2>1. PICK l : l = [loc[p] EXCEPT !.c = Nil]
    OBVIOUS
  <2>2. loc[p] \in Locals
    BY <1>1, AtCall DEF IInv, ConnInv
  <2>3. l \in Locals /\ Step(p, l, "enable")
    <3>1. Step(p, l, "enable")
      BY <2>1 DEF Store
    <3>2. loc[p].t \in Tunnel
      BY <1>1, AtCall DEF IInv, ConnInv
    <3> QED
      BY <2>1, <2>2, <3>1, <3>2, LocalsEdited
  <2> QED
    BY <2>3, Stepped DEF IInv, Calls, Starting
<1> QED
  BY <1>1, <1>2, <1>3, <1>4, TypeKept DEF IInv, TypeOK

LEMMA EndKeeps ==
  ASSUME IInv, NEW p \in Proc, Enable(p) \/ Disable(p) \/ Drop(p)
  PROVE  IInv'
<1>1. /\ pc[p] \in {"enable", "disable", "drop"} /\ Answer(p)
      /\ UNCHANGED <<running, conn, shadowed>>
  BY DEF Enable, Disable, Drop
<1>2. "idle" \in Calls \ {"listen", "store"}
  BY DEF Calls
<1>3. ConnInv'
  BY <1>1, <1>2, NoLocalType, ConnSame DEF IInv, Holds, Answer
<1>4. /\ FlagInv' /\ rows' \in [Tunnel -> {"unborn", "off", "on", "deleted"}]
      /\ blurred' \in SUBSET Tunnel
  BY EndFlag DEF IInv, ConnInv
<1>5. pc' \in [Proc -> Calls] /\ loc' \in [Proc -> Locals]
  BY <1>1, <1>2, NoLocalType, Stepped DEF IInv, Answer
<1> QED
  BY <1>1, <1>3, <1>4, <1>5, TypeKept DEF IInv, TypeOK

LEMMA StartKeeps ==
  ASSUME IInv, NEW p \in Proc, NEW t \in Tunnel, StartTunnel(p, t)
  PROVE  IInv'
<1>1. PICK l : l = [NoLocal EXCEPT !.t = t]
  OBVIOUS
<1>2. l \in Locals /\ l.t = t
  BY <1>1, NoLocalType, LocalsEdited
<1>3. /\ pc[p] = "idle" /\ Step(p, l, "check")
      /\ UNCHANGED <<rows, running, conn, shadowed>>
  BY <1>1 DEF StartTunnel
<1>4. "check" \in Calls \ {"listen", "store"}
  BY DEF Calls, Starting
<1>5. ConnInv'
  BY <1>2, <1>3, <1>4, ConnSame DEF IInv, Holds
<1>6. FlagInv'
  BY StartFlag DEF IInv
<1>7. pc' \in [Proc -> Calls] /\ loc' \in [Proc -> Locals]
  BY <1>2, <1>3, <1>4, Stepped DEF IInv
<1>8. blurred' \in SUBSET Tunnel
  BY DEF StartTunnel, IInv, TypeOK
<1> QED
  BY <1>3, <1>5, <1>6, <1>7, <1>8, TypeKept DEF IInv, TypeOK

LEMMA StoppingKeeps ==
  ASSUME IInv, NEW p \in Proc, NEW t \in Tunnel, StopTunnel(p, t) \/ DeleteTunnel(p, t)
  PROVE  IInv'
<1>1. PICK at \in Stopping : Begun(p, t, at) /\ Stop(t)
  BY DEF StopTunnel, DeleteTunnel, Stopping
<1>2. PICK l : l = [NoLocal EXCEPT !.t = t]
  OBVIOUS
<1>3. l \in Locals
  BY <1>2, NoLocalType, LocalsEdited
<1>4. pc' \in [Proc -> Calls] /\ loc' \in [Proc -> Locals]
  BY <1>1, <1>2, <1>3, Stepped DEF IInv, Begun, Calls
<1>5. /\ ConnInv' /\ running' \in [Tunnel -> Conn \cup {Nil}]
      /\ conn' \in [Conn -> Connection]
  BY <1>1, StopConn DEF IInv
<1>6. FlagInv'
  BY <1>1, StopFlag DEF IInv
<1>7. UNCHANGED <<rows, shadowed>> /\ blurred' \in SUBSET Tunnel
  BY <1>1 DEF Begun, IInv, TypeOK
<1> QED
  BY <1>4, <1>5, <1>6, <1>7, TypeKept DEF IInv, TypeOK

\* No goroutine, no entry and no flag changes.
LEMMA ConnKeeps ==
  ASSUME IInv, NEW c \in Conn, Close(c) \/ Lose(c)
  PROVE  IInv'
<1>1. UNCHANGED <<rows, running, pc, loc, blurred>>
  BY DEF Close, Lose
<1>2. ConnInv' /\ conn' \in [Conn -> Connection] /\ shadowed' \in SUBSET Conn
  <2>1. Lose(c) => shadowed' = shadowed
    BY DEF Lose
  <2> QED
    BY <2>1, CloseConn, LoseConn DEF IInv, TypeOK
<1>3. FlagInv'
  BY <1>1 DEF IInv, FlagInv, UnbornIdle, InStep, Begins, Ends, Exists
<1> QED
  BY <1>1, <1>2, <1>3 DEF IInv, TypeOK

LEMMA CreateKeeps ==
  ASSUME IInv, NEW t \in Tunnel, NEW flag \in {"off", "on"}, CreateTunnel(t, flag)
  PROVE  IInv'
<1>1. UNCHANGED <<running, conn, pc, loc, shadowed>>
  BY DEF CreateTunnel
<1>2. ConnInv'
  BY <1>1 DEF IInv, ConnInv, LocalsFit, HeldByOne, Holds, Own, PortsExclusive,
              Reachable, Held, RunningIsReal
<1> QED
  BY <1>1, <1>2, CreateFlag DEF IInv, TypeOK

LEMMA CrashKeeps ==
  ASSUME IInv, Crash
  PROVE  IInv'
<1>1. TypeOK'
  BY NoLocalType, ConnectionType DEF IInv, TypeOK, Crash
<1> QED
  BY <1>1, CrashConn, CrashFlag DEF IInv

LEMMA InvInit == Init => IInv
<1> SUFFICES ASSUME Init PROVE IInv
  OBVIOUS
<1>1. TypeOK
  BY NoLocalType, ConnectionType DEF Init, TypeOK
<1>2. ConnInv
  BY DEF Init, ConnInv, LocalsFit, HeldByOne, Holds, PortsExclusive, Reachable,
         RunningIsReal, FreeConn
<1>3. FlagInv
  BY DEF Init, FlagInv, UnbornIdle, InStep, Begins, Ends, Starting, Stopping
<1> QED
  BY <1>1, <1>2, <1>3 DEF IInv

LEMMA InvNext == IInv /\ [Next]_vars => IInv'
<1> SUFFICES ASSUME IInv, [Next]_vars PROVE IInv'
  OBVIOUS
<1>1. ASSUME NEW t \in Tunnel, NEW flag \in {"off", "on"}, CreateTunnel(t, flag)
      PROVE  IInv'
  BY <1>1, CreateKeeps
<1>2. ASSUME NEW p \in Proc, Call(p)
      PROVE  IInv'
  <2>1. CASE Check(p)
    BY <2>1, MoveKeeps DEF Check
  <2>2. CASE Dial(p)
    BY <2>2, DialKeeps
  <2>3. CASE Listen(p)
    BY <2>3, ListenKeeps
  <2>4. CASE Store(p)
    BY <2>4, StoreKeeps
  <2>5. CASE Enable(p) \/ Disable(p) \/ Drop(p)
    BY <2>5, EndKeeps
  <2> QED
    BY <1>2, <2>1, <2>2, <2>3, <2>4, <2>5 DEF Call
<1>3. ASSUME NEW p \in Proc, NEW t \in Tunnel, Request(p, t)
      PROVE  IInv'
  BY <1>3, StartKeeps, StoppingKeeps DEF Request
<1>4. ASSUME NEW c \in Conn, Close(c) \/ Lose(c)
      PROVE  IInv'
  BY <1>4, ConnKeeps
<1>5. CASE Crash
  BY <1>5, CrashKeeps
<1>6. CASE UNCHANGED vars
  BY <1>6 DEF vars, IInv, TypeOK, ConnInv, LocalsFit, HeldByOne, Holds, Own,
              PortsExclusive, Reachable, Held, RunningIsReal, FlagInv, UnbornIdle,
              InStep, Begins, Ends, Exists
<1> QED
  BY <1>1, <1>2, <1>3, <1>4, <1>5, <1>6 DEF Next

-----------------------------------------------------------------------------
(***************************************************************************)
(* Theorems.                                                               *)
(***************************************************************************)

\* The inductive invariant: a connection has one holder, a port one listener, and
\* the flag follows the tunnel through every overlap of requests that is not
\* recorded as blurring it.
THEOREM InductiveInvariant == Spec => []IInv
<1>1. Init => IInv
  BY InvInit
<1>2. IInv /\ [Next]_vars => IInv'
  BY InvNext
<1> QED
  BY <1>1, <1>2, PTL DEF Spec

\* Every value stays in its type (tunnel.go, handlers.go).
THEOREM TypeCorrect == Spec => []TypeOK
<1>1. IInv => TypeOK
  BY DEF IInv
<1> QED
  BY <1>1, InductiveInvariant, PTL

\* For any number of requests, tunnels, ports and connections, no open connection
\* gets out of the reach of Stop, unless a start that had lost its own connection
\* wrote over its entry (tunnel.go: Start, Stop).
THEOREM ConnectionsStayReachable == Spec => []Reachable
<1>1. IInv => Reachable
  BY DEF IInv, ConnInv
<1> QED
  BY <1>1, InductiveInvariant, PTL

\* Whatever starts and stops overlap, what Stop finds under a tunnel's id is a
\* connection of that tunnel that was bound and not cancelled since, though it may
\* have dropped (tunnel.go: Start, Stop).
THEOREM RunningStaysReal == Spec => []RunningIsReal
<1>1. IInv => RunningIsReal
  BY DEF IInv, ConnInv
<1> QED
  BY <1>1, InductiveInvariant, PTL

\* The enabled flag of a tunnel that nothing works on says whether it runs, unless
\* a stop overlapped a start, the flag could not be recorded or the server was
\* restarted (handlers.go: the handlers of start, stop and delete).
THEOREM FlagsAreTold == Spec => []FlagTold
<1>1. IInv => FlagTold
  <2> SUFFICES ASSUME IInv, NEW t \in Tunnel \ blurred, StartsOf(t) \cup StopsOf(t) = {}
               PROVE  rows[t] = "on" <=> running[t] # Nil
    BY DEF FlagTold
  <2>1. \A p \in Proc : ~ Begins(p, t) /\ ~ Ends(p, t)
    BY DEF StartsOf, StopsOf, Begins, Ends
  <2>2. InStep(t)
    BY DEF IInv, FlagInv
  <2> QED
    BY <2>1, <2>2 DEF InStep
<1> QED
  BY <1>1, InductiveInvariant, PTL
=============================================================================
