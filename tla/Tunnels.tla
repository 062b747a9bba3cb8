------------------------------- MODULE Tunnels -------------------------------
(***************************************************************************)
(* SSH reverse tunnels: Manager.Start, Stop and serve of internal/tunnel,  *)
(* with the handlers that call them and the tunnels table.                 *)
(*                                                                         *)
(* Start looks at Manager.running, dials, binds the remote port and stores *)
(* the connection's cancel function, each in a step of its own: Manager.mu *)
(* is free in between.  A connection that was cancelled is closed by a     *)
(* goroutine of its own, later.                                            *)
(***************************************************************************)
CONSTANTS
  Proc,      \* the goroutines of requests
  Tunnel,    \* ids of SSH tunnels; ids are never reused
  Address,   \* the remote host and port each tunnel binds
  Conn,      \* SSH connections
  Nil,       \* no tunnel, no connection
  Faulty     \* may calls fail, and connections drop?

ASSUME ConstantsAssumption ==
  /\ Nil \notin Conn
  /\ Nil \notin Tunnel
  /\ DOMAIN Address = Tunnel
  /\ Faulty \in BOOLEAN

VARIABLES
  rows,      \* the tunnels table: no row yet, the enabled flag, or deleted
  running,   \* Manager.running: the connection whose cancel function is stored
  conn,      \* the connections, and whether their context was cancelled
  pc,        \* the call each goroutine makes next
  loc,       \* the local variables of each goroutine
  shadowed,  \* history: live connections whose entry a later store overwrote
  blurred    \* history: tunnels whose flag may say something else than running

vars == <<rows, running, conn, pc, loc, shadowed, blurred>>

\* A connection is free, or it was dialled, bound to its remote port, or lost.
Connection == [st : {"free"}, t : {Nil}, done : {FALSE}]
         \cup [st : {"dialled", "bound", "lost"}, t : Tunnel, done : BOOLEAN]
FreeConn == [st |-> "free", t |-> Nil, done |-> FALSE]

Starting == {"check", "dial", "listen", "store", "enable"}
Stopping == {"disable", "drop"}
Locals == [t : Tunnel \cup {Nil}, c : Conn \cup {Nil}]
NoLocal == [t |-> Nil, c |-> Nil]

TypeOK ==
  /\ rows \in [Tunnel -> {"unborn", "off", "on", "deleted"}]
  /\ running \in [Tunnel -> Conn \cup {Nil}]
  /\ conn \in [Conn -> Connection]
  /\ pc \in [Proc -> {"idle"} \cup Starting \cup Stopping]
  /\ loc \in [Proc -> Locals]
  /\ shadowed \in SUBSET Conn
  /\ blurred \in SUBSET Tunnel

-----------------------------------------------------------------------------

Step(p, l, at) ==
  /\ loc' = [loc EXCEPT ![p] = l]
  /\ pc' = [pc EXCEPT ![p] = at]
Answer(p) == Step(p, NoLocal, "idle")

Exists(t) == rows[t] \in {"off", "on"}
StartsOf(t) == {p \in Proc : loc[p].t = t /\ pc[p] \in Starting}
StopsOf(t) == {p \in Proc : loc[p].t = t /\ pc[p] \in Stopping}

\* The port is taken on the remote host by a connection that has not closed.
Taken(t) == \E c \in Conn : conn[c].st = "bound" /\ Address[conn[c].t] = Address[t]

\* Connections that nothing refers to; a lost one that nothing refers to is not
\* told from one that never was.
Referred(c) == c \in {running[t] : t \in Tunnel} \cup {loc[p].c : p \in Proc}
Unused == {c \in Conn : conn[c].st = "free" \/ (conn[c].st = "lost" /\ ~conn[c].done)}
            \ {c \in Conn : Referred(c)}

(***************************************************************************)
(* Starting a tunnel.                                                      *)
(***************************************************************************)

\* InsertTunnel stores whatever flag the client sent.
CreateTunnel(t, flag) ==
  /\ rows[t] = "unborn"
  /\ rows' = [rows EXCEPT ![t] = flag]
  /\ blurred' = IF flag = "on" THEN blurred \cup {t} ELSE blurred
  /\ UNCHANGED <<running, conn, pc, loc, shadowed>>

\* handleStartTunnel reads the row; a missing one is an error.
StartTunnel(p, t) ==
  /\ pc[p] = "idle"
  /\ Exists(t)
  /\ Step(p, [NoLocal EXCEPT !.t = t], "check")
  /\ blurred' = IF StopsOf(t) # {} THEN blurred \cup {t} ELSE blurred
  /\ UNCHANGED <<rows, running, conn, shadowed>>

\* Already running is an error.
Check(p) ==
  /\ pc[p] = "check"
  /\ IF running[loc[p].t] = Nil THEN Step(p, loc[p], "dial") ELSE Answer(p)
  /\ UNCHANGED <<rows, running, conn, shadowed, blurred>>

Dial(p) ==
  /\ pc[p] = "dial"
  /\ \/ /\ Unused # {}
        /\ LET c == CHOOSE x \in Unused : TRUE IN
             /\ conn' = [conn EXCEPT ![c] = [FreeConn EXCEPT !.st = "dialled",
                                                             !.t = loc[p].t]]
             /\ shadowed' = shadowed \ {c}
             /\ Step(p, [loc[p] EXCEPT !.c = c], "listen")
     \/ /\ Faulty
        /\ Answer(p)
        /\ UNCHANGED <<conn, shadowed>>
  /\ UNCHANGED <<rows, running, blurred>>

Bind(p) ==
  /\ conn[loc[p].c].st = "dialled"
  /\ ~Taken(loc[p].t)
  /\ conn' = [conn EXCEPT ![loc[p].c].st = "bound"]
  /\ Step(p, loc[p], "store")
NotBound(p) ==
  /\ Faulty \/ conn[loc[p].c].st = "lost" \/ Taken(loc[p].t)
  /\ Answer(p)

\* Mutant: a failing Listen returns without closing the connection.
ListenLeaks(p) ==
  /\ pc[p] = "listen"
  /\ Bind(p) \/ (NotBound(p) /\ UNCHANGED conn)
  /\ UNCHANGED <<rows, running, shadowed, blurred>>

\* Listen on the remote port; when that fails, close the connection.
Listen(p) ==
  /\ pc[p] = "listen"
  /\ Bind(p) \/ (NotBound(p) /\ conn' = [conn EXCEPT ![loc[p].c] = FreeConn])
  /\ UNCHANGED <<rows, running, shadowed, blurred>>

\* Store the cancel function, over whatever is there, and go serve.  Only a
\* connection that was lost meanwhile can meet a live one here: the port of a
\* live one was free when it was bound.
Store(p) ==
  LET t == loc[p].t
      c == loc[p].c
  IN
  /\ pc[p] = "store"
  /\ running' = [running EXCEPT ![t] = c]
  /\ shadowed' = IF conn[c].st = "lost" THEN shadowed \cup ({running[t]} \ {Nil})
                                        ELSE shadowed
  /\ Step(p, [loc[p] EXCEPT !.c = Nil], "enable")
  /\ UNCHANGED <<rows, conn, blurred>>

SetEnabled(t, flag) == rows' = IF Exists(t) THEN [rows EXCEPT ![t] = flag] ELSE rows

\* SetTunnelEnabled; the handlers ignore its error.
Enable(p) ==
  LET t == loc[p].t IN
  /\ pc[p] = "enable"
  /\ \/ SetEnabled(t, "on") /\ UNCHANGED blurred
     \/ Faulty /\ blurred' = blurred \cup {t} /\ UNCHANGED rows
  /\ Answer(p)
  /\ UNCHANGED <<running, conn, shadowed>>

(***************************************************************************)
(* Stopping a tunnel.                                                      *)
(***************************************************************************)

Cancelled(c) == [conn EXCEPT ![c].done = TRUE]

\* A stop that overlaps a start of the tunnel may be overtaken by it; one that
\* overlaps none puts the flag and the tunnel in step again.
Begun(p, t, at) ==
  /\ pc[p] = "idle"
  /\ rows[t] # "unborn"            \* clients know the ids they were shown
  /\ Step(p, [NoLocal EXCEPT !.t = t], at)
  /\ blurred' = IF StartsOf(t) # {} THEN blurred \cup {t} ELSE blurred \ {t}
  /\ UNCHANGED <<rows, shadowed>>

\* Mutants: the entry is deleted and the context not cancelled; the context is
\* cancelled and the entry kept.
StopForgets(t) == running' = [running EXCEPT ![t] = Nil] /\ UNCHANGED conn
StopKeeps(t) ==
  /\ conn' = IF running[t] = Nil THEN conn ELSE Cancelled(running[t])
  /\ UNCHANGED running

\* Manager.Stop, under Manager.mu: cancel and forget.
Stop(t) ==
  /\ running' = [running EXCEPT ![t] = Nil]
  /\ conn' = IF running[t] = Nil THEN conn ELSE Cancelled(running[t])

StopTunnel(p, t) == Begun(p, t, "disable") /\ Stop(t)

\* Mutant: the tunnel is not stopped first.
DeleteTunnelOnly(p, t) == Begun(p, t, "drop") /\ UNCHANGED <<running, conn>>
DeleteTunnel(p, t) == Begun(p, t, "drop") /\ Stop(t)

Disable(p) ==
  LET t == loc[p].t IN
  /\ pc[p] = "disable"
  /\ \/ SetEnabled(t, "off") /\ UNCHANGED blurred
     \/ Faulty /\ blurred' = blurred \cup {t} /\ UNCHANGED rows
  /\ Answer(p)
  /\ UNCHANGED <<running, conn, shadowed>>

\* The row is deleted, or stays when the call fails.
Drop(p) ==
  LET t == loc[p].t IN
  /\ pc[p] = "drop"
  /\ \/ rows' = [rows EXCEPT ![t] = "deleted"] /\ UNCHANGED blurred
     \/ Faulty /\ blurred' = blurred \cup {t} /\ UNCHANGED rows
  /\ Answer(p)
  /\ UNCHANGED <<running, conn, shadowed>>

(***************************************************************************)
(* Connections, and restarts.                                              *)
(***************************************************************************)

\* serve's goroutine: the context is done, so close the listener and the
\* connection.
Close(c) ==
  /\ conn[c].done
  /\ conn' = [conn EXCEPT ![c] = FreeConn]
  /\ shadowed' = shadowed \ {c}
  /\ UNCHANGED <<rows, running, pc, loc, blurred>>

\* The connection drops: the remote host frees the port, Accept fails and serve
\* returns.  Nothing else notices.
Lose(c) ==
  /\ Faulty
  /\ conn[c].st \in {"dialled", "bound"}
  /\ conn' = [conn EXCEPT ![c].st = "lost"]
  /\ UNCHANGED <<rows, running, pc, loc, shadowed, blurred>>

\* Tunnels are not started again after a restart, whatever their flag.
Crash ==
  /\ running' = [t \in Tunnel |-> Nil]
  /\ conn' = [c \in Conn |-> FreeConn]
  /\ pc' = [p \in Proc |-> "idle"]
  /\ loc' = [p \in Proc |-> NoLocal]
  /\ shadowed' = {}
  /\ blurred' = {t \in Tunnel : rows[t] = "on"}
  /\ UNCHANGED rows

-----------------------------------------------------------------------------

Init ==
  /\ rows = [t \in Tunnel |-> "unborn"]
  /\ running = [t \in Tunnel |-> Nil]
  /\ conn = [c \in Conn |-> FreeConn]
  /\ pc = [p \in Proc |-> "idle"]
  /\ loc = [p \in Proc |-> NoLocal]
  /\ shadowed = {}
  /\ blurred = {}

Request(p, t) == StartTunnel(p, t) \/ StopTunnel(p, t) \/ DeleteTunnel(p, t)

Call(p) ==
  \/ Check(p) \/ Dial(p) \/ Listen(p) \/ Store(p) \/ Enable(p)
  \/ Disable(p) \/ Drop(p)

Next ==
  \/ \E t \in Tunnel, flag \in {"off", "on"} : CreateTunnel(t, flag)
  \/ \E p \in Proc : Call(p) \/ \E t \in Tunnel : Request(p, t)
  \/ \E c \in Conn : Close(c) \/ Lose(c)
  \/ Crash

Spec == Init /\ [][Next]_vars

\* Goroutines run; nobody has to send a request.
Fairness ==
  /\ \A p \in Proc : WF_vars(Call(p))
  /\ \A c \in Conn : WF_vars(Close(c))

FairSpec == Spec /\ Fairness

-----------------------------------------------------------------------------
(***************************************************************************)
(* Properties.                                                             *)
(***************************************************************************)

\* A goroutine that starts a tunnel holds this connection.
Held(c) == \E p \in Proc : pc[p] \in {"listen", "store"} /\ loc[p].c = c

\* Every open connection of a tunnel can still be closed: a Start holds it, Stop
\* finds it under the tunnel's id, or it was cancelled; except one whose entry
\* was overwritten by a start that had lost its own connection (tunnel.go:
\* "tracks it under its ID").
Reachable ==
  \A c \in Conn : conn[c].st \in {"dialled", "bound"} =>
    \/ Held(c)
    \/ running[conn[c].t] = c
    \/ conn[c].done
    \/ c \in shadowed

\* What Stop finds under a tunnel's id is the cancel function of a connection that
\* a Start of this tunnel bound and nobody cancelled; it may have dropped since
\* (tunnel.go: Start stores it, Stop cancels and deletes it in one critical section).
RunningIsReal ==
  \A t \in Tunnel : running[t] # Nil =>
    LET c == conn[running[t]] IN
      c.t = t /\ c.st \in {"bound", "lost"} /\ ~c.done

\* When nothing works on a tunnel, its enabled flag says whether it runs, and a
\* deleted tunnel does not run; except after a stop or a delete that overlapped
\* a start, a flag that could not be recorded, and a restart (handlers.go: the
\* handlers of start, stop and delete change the one and then the other).
FlagTold ==
  \A t \in Tunnel \ blurred :
    StartsOf(t) \cup StopsOf(t) = {} => (rows[t] = "on" <=> running[t] # Nil)

Open(c, t) == conn[c].t = t /\ conn[c].st \in {"dialled", "bound"}

\* Once a tunnel was stopped and no start of it is under way, its remote port is
\* free in the end, unless it is started again; except for a connection whose entry
\* was overwritten by a start that had lost its own, which no stop finds
\* (tunnel.go: serve's goroutine closes the listener and the connection).
StoppedCloses ==
  \A t \in Tunnel :
    (running[t] = Nil /\ StartsOf(t) = {})
      ~> ((\A c \in Conn \ shadowed : ~Open(c, t)) \/ StartsOf(t) # {})
=============================================================================
