----------------------------- MODULE Publication -----------------------------
(***************************************************************************)
(* What the proxy registry promises its callers, without mutex, goroutines *)
(* or rows: the snapshot of an Envoy is replaced only by what the store    *)
(* said when the publication at hand read it, and publications do not      *)
(* overlap, so that none brings an older state back after a newer one.     *)
(*                                                                         *)
(* ServiceManager (where a Sync is one read and one push) and              *)
(* ProxyRegistry (with every read and every push of it) implement this.    *)
(***************************************************************************)
CONSTANTS
  Node,   \* the Envoys
  Nil     \* no snapshot

VARIABLES
  cur,    \* what the store says each node should serve
  live,   \* the nodes that a publication has to reach
  snap,   \* what each node serves
  next,   \* the updates that the publication at hand has still to push
  moved   \* the rows change under the reads of a publication

vars == <<cur, live, snap, next, moved>>

Update(n) == [node |-> n, table |-> cur[n]]

\* Rows change, also while a publication is at hand.
Change == UNCHANGED <<snap, next, moved>>

\* Rows change that publications do not read together with the others.
Move == moved' = TRUE /\ UNCHANGED <<snap, next>>

\* A publication begins; what changed before it makes no difference to it.
Begin == next = {} /\ moved' = FALSE /\ UNCHANGED <<snap, next>>

\* It reads the store, at one moment unless that moves.
Read ==
  /\ next = {}
  /\ moved \/ next' = {Update(n) : n \in live}
  /\ UNCHANGED <<cur, live, snap, moved>>

Push ==
  /\ \E u \in next : /\ next' = next \ {u}
                     /\ snap' = [snap EXCEPT ![u.node] = u.table]
  /\ UNCHANGED <<cur, live, moved>>

\* The publication is given up: an error ends it, whatever it has pushed.
GiveUp == next' = {} /\ UNCHANGED <<cur, live, snap, moved>>

\* The server stops, and the snapshots with it.
Stop ==
  /\ snap' = [n \in Node |-> Nil]
  /\ next' = {}
  /\ moved' = FALSE
  /\ UNCHANGED <<cur, live>>

Init == snap = [n \in Node |-> Nil] /\ next = {} /\ moved = FALSE

Next == Change \/ Move \/ Begin \/ Read \/ Push \/ GiveUp \/ Stop

Spec == Init /\ [][Next]_vars
=============================================================================
