------------------------------- MODULE Volumes -------------------------------
(***************************************************************************)
(* The volumes of one Docker host: the volumes themselves, the size budget *)
(* the store keeps of each (volume_specs), and the helper container that   *)
(* browses, uploads and deletes go through (internal/docker/volumes.go).   *)
(*                                                                         *)
(* A step is one call on the store or on Docker.  volumeHelper holds       *)
(* Client.volMu across its calls; RemoveVolume holds it only to take the   *)
(* helper's id out of the cache.  A session is a client that waits for the *)
(* answer to a request before it sends the next one.                       *)
(***************************************************************************)
EXTENDS Naturals, FiniteSets, Functions

CONSTANTS
  Session,
  Volume,
  Member,
  NoOwner,    \* the owner that an admin's requests record
  Caller,     \* whose session it is: a member's, or (NoOwner) an admin's
  Quota,      \* the disk quota of each member on this host
  MaxSize,    \* bound on the size of a request
  CID,        \* ids of helper containers
  Nil,        \* no volume, no budget, no helper, no id
  Ops,        \* the requests that clients send
  Faulty,     \* may calls fail, and helpers exit?
  MaxCrashes

ASSUME ConstantsAssumption ==
  /\ IsFiniteSet(Volume)
  /\ NoOwner \notin Member
  /\ Caller \in [Session -> Member \cup {NoOwner}]
  /\ Quota \in [Member -> Nat]
  /\ MaxSize \in Nat
  /\ Ops \subseteq {"create", "resize", "remove", "browse"}
  /\ Faulty \in BOOLEAN
  /\ MaxCrashes \in Nat

Helper == [id : CID, up : BOOLEAN]
Budget == [owner : Member, size : 1..MaxSize] \cup [owner : {NoOwner}, size : 0..MaxSize]

ASSUME NilAssumption ==
  Nil \notin Session \cup Volume \cup Member \cup {NoOwner} \cup CID \cup Helper \cup Budget

VARIABLES
  vols,     \* the owner label of each Docker volume
  specs,    \* the volume_specs table
  helper,   \* the container that has the helper name of each volume
  cache,    \* Client.volHelpers
  mu,       \* who holds Client.volMu
  pc,       \* the call each session's request makes next
  loc,      \* the local variables of each request
  crashes

vars == <<vols, specs, helper, cache, mu, pc, loc, crashes>>

Calls == {"idle", "own", "check", "create", "record", "release", "kill", "remove",
          "forget", "lookup", "find", "clear", "make", "start"}
Helping == {"find", "clear", "make", "start"}    \* the calls made under volMu

AllOps == {"create", "resize", "remove", "browse"}
Locals == [op : AllOps \cup {"none"},
           v : Volume \cup {Nil}, size : 0..MaxSize,
           id : CID \cup {Nil},   \* of a helper; Nil stands for its name
           again : BOOLEAN]       \* history: since release, a helper was made or kept
NoLocal == [op |-> "none", v |-> Nil, size |-> 0, id |-> Nil, again |-> FALSE]

TypeOK ==
  /\ vols \in [Volume -> Member \cup {NoOwner, Nil}]
  /\ specs \in [Volume -> Budget \cup {Nil}]
  /\ helper \in [Volume -> Helper \cup {Nil}]
  /\ cache \in [Volume -> CID \cup {Nil}]
  /\ mu \in Session \cup {Nil}
  /\ pc \in [Session -> Calls]
  /\ loc \in [Session -> Locals]
  /\ crashes \in 0..MaxCrashes

-----------------------------------------------------------------------------

\* The budgets of m, of all volumes but those left out.
Owned(m, out) == {v \in Volume \ out : specs[v] # Nil /\ specs[v].owner = m}
Usage(m, out) == SumFunction([v \in Owned(m, out) |-> specs[v].size])

\* A helper with this id, or with the name when there is no id.
Names(id, v) == helper[v] # Nil /\ (id = Nil \/ helper[v].id = id)
Runs(v) == helper[v] # Nil /\ helper[v].up
Hit(v) == cache[v] # Nil /\ Names(cache[v], v) /\ Runs(v)

\* Docker gives a container an id nobody has seen.  An id is only compared with
\* ids of the same volume, and one that nobody holds any more may be used again.
FreshIds(v) ==
  CID \ ({cache[v]} \cup {helper[w].id : w \in {x \in {v} : helper[x] # Nil}}
                    \cup {loc[p].id : p \in {q \in Session : loc[q].v = v}})

Step(p, l, at) ==
  /\ pc' = [pc EXCEPT ![p] = at]
  /\ loc' = [loc EXCEPT ![p] = l]
Goto(p, at) == Step(p, loc[p], at)

\* The request is answered, well or not; a deferred Unlock releases volMu.
Answer(p) ==
  /\ Step(p, NoLocal, "idle")
  /\ mu' = IF mu = p THEN Nil ELSE mu

-----------------------------------------------------------------------------
(***************************************************************************)
(* Requests.  A member's is checked against the owner label of the volume, *)
(* or, to create one, against the quota at once.                           *)
(***************************************************************************)

First == [create |-> "create", resize |-> "record", remove |-> "release",
          browse |-> "lookup"]
IsMember(p) == Caller[p] # NoOwner

Begin(p, op, v, size) ==
  /\ pc[p] = "idle"
  /\ op \in Ops
  /\ Step(p, [NoLocal EXCEPT !.op = op, !.v = v, !.size = size],
          IF ~IsMember(p) THEN First[op] ELSE IF op = "create" THEN "check" ELSE "own")
  /\ UNCHANGED <<vols, specs, helper, cache, mu, crashes>>

CreateVolume(p, v, size) == Begin(p, "create", v, size)
ResizeVolume(p, v, size) == Begin(p, "resize", v, size)
RemoveVolume(p, v) == Begin(p, "remove", v, 0)
BrowseVolume(p, v) == Begin(p, "browse", v, 0)

\* requireVolumeOwner.
Own(p) ==
  /\ pc[p] = "own"
  /\ vols[loc[p].v] = Caller[p]
  /\ Goto(p, IF loc[p].op = "resize" THEN "check" ELSE First[loc[p].op])
  /\ UNCHANGED <<vols, specs, helper, cache, mu, crashes>>

\* Mutants: what is in use does not count; a size of 0 is accepted.
FitsAlone(m, v, size, op) == size > 0 /\ size <= Quota[m]
FitsEmpty(m, v, size, op) ==
  Usage(m, IF op = "resize" THEN {v} ELSE {}) + size <= Quota[m]
\* enforceVolumeQuota; a resize leaves the volume's own budget out.
Fits(m, v, size, op) ==
  /\ size > 0
  /\ Usage(m, IF op = "resize" THEN {v} ELSE {}) + size <= Quota[m]

Check(p) ==
  /\ pc[p] = "check"
  /\ Fits(Caller[p], loc[p].v, loc[p].size, loc[p].op)
  /\ Goto(p, First[loc[p].op])
  /\ UNCHANGED <<vols, specs, helper, cache, mu, crashes>>

Deny(p) ==
  /\ \/ pc[p] = "own" /\ vols[loc[p].v] # Caller[p]
     \/ pc[p] = "check" /\ ~Fits(Caller[p], loc[p].v, loc[p].size, loc[p].op)
  /\ Answer(p)
  /\ UNCHANGED <<vols, specs, helper, cache, crashes>>

-----------------------------------------------------------------------------
(***************************************************************************)
(* The calls of a request.                                                 *)
(***************************************************************************)

\* VolumeCreate returns the volume that exists; a new one has the owner's label.
DockerCreate(p) ==
  /\ pc[p] = "create"
  /\ vols' = [vols EXCEPT ![loc[p].v] = IF @ = Nil THEN Caller[p] ELSE @]
  /\ Goto(p, "record")
  /\ UNCHANGED <<specs, helper, cache, mu, crashes>>

\* SetVolumeSize upserts the owner, too.
Record(p) ==
  /\ pc[p] = "record"
  /\ specs' = [specs EXCEPT ![loc[p].v] = [owner |-> Caller[p], size |-> loc[p].size]]
  /\ Answer(p)
  /\ UNCHANGED <<vols, helper, cache, crashes>>

\* Mutant: a helper that is not cached is not removed.
ReleaseCached(p) ==
  /\ pc[p] = "release"
  /\ mu = Nil
  /\ cache' = [cache EXCEPT ![loc[p].v] = Nil]
  /\ Step(p, [loc[p] EXCEPT !.id = cache[loc[p].v]],
          IF cache[loc[p].v] = Nil THEN "remove" ELSE "kill")
  /\ UNCHANGED <<vols, specs, helper, mu, crashes>>

\* releaseHelper takes the id out of the cache under volMu, and then removes
\* the container by the id or, when none was cached, by its name.
Release(p) ==
  /\ pc[p] = "release"
  /\ mu = Nil
  /\ cache' = [cache EXCEPT ![loc[p].v] = Nil]
  /\ Step(p, [loc[p] EXCEPT !.id = cache[loc[p].v]], "kill")
  /\ UNCHANGED <<vols, specs, helper, mu, crashes>>

Kill(p) ==
  LET v == loc[p].v IN
  /\ pc[p] = "kill"
  /\ \/ /\ helper' = [helper EXCEPT ![v] = IF Names(loc[p].id, v) THEN Nil ELSE @]
        /\ Goto(p, "remove")
     \/ /\ Faulty
        /\ Step(p, [loc[p] EXCEPT !.again = TRUE], "remove")
        /\ UNCHANGED helper
  /\ UNCHANGED <<vols, specs, cache, mu, crashes>>

\* VolumeRemove; with force, a volume that is gone already is no error.
DockerRemove(p) ==
  LET v == loc[p].v IN
  /\ pc[p] = "remove"
  /\ helper[v] = Nil
  /\ vols' = [vols EXCEPT ![v] = Nil]
  /\ Goto(p, "forget")
  /\ UNCHANGED <<specs, helper, cache, mu, crashes>>

\* The helper's container uses the volume, or there is none.
NotRemoved(p) ==
  /\ pc[p] = "remove"
  /\ helper[loc[p].v] # Nil \/ vols[loc[p].v] = Nil
  /\ Answer(p)
  /\ UNCHANGED <<vols, specs, helper, cache, crashes>>

\* DeleteVolumeSize; an error is ignored.
Forget(p) ==
  /\ pc[p] = "forget"
  /\ \/ specs' = [specs EXCEPT ![loc[p].v] = Nil]
     \/ Faulty /\ UNCHANGED specs
  /\ Answer(p)
  /\ UNCHANGED <<vols, helper, cache, crashes>>

\* volumeHelper: lock volMu and inspect the cached container.  An error counts
\* as a container that does not run.
Cached(p) ==
  /\ pc[p] = "lookup"
  /\ mu = Nil
  /\ Hit(loc[p].v)
  /\ Answer(p)
  /\ UNCHANGED <<vols, specs, helper, cache, crashes>>

NotCached(p) ==
  LET v == loc[p].v IN
  /\ pc[p] = "lookup"
  /\ mu = Nil
  /\ Hit(v) => Faulty
  /\ mu' = p
  /\ cache' = [cache EXCEPT ![v] = Nil]
  /\ Goto(p, "find")
  /\ UNCHANGED <<vols, specs, helper, crashes>>

\* Inspect the container that has the name: one that runs is adopted.
Adopt(p) ==
  LET v == loc[p].v IN
  /\ pc[p] = "find"
  /\ Runs(v)
  /\ cache' = [cache EXCEPT ![v] = helper[v].id]
  /\ Answer(p)
  /\ UNCHANGED <<vols, specs, helper, crashes>>

Find(p) ==
  LET v == loc[p].v IN
  /\ pc[p] = "find"
  /\ \/ helper[v] = Nil /\ Goto(p, "make")
     \/ /\ helper[v] # Nil /\ ~Runs(v)
        /\ Step(p, [loc[p] EXCEPT !.id = helper[v].id], "clear")
     \/ Faulty /\ Goto(p, "make")
  /\ UNCHANGED <<vols, specs, helper, cache, mu, crashes>>

\* Remove the one that does not run; an error is ignored.
Clear(p) ==
  LET v == loc[p].v IN
  /\ pc[p] = "clear"
  /\ \/ helper' = [helper EXCEPT ![v] = IF Names(loc[p].id, v) THEN Nil ELSE @]
     \/ Faulty /\ UNCHANGED helper
  /\ Goto(p, "make")
  /\ UNCHANGED <<vols, specs, cache, mu, crashes>>

\* ContainerCreate creates the volume it mounts when there is none.
Make(p) ==
  LET v  == loc[p].v
      id == CHOOSE x \in FreshIds(v) : TRUE
  IN
  /\ pc[p] = "make"
  /\ helper[v] = Nil
  /\ FreshIds(v) # {}
  /\ helper' = [helper EXCEPT ![v] = [id |-> id, up |-> FALSE]]
  /\ loc' = [q \in Session |->
       CASE q = p -> [loc[p] EXCEPT !.id = id]
         [] q # p /\ pc[q] \in {"kill", "remove"} /\ loc[q].v = v
            -> [loc[q] EXCEPT !.again = TRUE]
         [] OTHER -> loc[q]]
  /\ vols' = [vols EXCEPT ![v] = IF @ = Nil THEN NoOwner ELSE @]
  /\ pc' = [pc EXCEPT ![p] = "start"]
  /\ UNCHANGED <<specs, cache, mu, crashes>>

StartHelper(p) ==
  LET v == loc[p].v IN
  /\ pc[p] = "start"
  /\ Names(loc[p].id, v)
  /\ helper' = [helper EXCEPT ![v].up = TRUE]
  /\ cache' = [cache EXCEPT ![v] = loc[p].id]
  /\ Answer(p)
  /\ UNCHANGED <<vols, specs, crashes>>

\* The name is taken, or a RemoveVolume removed the container just made.
NoHelper(p) ==
  LET v == loc[p].v IN
  /\ \/ pc[p] = "make" /\ helper[v] # Nil
     \/ pc[p] = "start" /\ ~Names(loc[p].id, v)
  /\ Answer(p)
  /\ UNCHANGED <<vols, specs, helper, cache, crashes>>

-----------------------------------------------------------------------------
(***************************************************************************)
(* The environment.                                                        *)
(***************************************************************************)

\* A call whose error the code returns fails: without effect, or (a timeout)
\* after the store committed it.
Fault(p) ==
  /\ Faulty
  /\ pc[p] \in {"own", "check", "create", "record", "remove", "make", "start"}
  /\ Answer(p)
  /\ \/ UNCHANGED specs
     \/ /\ pc[p] = "record"
        /\ specs' = [specs EXCEPT ![loc[p].v] =
                       [owner |-> Caller[p], size |-> loc[p].size]]
  /\ UNCHANGED <<vols, helper, cache, crashes>>

\* A helper stops running; it has no restart policy.
Exit(v) ==
  /\ Faulty
  /\ Runs(v)
  /\ helper' = [helper EXCEPT ![v].up = FALSE]
  /\ UNCHANGED <<vols, specs, cache, mu, pc, loc, crashes>>

\* The server stops: killed, or after CleanupVolumeHelpers removed the helpers,
\* of which some may resist.
Crash ==
  /\ crashes < MaxCrashes
  /\ crashes' = crashes + 1
  /\ \E gone \in SUBSET Volume :
       helper' = [v \in Volume |-> IF v \in gone THEN Nil ELSE helper[v]]
  /\ cache' = [v \in Volume |-> Nil]
  /\ mu' = Nil
  /\ pc' = [p \in Session |-> "idle"]
  /\ loc' = [p \in Session |-> NoLocal]
  /\ UNCHANGED <<vols, specs>>

-----------------------------------------------------------------------------

Init ==
  /\ vols = [v \in Volume |-> Nil]
  /\ specs = [v \in Volume |-> Nil]
  /\ helper = [v \in Volume |-> Nil]
  /\ cache = [v \in Volume |-> Nil]
  /\ mu = Nil
  /\ pc = [p \in Session |-> "idle"]
  /\ loc = [p \in Session |-> NoLocal]
  /\ crashes = 0

Request(p) ==
  \E v \in Volume :
    \/ \E size \in 0..MaxSize : CreateVolume(p, v, size) \/ ResizeVolume(p, v, size)
    \/ RemoveVolume(p, v)
    \/ BrowseVolume(p, v)

Call(p) ==
  \/ Own(p) \/ Check(p) \/ Deny(p) \/ DockerCreate(p) \/ Record(p)
  \/ Release(p) \/ Kill(p) \/ DockerRemove(p) \/ NotRemoved(p) \/ Forget(p)
  \/ Cached(p) \/ NotCached(p) \/ Adopt(p) \/ Find(p) \/ Clear(p)
  \/ Make(p) \/ StartHelper(p) \/ NoHelper(p)

Next ==
  \/ \E p \in Session : Request(p) \/ Call(p) \/ Fault(p)
  \/ \E v \in Volume : Exit(v)
  \/ Crash

Spec == Init /\ [][Next]_vars

-----------------------------------------------------------------------------
(***************************************************************************)
(* Properties.                                                             *)
(***************************************************************************)

\* When RemoveVolume has released the helper of a volume, no helper container
\* keeps Docker from removing it, unless one was made meanwhile or could not be
\* removed: also when the cache is empty after a restart, the cached container
\* died, or another request was about to start one (volumes.go: releaseHelper
\* "removes a volume's helper container (before deleting the volume, which would
\* otherwise be 'in use')").
Released == \A p \in Session : pc[p] = "remove" =>
  helper[loc[p].v] = Nil \/ loc[p].again

\* The budgets of a member's volumes stay within the quota, whatever other members
\* and admins do to the same volumes between the check and the record; where a
\* member sends one request at a time, for two of them are checked side by side
\* (users.go: DiskQuotaMB is the "total volume-size budget").
WithinQuota == \A m \in Member : Usage(m, {}) <= Quota[m]
=============================================================================
