---------------------------- MODULE VolumesProofs ----------------------------
(***************************************************************************)
(* Proofs about Volumes: the types, Released and WithinQuota, for any      *)
(* sessions, volumes, quotas and helper ids, whatever calls fail and       *)
(* however often the server stops.                                         *)
(*                                                                         *)
(* Released is not inductive: that releaseHelper removes the right         *)
(* container depends on the cache naming it, and the cache on volMu being  *)
(* held from the moment volumeHelper finds nothing cached to the moment it *)
(* caches what it made.                                                    *)
(*                                                                         *)
(* WithinQuota needs, in addition, that what enforceVolumeQuota let pass   *)
(* still fits when it is recorded: others' requests only take budgets away *)
(* from a member.                                                          *)
(***************************************************************************)
EXTENDS Volumes, Sums, TLAPS

\* Only the holder of volMu is between the lookup and the end of volumeHelper.
MuHeld == \A p \in Session : mu = p <=> pc[p] \in Helping

\* A request names an operation and a volume; to create one has no owner check.
Named == \A p \in Session :
  /\ pc[p] # "idle" => loc[p].op \in AllOps /\ loc[p].v \in Volume
  /\ pc[p] = "own" => loc[p].op # "create"

\* The quota check lets no member's request of size 0 through.
Sized == \A p \in Session :
  pc[p] \in {"create", "record"} /\ IsMember(p) => loc[p].size > 0

\* Nothing is cached for the volume that volumeHelper makes a helper of.
Uncached == \A p \in Session : pc[p] \in Helping => cache[loc[p].v] = Nil

\* A cached id is that of the container with the volume's helper name, if any.
HelperKnown == \A v \in Volume :
  cache[v] # Nil /\ helper[v] # Nil => helper[v].id = cache[v]

\* What releaseHelper is about to remove is the helper, or there is a later one.
Targeted == \A p \in Session : pc[p] = "kill" =>
  \/ loc[p].id = Nil
  \/ helper[loc[p].v] = Nil
  \/ helper[loc[p].v].id = loc[p].id
  \/ loc[p].again

Rest == MuHeld /\ Named /\ Sized /\ Uncached /\ HelperKnown /\ Targeted /\ Released
IInv == TypeOK /\ Rest

-----------------------------------------------------------------------------
(***************************************************************************)
(* Types.                                                                  *)
(***************************************************************************)

LEMMA NoLocalType == NoLocal \in Locals
BY ConstantsAssumption, SMT DEF NoLocal, Locals, AllOps

\* A step of a session that keeps its locals in their type.
LEMMA StepType ==
  ASSUME TypeOK, NEW p \in Session, NEW l \in Locals, NEW at \in Calls, Step(p, l, at)
  PROVE  pc' \in [Session -> Calls] /\ loc' \in [Session -> Locals]
BY DEF TypeOK, Step

\* An answer to a request.
LEMMA AnswerType ==
  ASSUME TypeOK, NEW p \in Session, Answer(p)
  PROVE  /\ pc' \in [Session -> Calls] /\ loc' \in [Session -> Locals]
         /\ mu' \in Session \cup {Nil}
<1>1. Step(p, NoLocal, "idle")  BY DEF Answer
<1>2. "idle" \in Calls  BY DEF Calls
<1>3. pc' \in [Session -> Calls] /\ loc' \in [Session -> Locals]
  BY <1>1, <1>2, NoLocalType, StepType
<1> QED  BY <1>3 DEF Answer, TypeOK

\* A request that Docker's choice of an id makes is given one.
LEMMA FreshIdType ==
  ASSUME NEW v, FreshIds(v) # {}
  PROVE  (CHOOSE x \in FreshIds(v) : TRUE) \in CID
<1>1. (CHOOSE x \in FreshIds(v) : TRUE) \in FreshIds(v)  OBVIOUS
<1> QED  BY <1>1 DEF FreshIds

LEMMA TypeInit == Init => TypeOK
BY ConstantsAssumption, NoLocalType DEF Init, TypeOK, Calls

\* A request begins.
LEMMA BeginType ==
  ASSUME TypeOK, NEW p \in Session, NEW op \in AllOps, NEW v \in Volume,
         NEW size \in 0..MaxSize, Begin(p, op, v, size)
  PROVE  TypeOK'
<1> DEFINE l == [NoLocal EXCEPT !.op = op, !.v = v, !.size = size]
           at == IF ~IsMember(p) THEN First[op] ELSE IF op = "create" THEN "check" ELSE "own"
<1>1. l \in Locals
  BY NoLocalType DEF NoLocal, Locals
<1>2. at \in Calls
  BY DEF First, Calls, AllOps
<1>3. Step(p, l, at) /\ UNCHANGED <<vols, specs, helper, cache, mu, crashes>>
  BY DEF Begin
<1> HIDE DEF l, at
<1>4. pc' \in [Session -> Calls] /\ loc' \in [Session -> Locals]
  BY <1>1, <1>2, <1>3, StepType
<1> QED  BY <1>3, <1>4 DEF TypeOK

LEMMA RequestType == ASSUME TypeOK, NEW p \in Session, Request(p) PROVE TypeOK'
<1>1. PICK v \in Volume :
        \/ \E size \in 0..MaxSize : CreateVolume(p, v, size) \/ ResizeVolume(p, v, size)
        \/ RemoveVolume(p, v)
        \/ BrowseVolume(p, v)
  BY DEF Request
<1>2. 0 \in 0..MaxSize  BY ConstantsAssumption
<1>3. {"create", "resize", "remove", "browse"} = AllOps  BY DEF AllOps
<1> QED
  BY <1>1, <1>2, <1>3, BeginType DEF CreateVolume, ResizeVolume, RemoveVolume, BrowseVolume

\* A budget that the store records: the quota check has refused a member's 0.
LEMMA RecordType ==
  ASSUME TypeOK, Named, Sized, NEW p \in Session, pc[p] = "record",
         specs' = [specs EXCEPT ![loc[p].v] = [owner |-> Caller[p], size |-> loc[p].size]]
  PROVE  specs' \in [Volume -> Budget \cup {Nil}]
<1>1. loc[p].size \in 0..MaxSize  BY DEF TypeOK, Locals
<1>2. Caller[p] = NoOwner \/ (Caller[p] \in Member /\ loc[p].size > 0)
  BY ConstantsAssumption DEF Sized, IsMember
<1>3. [owner |-> Caller[p], size |-> loc[p].size] \in Budget
  BY <1>1, <1>2, ConstantsAssumption DEF Budget
<1> QED  BY <1>3 DEF TypeOK

\* A session goes on to its next call with the same locals.
LEMMA GotoType ==
  ASSUME TypeOK, NEW p \in Session, NEW at \in Calls, Goto(p, at)
  PROVE  pc' \in [Session -> Calls] /\ loc' \in [Session -> Locals]
<1>1. loc[p] \in Locals  BY DEF TypeOK
<1> QED  BY <1>1, StepType DEF Goto

LEMMA CallType ==
  ASSUME TypeOK, Named, Sized, NEW p \in Session, Call(p)
  PROVE  TypeOK'
<1> USE DEF TypeOK
<1>v. loc[p] \in Locals /\ (pc[p] # "idle" => loc[p].op \in AllOps /\ loc[p].v \in Volume)
  BY DEF Named
<1>c. Calls = {"idle", "own", "check", "create", "record", "release", "kill", "remove",
               "forget", "lookup", "find", "clear", "make", "start"}
  BY DEF Calls
<1>f. \A op \in AllOps : First[op] \in Calls
  BY <1>c DEF First, AllOps
<1>i. \A id \in CID \cup {Nil} : [loc[p] EXCEPT !.id = id] \in Locals
  BY <1>v DEF Locals
<1>1. CASE Own(p)
  BY <1>1, <1>f, <1>v, <1>c, GotoType DEF Own
<1>2. CASE Check(p)
  BY <1>2, <1>f, <1>v, <1>c, GotoType DEF Check
<1>3. CASE Deny(p)  BY <1>3, AnswerType DEF Deny
<1>4. CASE DockerCreate(p)
  <2>1. Caller[p] \in Member \cup {NoOwner}  BY ConstantsAssumption
  <2> QED  BY <1>4, <2>1, <1>c, GotoType DEF DockerCreate
<1>5. CASE Record(p)  BY <1>5, RecordType, AnswerType DEF Record
<1>6. CASE Release(p)
  <2>1. cache[loc[p].v] \in CID \cup {Nil}  BY <1>6, <1>v DEF Release
  <2> QED  BY <1>6, <2>1, <1>i, <1>c, StepType DEF Release
<1>7. CASE Kill(p)
  <2>1. [loc[p] EXCEPT !.again = TRUE] \in Locals  BY <1>v DEF Locals
  <2> QED  BY <1>7, <2>1, <1>c, StepType, GotoType DEF Kill
<1>8. CASE DockerRemove(p)  BY <1>8, <1>c, GotoType DEF DockerRemove
<1>9. CASE NotRemoved(p)  BY <1>9, AnswerType DEF NotRemoved
<1>10. CASE Forget(p)  BY <1>10, AnswerType DEF Forget
<1>11. CASE Cached(p)  BY <1>11, AnswerType DEF Cached
<1>12. CASE NotCached(p)  BY <1>12, <1>c, GotoType DEF NotCached
<1>13. CASE Adopt(p)
  <2>1. helper[loc[p].v].id \in CID  BY <1>13, <1>v DEF Adopt, Runs, Helper
  <2> QED  BY <1>13, <2>1, AnswerType DEF Adopt
<1>14. CASE Find(p)
  <2>1. ASSUME helper[loc[p].v] # Nil, pc[p] = "find"
        PROVE  [loc[p] EXCEPT !.id = helper[loc[p].v].id] \in Locals
    BY <2>1, <1>v, <1>i DEF Helper
  <2> QED  BY <1>14, <2>1, <1>c, StepType, GotoType DEF Find
<1>15. CASE Clear(p)  BY <1>15, <1>c, GotoType DEF Clear
<1>16. CASE Make(p)
  <2> DEFINE v == loc[p].v
             id == CHOOSE x \in FreshIds(v) : TRUE
  <2>1. id \in CID /\ v \in Volume
    BY <1>16, <1>v, FreshIdType DEF Make
  <2>2. /\ helper' = [helper EXCEPT ![v] = [id |-> id, up |-> FALSE]]
        /\ loc' = [q \in Session |->
             CASE q = p -> [loc[p] EXCEPT !.id = id]
               [] q # p /\ pc[q] \in {"kill", "remove"} /\ loc[q].v = v
                  -> [loc[q] EXCEPT !.again = TRUE]
               [] OTHER -> loc[q]]
        /\ vols' = [vols EXCEPT ![v] = IF @ = Nil THEN NoOwner ELSE @]
        /\ pc' = [pc EXCEPT ![p] = "start"]
        /\ UNCHANGED <<specs, cache, mu, crashes>>
    BY <1>16 DEF Make
  <2> HIDE DEF v, id
  <2>3. [id |-> id, up |-> FALSE] \in Helper  BY <2>1 DEF Helper
  <2>4. \A q \in Session : [loc[q] EXCEPT !.again = TRUE] \in Locals  BY DEF Locals
  <2>5. [loc[p] EXCEPT !.id = id] \in Locals  BY <2>1, <1>i
  <2>6. loc' \in [Session -> Locals]  BY <2>2, <2>4, <2>5
  <2> QED  BY <2>1, <2>2, <2>3, <2>6, <1>c
<1>17. CASE StartHelper(p)
  <2>1. /\ helper[loc[p].v] \in Helper
        /\ loc[p].id \in CID \cup {Nil}
    BY <1>17, <1>v DEF StartHelper, Names, Locals
  <2>2. helper' \in [Volume -> Helper \cup {Nil}]
    BY <1>17, <2>1 DEF StartHelper, Helper
  <2> QED  BY <1>17, <2>1, <2>2, AnswerType DEF StartHelper
<1>18. CASE NoHelper(p)  BY <1>18, AnswerType DEF NoHelper
<1> QED
  BY <1>1, <1>2, <1>3, <1>4, <1>5, <1>6, <1>7, <1>8, <1>9, <1>10, <1>11, <1>12,
     <1>13, <1>14, <1>15, <1>16, <1>17, <1>18 DEF Call

LEMMA EnvironmentType ==
  ASSUME TypeOK, Named, Sized,
         \/ \E p \in Session : Fault(p)
         \/ \E v \in Volume : Exit(v)
         \/ Crash
  PROVE  TypeOK'
<1>1. CASE \E p \in Session : Fault(p)
  <2>1. PICK p \in Session : Fault(p)  BY <1>1
  <2>2. specs' \in [Volume -> Budget \cup {Nil}]  BY <2>1, RecordType DEF Fault, TypeOK
  <2> QED  BY <2>1, <2>2, AnswerType DEF Fault, TypeOK
<1>2. CASE \E v \in Volume : Exit(v)
  <2>1. PICK v \in Volume : Exit(v)  BY <1>2
  <2>2. helper[v] \in Helper  BY <2>1 DEF Exit, Runs, TypeOK
  <2> QED  BY <2>1, <2>2 DEF Exit, TypeOK, Helper
<1>3. CASE Crash
  BY <1>3, ConstantsAssumption, NoLocalType DEF Crash, TypeOK, Calls
<1> QED  BY <1>1, <1>2, <1>3

LEMMA TypeStep == TypeOK /\ Rest /\ [Next]_vars => TypeOK'
<1> SUFFICES ASSUME TypeOK, Named, Sized, [Next]_vars PROVE TypeOK'
  BY DEF Rest
<1>1. CASE UNCHANGED vars  BY <1>1 DEF vars, TypeOK
<1> QED
  BY <1>1, RequestType, CallType, EnvironmentType DEF Next

-----------------------------------------------------------------------------
(***************************************************************************)
(* Released and what it depends on.                                        *)
(***************************************************************************)

LEMMA RestInit == Init => Rest
BY NilAssumption
   DEF Init, Rest, MuHeld, Named, Sized, Uncached, HelperKnown, Targeted, Released, Helping

\* A step that touches neither helpers nor the cache and neither takes volMu nor
\* goes to one of the calls that remove a volume.
LEMMA Quiet ==
  ASSUME TypeOK, Rest, NEW p \in Session, NEW l \in Locals, NEW at \in Calls,
         Step(p, l, at), UNCHANGED <<helper, cache>>,
         mu' = IF mu = p THEN Nil ELSE mu,
         at \notin Helping \cup {"kill", "remove"},
         at # "idle" => l.op \in AllOps /\ l.v \in Volume,
         at = "own" => l.op # "create",
         at \in {"create", "record"} /\ IsMember(p) => l.size > 0
  PROVE  Rest'
<1>1. /\ pc'[p] = at /\ loc'[p] = l
      /\ \A q \in Session \ {p} : pc'[q] = pc[q] /\ loc'[q] = loc[q]
  BY DEF Step, TypeOK
<1>2. MuHeld'
  BY <1>1, NilAssumption DEF Rest, MuHeld
<1>3. Named' /\ Sized'
  BY <1>1 DEF Rest, Named, Sized
<1>4. Uncached'
  BY <1>1 DEF Rest, Uncached
<1>5. HelperKnown'
  BY DEF Rest, HelperKnown
<1>6. Targeted' /\ Released'
  BY <1>1 DEF Rest, Targeted, Released
<1> QED
  BY <1>2, <1>3, <1>4, <1>5, <1>6 DEF Rest

\* An answer that leaves helpers and the cache alone.
LEMMA QuietAnswer ==
  ASSUME TypeOK, Rest, NEW p \in Session, Answer(p), UNCHANGED <<helper, cache>>
  PROVE  Rest'
BY Quiet, NoLocalType DEF Answer, Calls, Helping

\* A call that is not made under volMu, and leaves helpers and the cache alone.
LEMMA QuietGoto ==
  ASSUME TypeOK, Rest, NEW p \in Session, NEW at \in Calls,
         pc[p] \notin Helping \cup {"idle"}, Goto(p, at), UNCHANGED <<helper, cache, mu>>,
         at \notin Helping \cup {"kill", "remove", "own", "idle"},
         at \in {"create", "record"} /\ IsMember(p) => loc[p].size > 0
  PROVE  Rest'
<1>1. loc[p] \in Locals /\ loc[p].op \in AllOps /\ loc[p].v \in Volume
  BY DEF TypeOK, Rest, Named
<1>2. mu' = IF mu = p THEN Nil ELSE mu
  BY DEF Rest, MuHeld
<1> QED
  BY <1>1, <1>2, Quiet DEF Goto

LEMMA BeginRest ==
  ASSUME TypeOK, Rest, NEW p \in Session, NEW op \in AllOps, NEW v \in Volume,
         NEW size \in 0..MaxSize, Begin(p, op, v, size)
  PROVE  Rest'
<1> DEFINE l == [NoLocal EXCEPT !.op = op, !.v = v, !.size = size]
           at == IF ~IsMember(p) THEN First[op] ELSE IF op = "create" THEN "check" ELSE "own"
<1>1. l \in Locals /\ l.op = op /\ l.v = v
  BY NoLocalType DEF NoLocal, Locals
<1>2. /\ Step(p, l, at) /\ UNCHANGED <<helper, cache>>
      /\ pc[p] = "idle" /\ mu' = mu
  BY DEF Begin
<1>3. First[op] = "lookup" \/ First[op] \in {"create", "record", "release"}
  BY DEF First, AllOps
<1>4. /\ at \in Calls
      /\ at \notin Helping \cup {"kill", "remove", "idle"}
      /\ at = "own" => op # "create"
      /\ at \in {"create", "record"} => ~IsMember(p)
  BY <1>3 DEF Calls, Helping
<1>5. mu' = IF mu = p THEN Nil ELSE mu
  BY <1>2 DEF Rest, MuHeld, Helping
<1> HIDE DEF l, at
<1> QED
  BY <1>1, <1>2, <1>4, <1>5, Quiet

LEMMA RequestRest == ASSUME TypeOK, Rest, NEW p \in Session, Request(p) PROVE Rest'
<1>1. PICK v \in Volume :
        \/ \E size \in 0..MaxSize : CreateVolume(p, v, size) \/ ResizeVolume(p, v, size)
        \/ RemoveVolume(p, v)
        \/ BrowseVolume(p, v)
  BY DEF Request
<1>2. 0 \in 0..MaxSize  BY ConstantsAssumption
<1>3. {"create", "resize", "remove", "browse"} = AllOps  BY DEF AllOps
<1> QED
  BY <1>1, <1>2, <1>3, BeginRest DEF CreateVolume, ResizeVolume, RemoveVolume, BrowseVolume

\* No helper is made: one is removed, stops or starts, or nothing happens to it.
Fewer == \A v \in Volume :
  helper'[v] = Nil \/ (helper[v] # Nil /\ helper'[v].id = helper[v].id)

\* What the other sessions are about to remove stays what it was.
LEMMA Removals ==
  ASSUME TypeOK, Rest, NEW p \in Session, Fewer, NEW l, NEW at, Step(p, l, at),
         at \notin {"kill", "remove"}
  PROVE  Targeted' /\ Released'
<1>1. /\ pc'[p] = at
      /\ \A q \in Session \ {p} : pc'[q] = pc[q] /\ loc'[q] = loc[q]
  BY DEF Step, TypeOK
<1>2. \A q \in Session \ {p} : pc[q] \in {"kill", "remove"} => loc[q].v \in Volume
  BY DEF Rest, Named
<1> QED
  BY <1>1, <1>2 DEF Rest, Targeted, Released, Fewer

\* A call of volumeHelper under volMu, which keeps it.
LEMMA HelpingGoto ==
  ASSUME TypeOK, Rest, NEW p \in Session, NEW l \in Locals, NEW at \in Helping, Step(p, l, at),
         pc[p] \in Helping, l.op = loc[p].op, l.v = loc[p].v,
         Fewer, UNCHANGED <<cache, mu>>
  PROVE  Rest'
<1>1. /\ pc'[p] = at /\ loc'[p] = l
      /\ \A q \in Session \ {p} : pc'[q] = pc[q] /\ loc'[q] = loc[q]
  BY DEF Step, TypeOK
<1>2. MuHeld' /\ Named' /\ Sized' /\ Uncached'
  BY <1>1 DEF Rest, MuHeld, Named, Sized, Uncached, Helping
<1>3. HelperKnown'
  BY DEF Rest, HelperKnown, Fewer
<1> QED
  BY <1>2, <1>3, Removals DEF Rest, Helping

\* volumeHelper caches the id of the running helper, and returns.
LEMMA CacheAnswer ==
  ASSUME TypeOK, Rest, NEW p \in Session, pc[p] \in Helping, Answer(p), Fewer,
         NEW id, cache' = [cache EXCEPT ![loc[p].v] = id],
         id = Nil \/ helper'[loc[p].v].id = id
  PROVE  Rest'
<1>1. /\ pc'[p] = "idle" /\ loc'[p] = NoLocal
      /\ \A q \in Session \ {p} : pc'[q] = pc[q] /\ loc'[q] = loc[q]
  BY DEF Answer, Step, TypeOK
<1>2. mu = p /\ mu' = Nil /\ \A q \in Session \ {p} : pc[q] \notin Helping
  BY DEF Rest, MuHeld, Answer
<1>3. MuHeld' /\ Named' /\ Sized' /\ Uncached'
  BY <1>1, <1>2, NilAssumption DEF Rest, MuHeld, Named, Sized, Uncached, Helping
<1>4. HelperKnown'
  BY DEF Rest, HelperKnown, Fewer, TypeOK
<1> QED
  BY <1>3, <1>4, Removals DEF Rest, Answer

\* releaseHelper takes the helper's id, or stands for its name.
LEMMA ReleaseRest == ASSUME TypeOK, Rest, NEW p \in Session, Release(p) PROVE Rest'
<1> DEFINE l == [loc[p] EXCEPT !.id = cache[loc[p].v]]
<1>1. /\ loc[p].op \in AllOps /\ loc[p].v \in Volume /\ loc[p] \in Locals
  BY DEF Release, Rest, Named, TypeOK
<1>2. l.op = loc[p].op /\ l.v = loc[p].v /\ l.id = cache[loc[p].v]
  BY <1>1 DEF Locals
<1>3. /\ pc'[p] = "kill" /\ loc'[p] = l
      /\ \A q \in Session \ {p} : pc'[q] = pc[q] /\ loc'[q] = loc[q]
      /\ pc[p] = "release" /\ mu = Nil
      /\ UNCHANGED <<helper, mu>>
      /\ cache' = [cache EXCEPT ![loc[p].v] = Nil]
  BY DEF Release, Step, TypeOK
<1> HIDE DEF l
<1>4. MuHeld' /\ Named' /\ Sized'
  BY <1>1, <1>2, <1>3 DEF Rest, MuHeld, Named, Sized, Helping
<1>5. Uncached' /\ HelperKnown'
  BY <1>1, <1>3 DEF Rest, Uncached, HelperKnown, TypeOK, Helping
<1>6. Released'
  BY <1>3 DEF Rest, Released
<1>7. Targeted'
  BY <1>1, <1>2, <1>3 DEF Rest, Targeted, HelperKnown
<1> QED
  BY <1>4, <1>5, <1>6, <1>7 DEF Rest

\* The container removed is the helper, unless a later one was made.
LEMMA KillRest == ASSUME TypeOK, Rest, NEW p \in Session, Kill(p) PROVE Rest'
<1> DEFINE v == loc[p].v
<1>1. /\ loc[p].op \in AllOps /\ v \in Volume /\ loc[p] \in Locals
  BY DEF Kill, Rest, Named, TypeOK
<1>2. /\ pc[p] = "kill" /\ pc'[p] = "remove"
      /\ loc'[p] = loc[p] \/ loc'[p] = [loc[p] EXCEPT !.again = TRUE]
      /\ \A q \in Session \ {p} : pc'[q] = pc[q] /\ loc'[q] = loc[q]
      /\ UNCHANGED <<cache, mu>>
  BY DEF Kill, Goto, Step, TypeOK
<1>3. loc'[p].op = loc[p].op /\ loc'[p].v = v
  BY <1>1, <1>2 DEF Locals
<1>4. \A w \in Volume : helper'[w] = Nil \/ helper'[w] = helper[w]
  BY DEF Kill, TypeOK
<1>5. MuHeld' /\ Named' /\ Sized' /\ Uncached' /\ HelperKnown'
  BY <1>1, <1>2, <1>3, <1>4 DEF Rest, MuHeld, Named, Sized, Uncached, HelperKnown, Helping
<1>6. Targeted'
  BY <1>2, <1>4 DEF Rest, Targeted, Named
<1>7. helper'[v] = Nil \/ loc'[p].again
  <2>1. CASE helper' = [helper EXCEPT ![v] = IF Names(loc[p].id, v) THEN Nil ELSE @]
               /\ loc'[p] = loc[p]
    BY <2>1, <1>1, <1>2 DEF Rest, Targeted, Names, TypeOK
  <2>2. CASE loc'[p] = [loc[p] EXCEPT !.again = TRUE]
    BY <2>2, <1>1 DEF Locals
  <2> QED
    BY <2>1, <2>2 DEF Kill, Goto, Step, TypeOK
<1>8. Released'
  BY <1>2, <1>3, <1>4, <1>7 DEF Rest, Released, Named
<1> QED
  BY <1>5, <1>6, <1>8 DEF Rest

LEMMA NotCachedRest == ASSUME TypeOK, Rest, NEW p \in Session, NotCached(p) PROVE Rest'
<1>1. /\ loc[p].op \in AllOps /\ loc[p].v \in Volume
  BY DEF NotCached, Rest, Named
<1>2. /\ pc'[p] = "find" /\ pc[p] = "lookup" /\ loc' = loc
      /\ \A q \in Session \ {p} : pc'[q] = pc[q] /\ pc[q] \notin Helping
      /\ mu = Nil /\ mu' = p /\ UNCHANGED helper
      /\ cache' = [cache EXCEPT ![loc[p].v] = Nil]
  BY NilAssumption DEF NotCached, Goto, Step, TypeOK, Rest, MuHeld
<1>3. MuHeld' /\ Named' /\ Sized'
  BY <1>1, <1>2, NilAssumption DEF Rest, MuHeld, Named, Sized, Helping
<1>4. Uncached' /\ HelperKnown'
  BY <1>1, <1>2 DEF Rest, Uncached, HelperKnown, TypeOK, Helping
<1>5. Targeted' /\ Released'
  BY <1>2 DEF Rest, Targeted, Released
<1> QED
  BY <1>3, <1>4, <1>5 DEF Rest

\* A helper is made: what others are about to remove is not the latest any more.
LEMMA MakeRest == ASSUME TypeOK, Rest, NEW p \in Session, Make(p) PROVE Rest'
<1> DEFINE v == loc[p].v
           id == CHOOSE x \in FreshIds(v) : TRUE
<1>1. /\ loc[p].op \in AllOps /\ v \in Volume
      /\ \A q \in Session : loc[q] \in Locals
  BY DEF Make, Rest, Named, TypeOK
<1>2. /\ helper' = [helper EXCEPT ![v] = [id |-> id, up |-> FALSE]]
      /\ \A q \in Session : loc'[q] =
           CASE q = p -> [loc[p] EXCEPT !.id = id]
             [] q # p /\ pc[q] \in {"kill", "remove"} /\ loc[q].v = v
                -> [loc[q] EXCEPT !.again = TRUE]
             [] OTHER -> loc[q]
      /\ pc[p] = "make" /\ pc' = [pc EXCEPT ![p] = "start"]
      /\ UNCHANGED <<cache, mu>>
  BY DEF Make
<1> HIDE DEF v, id
<1>3. /\ pc'[p] = "start" /\ \A q \in Session \ {p} : pc'[q] = pc[q]
      /\ \A w \in Volume \ {v} : helper'[w] = helper[w]
  BY <1>2 DEF TypeOK
<1>4. \A q \in Session \ {p} :
        IF pc[q] \in {"kill", "remove"} /\ loc[q].v = v
        THEN loc'[q] = [loc[q] EXCEPT !.again = TRUE] ELSE loc'[q] = loc[q]
  BY <1>2
<1>5. loc'[p] = [loc[p] EXCEPT !.id = id]
  BY <1>2
<1>6. ASSUME NEW q \in Session
      PROVE  loc'[q].op = loc[q].op /\ loc'[q].v = loc[q].v /\ loc'[q].size = loc[q].size
  <2>1. loc[q] \in Locals
    BY <1>1
  <2>2. CASE q = p
    BY <2>1, <2>2, <1>5 DEF Locals
  <2>3. CASE q # p
    BY <2>1, <2>3, <1>4 DEF Locals
  <2> QED
    BY <2>2, <2>3
<1>7. \A q \in Session \ {p} :
        pc[q] \in {"kill", "remove"} => IF loc[q].v = v THEN loc'[q].again
                                        ELSE loc'[q] = loc[q]
  BY <1>1, <1>4 DEF Locals
<1>8. MuHeld' /\ Named' /\ Sized' /\ Uncached'
  BY <1>1, <1>2, <1>3, <1>6 DEF Rest, MuHeld, Named, Sized, Uncached, Helping
<1>9. HelperKnown'
  <2>1. cache[v] = Nil
    BY <1>2 DEF Rest, Uncached, Helping, v
  <2> QED
    BY <2>1, <1>2, <1>3 DEF Rest, HelperKnown
<1>10. Targeted' /\ Released'
  BY <1>3, <1>6, <1>7 DEF Rest, Targeted, Released, Named
<1> QED
  BY <1>8, <1>9, <1>10 DEF Rest

LEMMA CallRest == ASSUME TypeOK, Rest, NEW p \in Session, Call(p) PROVE Rest'
<1>v. /\ loc[p] \in Locals
      /\ pc[p] # "idle" => loc[p].op \in AllOps /\ loc[p].v \in Volume
  BY DEF TypeOK, Rest, Named
<1>f. Fewer <=> \A w \in Volume :
        helper'[w] = Nil \/ (helper[w] # Nil /\ helper'[w].id = helper[w].id)
  BY DEF Fewer
<1>k. UNCHANGED helper => Fewer
  BY <1>f
<1>1. CASE Own(p)
  <2>1. IF loc[p].op = "resize" THEN TRUE ELSE First[loc[p].op] \in {"release", "lookup"}
    BY <1>1, <1>v DEF Own, Rest, Named, AllOps, First
  <2> QED  BY <1>1, <2>1, QuietGoto DEF Own, Calls, Helping
<1>2. CASE Check(p)
  <2>1. loc[p].size > 0  BY <1>2 DEF Check, Fits
  <2>2. First[loc[p].op] \in {"create", "record", "release", "lookup"}
    BY <1>2, <1>v DEF Check, First, AllOps
  <2> QED  BY <1>2, <2>1, <2>2, QuietGoto DEF Check, Calls, Helping
<1>3. CASE Deny(p)  BY <1>3, QuietAnswer DEF Deny
<1>4. CASE DockerCreate(p)
  BY <1>4, QuietGoto DEF DockerCreate, Calls, Helping, Rest, Sized
<1>5. CASE Record(p)  BY <1>5, QuietAnswer DEF Record
<1>6. CASE Release(p)  BY <1>6, ReleaseRest
<1>7. CASE Kill(p)  BY <1>7, KillRest
<1>8. CASE DockerRemove(p)  BY <1>8, QuietGoto DEF DockerRemove, Calls, Helping
<1>9. CASE NotRemoved(p)  BY <1>9, QuietAnswer DEF NotRemoved
<1>10. CASE Forget(p)  BY <1>10, QuietAnswer DEF Forget
<1>11. CASE Cached(p)  BY <1>11, QuietAnswer DEF Cached
<1>12. CASE NotCached(p)  BY <1>12, NotCachedRest
<1>13. CASE Adopt(p)  BY <1>13, <1>k, CacheAnswer DEF Adopt, Helping
<1>14. CASE Find(p)
  <2>1. ASSUME Goto(p, "make") PROVE Rest'
    BY <1>14, <2>1, <1>v, <1>k, HelpingGoto DEF Find, Goto, Helping
  <2>2. ASSUME helper[loc[p].v] # Nil,
               Step(p, [loc[p] EXCEPT !.id = helper[loc[p].v].id], "clear")
        PROVE  Rest'
    <3> DEFINE l == [loc[p] EXCEPT !.id = helper[loc[p].v].id]
    <3>1. helper[loc[p].v].id \in CID
      BY <1>14, <2>2, <1>v DEF Find, TypeOK, Helper
    <3>2. l \in Locals /\ l.op = loc[p].op /\ l.v = loc[p].v
      BY <3>1, <1>v DEF Locals
    <3> HIDE DEF l
    <3> QED  BY <1>14, <2>2, <3>2, <1>k, HelpingGoto DEF Find, Helping, l
  <2> QED  BY <1>14, <2>1, <2>2 DEF Find
<1>15. CASE Clear(p)
  <2>1. Fewer  BY <1>15, <1>f DEF Clear, TypeOK
  <2> QED  BY <1>15, <2>1, <1>v, HelpingGoto DEF Clear, Goto, Helping
<1>16. CASE Make(p)  BY <1>16, MakeRest
<1>17. CASE StartHelper(p)
  <2>1. helper[loc[p].v] \in Helper
    BY <1>17, <1>v DEF StartHelper, Names, TypeOK
  <2>2. /\ Fewer /\ helper'[loc[p].v].id = helper[loc[p].v].id
    BY <1>17, <1>f, <1>v, <2>1, NilAssumption DEF StartHelper, TypeOK, Helper
  <2> QED  BY <1>17, <2>2, CacheAnswer DEF StartHelper, Helping, Names
<1>18. CASE NoHelper(p)  BY <1>18, QuietAnswer DEF NoHelper
<1> QED
  BY <1>1, <1>2, <1>3, <1>4, <1>5, <1>6, <1>7, <1>8, <1>9, <1>10, <1>11, <1>12,
     <1>13, <1>14, <1>15, <1>16, <1>17, <1>18 DEF Call

\* Failing calls, helpers that stop, and a server that does.
LEMMA EnvironmentRest ==
  ASSUME TypeOK, Rest,
         \/ \E p \in Session : Fault(p)
         \/ \E v \in Volume : Exit(v)
         \/ Crash
  PROVE  Rest'
<1>1. CASE \E p \in Session : Fault(p)
  BY <1>1, QuietAnswer DEF Fault
<1>2. CASE \E v \in Volume : Exit(v)
  <2>1. PICK v \in Volume : Exit(v)  BY <1>2
  <2>2. /\ helper[v] \in Helper /\ UNCHANGED <<cache, mu, pc, loc>>
        /\ helper' = [helper EXCEPT ![v].up = FALSE]
    BY <2>1 DEF Exit, Runs, TypeOK
  <2>3. \A w \in Volume : helper'[w] = helper[w] \/
          (helper[w] # Nil /\ helper'[w] # Nil /\ helper'[w].id = helper[w].id)
    BY <2>2, NilAssumption DEF TypeOK, Helper
  <2>4. MuHeld' /\ Named' /\ Sized' /\ Uncached'
    BY <2>2 DEF Rest, MuHeld, Named, Sized, Uncached
  <2>5. HelperKnown'
    BY <2>2, <2>3 DEF Rest, HelperKnown
  <2>6. Targeted' /\ Released'
    BY <2>2, <2>3 DEF Rest, Targeted, Released, Named
  <2> QED  BY <2>4, <2>5, <2>6 DEF Rest
<1>3. CASE Crash
  BY <1>3, NilAssumption
     DEF Crash, Rest, MuHeld, Named, Sized, Uncached, HelperKnown, Targeted, Released, Helping
<1> QED  BY <1>1, <1>2, <1>3

LEMMA RestStep == TypeOK /\ Rest /\ [Next]_vars => Rest'
<1> SUFFICES ASSUME TypeOK, Rest, [Next]_vars PROVE Rest'
  OBVIOUS
<1>1. CASE UNCHANGED vars
  BY <1>1 DEF vars, Rest, MuHeld, Named, Sized, Uncached, HelperKnown, Targeted, Released
<1> QED
  BY <1>1, RequestRest, CallRest, EnvironmentRest DEF Next

-----------------------------------------------------------------------------
(***************************************************************************)
(* The budgets.                                                            *)
(***************************************************************************)

\* A member sends one request at a time.
OneAtATime == \A p, q \in Session : IsMember(p) /\ Caller[p] = Caller[q] => p = q

\* The check of a request that is about to be recorded would pass again.
StillFits == \A p \in Session :
  pc[p] \in {"create", "record"} /\ IsMember(p) =>
    Fits(Caller[p], loc[p].v, loc[p].size, loc[p].op)


LEMMA UsageIs ==
  ASSUME IsFiniteSet(Volume), specs \in [Volume -> Budget \cup {Nil}],
         NEW m \in Member, NEW out \in SUBSET Volume
  PROVE  /\ IsFiniteSet(Owned(m, out))
         /\ \A v \in Owned(m, out) : specs[v].size \in Nat
         /\ Usage(m, out) = SumFunctionOnSet([v \in Owned(m, out) |-> specs[v].size], Owned(m, out))
         /\ Usage(m, out) \in Nat
<1> DEFINE O == Owned(m, out)
           f == [v \in O |-> specs[v].size]
<1>1. IsFiniteSet(O)
  BY FS_Subset DEF Owned
<1>2. \A v \in O : specs[v].size \in Nat
  BY ConstantsAssumption DEF Owned, Budget
<1>3. Usage(m, out) = SumFunctionOnSet(f, O)
  BY DEF Usage, SumFunction
<1>4. SumFunctionOnSet(f, O) \in Nat
  <2>1. \A v \in O : f[v] \in Nat
    BY <1>2
  <2> HIDE DEF f, O
  <2> QED
    BY <1>1, <2>1, SumType
<1> QED
  BY <1>1, <1>2, <1>3, <1>4

\* Budgets that go to another owner or away only lower a member's usage.
LEMMA UsageFalls ==
  ASSUME IsFiniteSet(Volume), specs \in [Volume -> Budget \cup {Nil}],
         specs' \in [Volume -> Budget \cup {Nil}],
         NEW m \in Member, NEW out \in SUBSET Volume,
         \A v \in Volume : specs'[v] \in {specs[v], Nil} \/ specs'[v].owner # m
  PROVE  Usage(m, out)' <= Usage(m, out) /\ Usage(m, out)' \in Nat
<1> DEFINE O == Owned(m, out)
           f == [v \in O |-> specs[v].size]
           P == Owned(m, out)'
           g == [v \in P |-> specs'[v].size]
<1>1. /\ IsFiniteSet(O) /\ \A v \in O : specs[v].size \in Nat
      /\ Usage(m, out) = SumFunctionOnSet(f, O)
  BY UsageIs
<1>2. P \subseteq O /\ \A v \in P : specs'[v] = specs[v]
  BY DEF Owned
<1>3. Usage(m, out)' = SumFunctionOnSet(g, P)
  BY DEF Usage, SumFunction
<1>4. /\ \A v \in P : g[v] = f[v]
      /\ \A v \in O : f[v] \in Nat
  BY <1>1, <1>2
<1>5. SumFunctionOnSet(g, P) = SumFunctionOnSet(f, P)
  <2>1. IsFiniteSet(P)
    BY <1>1, <1>2, FS_Subset
  <2> HIDE DEF f, g, O, P
  <2> QED
    BY <1>4, <2>1, SumSame
<1>6. SumFunctionOnSet(f, P) <= SumFunctionOnSet(f, O)
  <2> HIDE DEF f, g, O, P
  <2> QED
    BY <1>1, <1>2, <1>4, SumSubset
<1>7. SumFunctionOnSet(f, P) \in Nat
  <2> HIDE DEF f, g, O, P
  <2> QED
    BY <1>1, <1>2, <1>4, FS_Subset, SumType
<1> QED
  BY <1>1, <1>3, <1>5, <1>6, <1>7

\* What is recorded of a member's request adds its size to the other budgets.
LEMMA UsageRecorded ==
  ASSUME IsFiniteSet(Volume), specs \in [Volume -> Budget \cup {Nil}],
         NEW m \in Member, NEW v \in Volume, NEW n \in Nat,
         specs' = [specs EXCEPT ![v] = [owner |-> m, size |-> n]],
         specs' \in [Volume -> Budget \cup {Nil}],
         [owner |-> m, size |-> n] # Nil
  PROVE  Usage(m, {})' = n + Usage(m, {v})
<1> DEFINE O == Owned(m, {v})
           f == [w \in O |-> specs[w].size]
           P == Owned(m, {})'
           g == [w \in P |-> specs'[w].size]
<1>1. /\ IsFiniteSet(O) /\ \A w \in O : specs[w].size \in Nat
      /\ Usage(m, {v}) = SumFunctionOnSet(f, O)
  BY UsageIs
<1>2. P = O \cup {v} /\ v \notin O /\ P \ {v} = O
  BY DEF Owned
<1>3. \A w \in O : specs'[w] = specs[w]
  BY <1>2
<1>4. Usage(m, {})' = SumFunctionOnSet(g, P)
  BY DEF Usage, SumFunction
<1>5. /\ \A w \in O : g[w] = f[w] /\ g[w] \in Nat
      /\ g[v] = n
  <2>1. specs'[v].size = n /\ v \in P
    BY <1>2
  <2>2. \A w \in O : f[w] = specs[w].size /\ f[w] \in Nat
    BY <1>1
  <2>3. \A w \in O : g[w] = specs'[w].size
    BY <1>2
  <2>4. g[v] = n
    BY <2>1
  <2> HIDE DEF f, g, O, P
  <2> QED
    BY <1>3, <2>2, <2>3, <2>4
<1>6. SumFunctionOnSet(g, P) = g[v] + SumFunctionOnSet(g, P \ {v})
  <2>1. IsFiniteSet(P)
    BY FS_Subset DEF Owned
  <2>2. \A w \in P : g[w] \in Nat
    BY <1>2, <1>5
  <2> HIDE DEF f, g, O, P
  <2> QED
    BY <1>2, <2>1, <2>2, SumRemove
<1>7. SumFunctionOnSet(g, O) = SumFunctionOnSet(f, O)
  <2> HIDE DEF f, g, O, P
  <2> QED
    BY <1>1, <1>5, SumSame
<1> QED
  BY <1>1, <1>2, <1>4, <1>5, <1>6, <1>7

\* A request that a member's quota check let through.
LEMMA FitsFalls ==
  ASSUME IsFiniteSet(Volume), specs \in [Volume -> Budget \cup {Nil}],
         specs' \in [Volume -> Budget \cup {Nil}],
         NEW m \in Member, NEW v \in Volume, NEW size \in Nat, NEW op, Fits(m, v, size, op),
         \A w \in Volume : specs'[w] \in {specs[w], Nil} \/ specs'[w].owner # m
  PROVE  Fits(m, v, size, op)'
<1> DEFINE out == IF op = "resize" THEN {v} ELSE {}
<1>1. out \in SUBSET Volume
  OBVIOUS
<1>2. size > 0 /\ Usage(m, out) + size <= Quota[m]
  BY DEF Fits
<1>3. /\ Usage(m, out)' <= Usage(m, out) /\ Usage(m, out) \in Nat
      /\ Usage(m, out)' \in Nat
  BY <1>1, UsageFalls, UsageIs
<1>5. Usage(m, out)' + size <= Quota[m]
  <2>1. Quota[m] \in Nat
    BY ConstantsAssumption
  <2> HIDE DEF out
  <2> QED
    BY <1>2, <1>3, <2>1
<1> QED
  BY <1>2, <1>5 DEF Fits

\* A step that gives no member a larger usage, and lets no request through.
LEMMA FallingStep ==
  ASSUME IsFiniteSet(Volume), TypeOK, TypeOK', StillFits, WithinQuota, Named,
         \A v \in Volume : specs'[v] \in {specs[v], Nil} \/ specs'[v].owner = NoOwner,
         \A p \in Session : pc'[p] \in {"create", "record"} /\ IsMember(p) =>
            /\ loc'[p] = loc[p] /\ pc[p] # "idle"
            /\ \/ pc[p] \in {"create", "record"}
               \/ Fits(Caller[p], loc[p].v, loc[p].size, loc[p].op)
  PROVE  StillFits' /\ WithinQuota'
<1>1. specs \in [Volume -> Budget \cup {Nil}] /\ specs' \in [Volume -> Budget \cup {Nil}]
  BY DEF TypeOK
<1>2. \A m \in Member, v \in Volume :
        specs'[v] \in {specs[v], Nil} \/ specs'[v].owner # m
  BY ConstantsAssumption
<1>3. ASSUME NEW m \in Member PROVE Usage(m, {})' <= Quota[m]
  <2>1. {} \in SUBSET Volume
    OBVIOUS
  <2>2. /\ Usage(m, {})' <= Usage(m, {}) /\ Usage(m, {})' \in Nat
        /\ Usage(m, {}) \in Nat /\ Usage(m, {}) <= Quota[m]
    BY <1>1, <1>2, <2>1, UsageFalls, UsageIs DEF WithinQuota
  <2> QED
    BY <2>2, ConstantsAssumption
<1>4. ASSUME NEW p \in Session, pc'[p] \in {"create", "record"}, IsMember(p)
      PROVE  Fits(Caller[p], loc[p].v, loc[p].size, loc[p].op)'
  <2>1. Fits(Caller[p], loc[p].v, loc[p].size, loc[p].op)
    BY <1>4 DEF StillFits
  <2>2. /\ Caller[p] \in Member /\ loc[p].v \in Volume /\ loc[p].size \in Nat
        /\ loc'[p] = loc[p]
    BY <1>4, ConstantsAssumption DEF Named, IsMember, TypeOK, Locals
  <2>3. PICK v \in Volume, size \in Nat, op \in {loc[p].op} :
          v = loc[p].v /\ size = loc[p].size
    BY <2>2
  <2>4. Fits(Caller[p], v, size, op)'
    BY <1>1, <1>2, <2>1, <2>2, <2>3, FitsFalls
  <2> QED
    BY <2>2, <2>3, <2>4
<1> QED
  BY <1>3, <1>4 DEF StillFits, WithinQuota

\* The budget of one volume left out.
LEMMA UsageWithout ==
  ASSUME IsFiniteSet(Volume), specs \in [Volume -> Budget \cup {Nil}],
         NEW m \in Member, NEW v \in Volume
  PROVE  Usage(m, {v}) <= Usage(m, {})
<1> DEFINE O == Owned(m, {})
           f == [w \in O |-> specs[w].size]
           P == Owned(m, {v})
           g == [w \in P |-> specs[w].size]
<1>1. /\ IsFiniteSet(O) /\ \A w \in O : specs[w].size \in Nat
      /\ Usage(m, {}) = SumFunctionOnSet(f, O)
  BY UsageIs
<1>2. Usage(m, {v}) = SumFunctionOnSet(g, P)
  BY DEF Usage, SumFunction
<1>3. P \subseteq O
  BY DEF Owned
<1>4. (\A w \in P : g[w] = f[w]) /\ (\A w \in O : f[w] \in Nat)
  BY <1>1, <1>3
<1>5. SumFunctionOnSet(g, P) = SumFunctionOnSet(f, P)
  <2> HIDE DEF f, g, O, P
  <2> QED
    BY <1>1, <1>3, <1>4, FS_Subset, SumSame
<1>6. SumFunctionOnSet(f, P) <= SumFunctionOnSet(f, O)
  <2> HIDE DEF f, g, O, P
  <2> QED
    BY <1>1, <1>3, <1>4, SumSubset
<1> QED
  BY <1>1, <1>2, <1>5, <1>6

Recorded(p) ==
  /\ pc[p] = "record" /\ Answer(p)
  /\ specs' = [specs EXCEPT ![loc[p].v] = [owner |-> Caller[p], size |-> loc[p].size]]

\* The record of a member's request that its check let through.
LEMMA MemberRecords ==
  ASSUME OneAtATime, IsFiniteSet(Volume), TypeOK, TypeOK', StillFits, WithinQuota, Named,
         NEW p \in Session, IsMember(p), Recorded(p)
  PROVE  StillFits' /\ WithinQuota'
<1>1. /\ specs \in [Volume -> Budget \cup {Nil}]
      /\ specs' \in [Volume -> Budget \cup {Nil}]
  BY DEF TypeOK
<1>2. /\ Caller[p] \in Member /\ loc[p].v \in Volume /\ loc[p].size \in Nat
      /\ Fits(Caller[p], loc[p].v, loc[p].size, loc[p].op)
  BY ConstantsAssumption DEF Recorded, StillFits, IsMember, Named, TypeOK, Locals
<1>3. \A m \in Member \ {Caller[p]}, v \in Volume :
        specs'[v] \in {specs[v], Nil} \/ specs'[v].owner # m
  BY <1>1, <1>2 DEF Recorded
<1>4. ASSUME NEW m \in Member \ {Caller[p]} PROVE Usage(m, {})' <= Quota[m]
  <2>1. {} \in SUBSET Volume
    OBVIOUS
  <2>2. /\ Usage(m, {})' <= Usage(m, {}) /\ Usage(m, {})' \in Nat
        /\ Usage(m, {}) \in Nat /\ Usage(m, {}) <= Quota[m]
    BY <1>1, <1>3, <2>1, UsageFalls, UsageIs DEF WithinQuota
  <2> QED
    BY <2>2, ConstantsAssumption
<1>5. Usage(Caller[p], {})' <= Quota[Caller[p]]
  <2>1. PICK v \in Volume, n \in Nat, m \in Member :
          v = loc[p].v /\ n = loc[p].size /\ m = Caller[p]
    BY <1>2
  <2>2. specs' = [specs EXCEPT ![v] = [owner |-> m, size |-> n]]
    BY <2>1 DEF Recorded
  <2>3. [owner |-> m, size |-> n] # Nil
    <3>1. specs'[v] = [owner |-> m, size |-> n] /\ n > 0
      BY <1>1, <1>2, <2>1, <2>2 DEF Fits
    <3>2. n \in 1..MaxSize
      BY <3>1, <2>1, ConstantsAssumption DEF TypeOK, Locals
    <3> QED
      BY <3>2, NilAssumption DEF Budget
  <2>4. Usage(m, {})' = n + Usage(m, {v})
    BY <1>1, <2>2, <2>3, UsageRecorded
  <2>5. Usage(m, {v}) \in Nat /\ Usage(m, {}) \in Nat /\ Usage(m, {v}) <= Usage(m, {})
    <3>1. {v} \in SUBSET Volume /\ {} \in SUBSET Volume
      OBVIOUS
    <3> QED
      BY <1>1, <3>1, UsageIs, UsageWithout
  <2>6. Usage(m, {v}) + n <= Quota[m] \/ Usage(m, {}) + n <= Quota[m]
    BY <1>2, <2>1 DEF Fits
  <2>7. Usage(m, {})' <= Quota[m]
    BY <2>4, <2>5, <2>6, ConstantsAssumption
  <2> QED
    BY <2>1, <2>7
<1>6. ASSUME NEW q \in Session, pc'[q] \in {"create", "record"}, IsMember(q)
      PROVE  Fits(Caller[q], loc[q].v, loc[q].size, loc[q].op)'
  <2>1. q # p /\ pc'[q] = pc[q] /\ loc'[q] = loc[q]
    BY <1>6 DEF Recorded, Answer, Step, TypeOK
  <2>2. /\ Caller[q] \in Member \ {Caller[p]}
        /\ loc[q].v \in Volume /\ loc[q].size \in Nat
        /\ Fits(Caller[q], loc[q].v, loc[q].size, loc[q].op)
    BY <1>6, <2>1, ConstantsAssumption
       DEF OneAtATime, StillFits, IsMember, Named, TypeOK, Locals
  <2>3. PICK v \in Volume, size \in Nat, op \in {loc[q].op} :
          v = loc[q].v /\ size = loc[q].size
    BY <2>2
  <2>4. Fits(Caller[q], v, size, op)'
    BY <1>1, <1>3, <2>2, <2>3, FitsFalls
  <2> QED
    BY <2>1, <2>3, <2>4
<1>7. \A m \in Member : Usage(m, {})' <= Quota[m]
  BY <1>4, <1>5
<1> QED
  BY <1>6, <1>7 DEF StillFits, WithinQuota

\* What a step does to the budgets.
LEMMA SpecsMove ==
  ASSUME TypeOK, Named, [Next]_vars,
         ~ \E p \in Session : IsMember(p) /\ Recorded(p)
  PROVE  \A v \in Volume : specs'[v] \in {specs[v], Nil} \/ specs'[v].owner = NoOwner
<1>1. ASSUME NEW p \in Session, Recorded(p)
      PROVE  \A v \in Volume : specs'[v] = specs[v] \/ specs'[v].owner = NoOwner
  BY <1>1 DEF Recorded, IsMember, TypeOK
<1>2. CASE UNCHANGED specs
  BY <1>2
<1>3. ASSUME NEW p \in Session, Forget(p)
      PROVE  \A v \in Volume : specs'[v] \in {specs[v], Nil}
  BY <1>3 DEF Forget, TypeOK
<1>4. ASSUME NEW p \in Session, Call(p)
      PROVE  UNCHANGED specs \/ Recorded(p) \/ Forget(p)
  BY <1>4 DEF Call, Own, Check, Deny, DockerCreate, Record, Recorded, Release, Kill,
     DockerRemove, NotRemoved, Cached, NotCached, Adopt, Find, Clear, Make, StartHelper,
     NoHelper
<1>5. ASSUME NEW p \in Session, Request(p) \/ Fault(p)
      PROVE  UNCHANGED specs \/ Recorded(p)
  BY <1>5 DEF Request, Fault, Recorded, CreateVolume, ResizeVolume, RemoveVolume,
     BrowseVolume, Begin
<1>6. ASSUME (\E v \in Volume : Exit(v)) \/ Crash \/ UNCHANGED vars
      PROVE  UNCHANGED specs
  BY <1>6 DEF Exit, Crash, vars
<1> QED
  BY <1>1, <1>2, <1>3, <1>4, <1>5, <1>6 DEF Next

\* Only its quota check brings a member's request to the calls that record it.
LEMMA ChecksFirst ==
  ASSUME TypeOK, Named, [Next]_vars, NEW q \in Session, IsMember(q),
         pc'[q] \in {"create", "record"}
  PROVE  /\ loc'[q] = loc[q] /\ pc[q] # "idle"
         /\ \/ pc[q] \in {"create", "record"}
            \/ Fits(Caller[q], loc[q].v, loc[q].size, loc[q].op)
<1> USE DEF TypeOK
<1>1. ASSUME NEW p \in Session, NEW l, NEW at, Step(p, l, at),
             p = q => /\ at \in {"create", "record"} => l = loc[q]
                      /\ at \in {"create", "record"} => pc[q] # "idle"
                      /\ at \in {"create", "record"} =>
                           \/ pc[q] \in {"create", "record"}
                           \/ Fits(Caller[q], loc[q].v, loc[q].size, loc[q].op)
      PROVE  /\ loc'[q] = loc[q] /\ pc[q] # "idle"
             /\ \/ pc[q] \in {"create", "record"}
                \/ Fits(Caller[q], loc[q].v, loc[q].size, loc[q].op)
  BY <1>1 DEF Step
<1>2. ASSUME NEW p \in Session, NEW l, NEW at, Step(p, l, at), at \notin {"create", "record"}
      PROVE  /\ loc'[q] = loc[q] /\ pc[q] # "idle"
             /\ pc[q] \in {"create", "record"}
  BY <1>2 DEF Step
<1>3. ASSUME NEW p \in Session, NEW op \in AllOps, NEW v, NEW size, Begin(p, op, v, size)
      PROVE  /\ loc'[q] = loc[q] /\ pc[q] # "idle"
             /\ pc[q] \in {"create", "record"}
  BY <1>3 DEF Begin, Step
<1>4. ASSUME NEW p \in Session, Request(p)
      PROVE  loc'[q] = loc[q] /\ pc[q] \in {"create", "record"}
  BY <1>4, <1>3
     DEF Request, CreateVolume, ResizeVolume, RemoveVolume, BrowseVolume, AllOps
<1>5. ASSUME NEW p \in Session, Call(p)
      PROVE  /\ loc'[q] = loc[q] /\ pc[q] # "idle"
             /\ \/ pc[q] \in {"create", "record"}
                \/ Fits(Caller[q], loc[q].v, loc[q].size, loc[q].op)
  <2>1. CASE Own(p)
    <3>1. loc[p].op \in AllOps \ {"create"}
      BY <2>1 DEF Own, Named
    <3> QED
      BY <2>1, <3>1, <1>2 DEF Own, Goto, First, AllOps
  <2>2. CASE Check(p)
    BY <2>2, <1>1 DEF Check, Goto
  <2>3. CASE DockerCreate(p)
    BY <2>3, <1>1 DEF DockerCreate, Goto
  <2>4. CASE Make(p)
    BY <2>4 DEF Make
  <2>5. CASE Answer(p)
    BY <2>5, <1>2 DEF Answer
  <2>6. CASE Release(p) \/ Kill(p) \/ DockerRemove(p) \/ NotCached(p) \/ Find(p) \/ Clear(p)
    BY <2>6, <1>2 DEF Release, Kill, DockerRemove, NotCached, Find, Clear, Goto
  <2> QED
    BY <1>5, <2>1, <2>2, <2>3, <2>4, <2>5, <2>6 DEF Call, Deny, Record, NotRemoved, Forget,
       Cached, Adopt, StartHelper, NoHelper
<1>6. ASSUME NEW p \in Session, Fault(p)
      PROVE  loc'[q] = loc[q] /\ pc[q] \in {"create", "record"}
  BY <1>6, <1>2 DEF Fault, Answer
<1>7. CASE (\E v \in Volume : Exit(v)) \/ UNCHANGED vars
  BY <1>7 DEF Exit, vars
<1>8. ~ Crash
  BY DEF Crash
<1> QED
  BY <1>4, <1>5, <1>6, <1>7, <1>8 DEF Next

-----------------------------------------------------------------------------
(***************************************************************************)
(* Theorems.                                                               *)
(***************************************************************************)

\* In every state one request at a time is between volumeHelper's lookup and its
\* return, and a cached or released id is that of the container it stands for.
THEOREM InductiveInvariant == Spec => []IInv
<1>1. Init => IInv
  BY TypeInit, RestInit DEF IInv
<1>2. IInv /\ [Next]_vars => IInv'
  BY TypeStep, RestStep DEF IInv
<1> QED
  BY <1>1, <1>2, PTL DEF Spec

\* Every value stays in its type; in particular a member's budget is never 0.
THEOREM TypeCorrect == Spec => []TypeOK
<1>1. IInv => TypeOK
  BY DEF IInv
<1> QED
  BY <1>1, InductiveInvariant, PTL

\* When RemoveVolume asks Docker to remove a volume, no helper container that was
\* there when it released the helper is in the way, unless its removal failed.
THEOREM HelpersReleased == Spec => []Released
<1>1. IInv => Released
  BY DEF IInv, Rest
<1> QED
  BY <1>1, InductiveInvariant, PTL

\* While a member sends one request at a time, the budgets of a member's volumes
\* stay within the quota, for any members, quotas and volumes, whatever calls fail
\* and whatever others do to the same volumes between the check and the record.
THEOREM QuotasHold == ASSUME OneAtATime PROVE Spec => []WithinQuota
<1>f. IsFiniteSet(Volume)
  BY ConstantsAssumption
<1>1. Init => IInv /\ StillFits /\ WithinQuota
  <2> SUFFICES ASSUME Init PROVE IInv /\ StillFits /\ WithinQuota
    OBVIOUS
  <2>1. IInv
    BY TypeInit, RestInit DEF IInv
  <2>2. StillFits
    BY DEF Init, StillFits
  <2>3. ASSUME NEW m \in Member PROVE Usage(m, {}) <= Quota[m]
    <3>1. Owned(m, {}) = {}
      BY DEF Owned, Init
    <3>2. Usage(m, {}) = 0
      BY <3>1, SumEmpty DEF Usage, SumFunction
    <3> QED
      BY <3>2, ConstantsAssumption
  <2> QED
    BY <2>1, <2>2, <2>3 DEF WithinQuota
<1>2. IInv /\ StillFits /\ WithinQuota /\ [Next]_vars => (IInv /\ StillFits /\ WithinQuota)'
  <2> SUFFICES ASSUME IInv, StillFits, WithinQuota, [Next]_vars
               PROVE  (IInv /\ StillFits /\ WithinQuota)'
    OBVIOUS
  <2>1. IInv'
    BY TypeStep, RestStep DEF IInv
  <2>2. TypeOK /\ TypeOK' /\ Named
    BY <2>1 DEF IInv, Rest
  <2>3. StillFits' /\ WithinQuota'
    BY <1>f, <2>2, MemberRecords, SpecsMove, ChecksFirst, FallingStep
  <2> QED
    BY <2>1, <2>3
<1> QED
  BY <1>1, <1>2, PTL DEF Spec
=============================================================================
