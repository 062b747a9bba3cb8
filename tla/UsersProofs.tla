------------------------------ MODULE UsersProofs ------------------------------
(***************************************************************************)
(* Proofs about Users, for every set of sessions, accounts, requests,      *)
(* environments and dimensions of a quota, with failing calls.             *)
(*                                                                         *)
(* What the properties say of a write depends on what was read before it:  *)
(* the invariant says of every request amid a change that what it read is  *)
(* still so, or that its history variable says otherwise.                  *)
(***************************************************************************)
EXTENDS Users, FiniteSetTheorems, TLAPS

\* What a request names was created.
Names(l, at) ==
  /\ at \in {"get", "count", "setrole", "insert", "current", "grant"} => l.u \in born
  /\ at \in {"get", "count"} => l.role = "member"
  /\ at = "setrole" => l.role \in Role
  /\ at \in {"insert", "current", "grant"} => l.e \in Env
  /\ at \in Reviewing => l.id \in filed

Recorded ==
  /\ Users \subseteq born
  /\ \A id \in Req : reqs[id] # Nil => id \in filed /\ reqs[id].u \in born
  /\ granted \subseteq filed
  /\ \A p \in Session : token[p] # Nil => token[p].u \in born

\* A demotion that nothing overtook leaves an admin.
Demotable(l, at) ==
  /\ at = "setrole" /\ l.role = "member" /\ ~ l.late
  /\ l.u \in Admins
  => Admins \ {l.u} # {}

\* What a review is about to write keeps what the account has now.
Has(u, e) == IF quota[u][e] = Nil THEN NoQuota ELSE quota[u][e]
GrantKeeps(l, at) == at = "grant" /\ ~ l.late => l.grant = Pick(l.ask, Has(l.u, l.e))

Fits(l, at) == Names(l, at) /\ Demotable(l, at) /\ GrantKeeps(l, at)

\* The reviews of a request: one that is reviewed once is pending until its
\* review ends, and granted in the same review that approves it.
Reviews(p, id) == pc[p] \in Reviewing /\ loc[p].id = id
OnceReviewed(id) ==
  /\ \A p, q \in Session : Reviews(p, id) /\ Reviews(q, id) => p = q
  /\ \A p \in Session : Reviews(p, id) =>
        /\ reqs[id] # Nil => reqs[id].status = "pending"
        /\ pc[p] # "approve" => id \notin granted
  /\ (\A p \in Session : ~ Reviews(p, id)) /\ reqs[id] # Nil /\ id \in granted =>
        reqs[id].status = "approved"
GrantedFirst ==
  /\ \A p \in Session : pc[p] = "approve" => loc[p].id \in granted
  /\ ApprovedWasGranted
ReviewInv == GrantedFirst /\ \A id \in Req \ again : OnceReviewed(id)

IInv ==
  /\ TypeOK
  /\ Recorded
  /\ \A p \in Session : Fits(loc[p], pc[p])
  /\ ReviewInv

-----------------------------------------------------------------------------
(***************************************************************************)
(* Quotas, locals and one step of a request.                               *)
(***************************************************************************)

LEMMA QuotaTypes ==
  /\ NoQuota \in Quota
  /\ \A a, b \in Quota : Asked(a, b) \in Quota /\ Pick(a, b) \in Quota
  /\ Wants \subseteq Quota /\ Bodies \subseteq Quota
BY ConstantsAssumption DEF NoQuota, Quota, Asked, Pick

LEMMA NilApart ==
  /\ Nil \notin Account /\ Nil \notin Role /\ Nil \notin Quota /\ Nil \notin Request
  /\ Nil \notin Token
BY NilAssumption

LEMMA NoLocalType == NoLocal \in Locals
BY QuotaTypes DEF NoLocal, Locals

\* The same locals, but for what history says of them.
Same(l, m) ==
  /\ l.u = m.u /\ l.e = m.e /\ l.id = m.id /\ l.role = m.role
  /\ l.ask = m.ask /\ l.grant = m.grant

LEMMA LateType ==
  ASSUME NEW l \in Locals
  PROVE  /\ [l EXCEPT !.late = TRUE] \in Locals
         /\ Same([l EXCEPT !.late = TRUE], l)
         /\ [l EXCEPT !.late = TRUE].late
BY DEF Locals, Same

LEMMA Stepped ==
  ASSUME TypeOK, NEW p \in Session, NEW l \in Locals, NEW at \in Calls, NEW late,
         Step(p, l, at, late)
  PROVE  /\ pc' \in [Session -> Calls] /\ loc' \in [Session -> Locals]
         /\ pc'[p] = at /\ loc'[p] = l
         /\ \A q \in Session \ {p} :
              /\ pc'[q] = pc[q] /\ Same(loc'[q], loc[q])
              /\ loc'[q].late <=> loc[q].late \/ q \in late
<1>1. pc' \in [Session -> Calls] /\ pc'[p] = at /\ \A q \in Session \ {p} : pc'[q] = pc[q]
  BY DEF TypeOK, Step
<1>2. loc'[p] = l /\ loc' = [q \in Session |-> loc'[q]]
  BY DEF Step
<1>3. ASSUME NEW q \in Session \ {p}
      PROVE  /\ loc'[q] \in Locals /\ Same(loc'[q], loc[q])
             /\ loc'[q].late <=> loc[q].late \/ q \in late
  <2>1. loc[q] \in Locals
    BY DEF TypeOK
  <2>2. CASE q \in late
    <3>1. loc'[q] = [loc[q] EXCEPT !.late = TRUE]
      BY <2>2 DEF Step
    <3> QED
      BY <2>1, <2>2, <3>1, LateType
  <2>3. CASE q \notin late
    <3>1. loc'[q] = loc[q]
      BY <2>3 DEF Step
    <3> QED
      BY <2>1, <2>3, <3>1 DEF Same
  <2> QED
    BY <2>2, <2>3
<1>4. loc' \in [Session -> Locals]
  BY <1>2, <1>3
<1> QED
  BY <1>1, <1>2, <1>3, <1>4

\* What p's step leaves of the other requests.
LEMMA Others ==
  ASSUME IInv, NEW p \in Session, NEW l \in Locals, NEW at \in Calls, NEW late,
         Step(p, l, at, late), born \subseteq born', filed \subseteq filed'
  PROVE  \A q \in Session \ {p} :
           /\ Names(loc[q], pc[q])'
           /\ role' = role => Demotable(loc[q], pc[q])'
           /\ quota' = quota => GrantKeeps(loc[q], pc[q])'
<1> SUFFICES ASSUME NEW q \in Session \ {p}
             PROVE  /\ Names(loc[q], pc[q])'
                    /\ role' = role => Demotable(loc[q], pc[q])'
                    /\ quota' = quota => GrantKeeps(loc[q], pc[q])'
  OBVIOUS
<1>1. /\ pc'[q] = pc[q] /\ Same(loc'[q], loc[q])
      /\ ~ loc'[q].late => ~ loc[q].late
  BY Stepped DEF IInv
<1>2. Names(loc[q], pc[q]) /\ Demotable(loc[q], pc[q]) /\ GrantKeeps(loc[q], pc[q])
  BY DEF IInv, Fits
<1>3. Names(loc[q], pc[q])'
  BY <1>1, <1>2 DEF Names, Same
<1>4. role' = role => Demotable(loc[q], pc[q])'
  BY <1>1, <1>2 DEF Demotable, Same, Admins
<1>5. quota' = quota => GrantKeeps(loc[q], pc[q])'
  BY <1>1, <1>2 DEF GrantKeeps, Same, Has
<1> QED
  BY <1>3, <1>4, <1>5

\* A step of a request that is no review.
LEMMA NoReview ==
  ASSUME IInv, NEW p \in Session, NEW l \in Locals, NEW at \in Calls, NEW late,
         Step(p, l, at, late), pc[p] \notin Reviewing, at \notin Reviewing,
         UNCHANGED <<granted, again>>,
         \A id \in Req : \/ reqs'[id] = reqs[id]
                         \/ reqs'[id] = Nil
                         \/ id \notin filed /\ reqs'[id].status = "pending"
  PROVE  ReviewInv'
<1>1. /\ pc'[p] = at /\ loc'[p] = l
      /\ \A q \in Session \ {p} : pc'[q] = pc[q] /\ loc'[q].id = loc[q].id
  BY Stepped DEF IInv, Same
<1>2. \A q \in Session, id \in Req : Reviews(q, id)' <=> Reviews(q, id)
  BY <1>1 DEF Reviews
<1>3. \A q \in Session : pc'[q] = "approve" => pc[q] = "approve" /\ loc'[q].id = loc[q].id
  BY <1>1 DEF Reviewing
<1>4. GrantedFirst'
  <2>1. \A id \in Req : reqs'[id] # Nil /\ reqs'[id].status = "approved" =>
                        reqs'[id] = reqs[id]
    OBVIOUS
  <2> QED
    BY <1>3, <2>1 DEF IInv, ReviewInv, GrantedFirst, ApprovedWasGranted
<1>5. ASSUME NEW id \in Req \ again PROVE OnceReviewed(id)'
  <2>1. OnceReviewed(id)
    BY DEF IInv, ReviewInv
  <2>2. \A q \in Session : Reviews(q, id) => (pc'[q] = "approve" <=> pc[q] = "approve")
    BY <1>1 DEF Reviews
  <2>3. CASE reqs'[id] = reqs[id] \/ reqs'[id] = Nil
    BY <2>1, <2>2, <2>3, <1>2 DEF OnceReviewed
  <2>4. CASE id \notin filed /\ reqs'[id].status = "pending"
    <3>1. id \notin granted /\ \A q \in Session : ~ Reviews(q, id)
      BY <2>4 DEF IInv, Recorded, Fits, Names, Reviews
    <3> QED
      BY <3>1, <1>2 DEF OnceReviewed
  <2> QED
    BY <2>3, <2>4
<1> QED
  BY <1>4, <1>5 DEF ReviewInv

\* A step of p that changes no table and is no review.
LEMMA Moved ==
  ASSUME IInv, NEW p \in Session, NEW l \in Locals, NEW at \in Calls, NEW late,
         Step(p, l, at, late), pc[p] \notin Reviewing, at \notin Reviewing, Fits(l, at),
         UNCHANGED <<role, quota, born, reqs, filed, token, granted, again>>
  PROVE  IInv'
<1>1. /\ pc' \in [Session -> Calls] /\ loc' \in [Session -> Locals]
      /\ pc'[p] = at /\ loc'[p] = l
  BY Stepped DEF IInv
<1>2. \A q \in Session \ {p} : Fits(loc[q], pc[q])'
  BY Others DEF Fits
<1>3. Fits(loc[p], pc[p])'
  BY <1>1 DEF Fits, Names, Demotable, Admins, GrantKeeps, Has
<1>4. ReviewInv'
  BY NoReview
<1> QED
  BY <1>1, <1>2, <1>3, <1>4 DEF IInv, TypeOK, Recorded, Users

LEMMA IdleFits ==
  /\ \A l : Fits(l, "idle") /\ Fits(l, "idle")'
  /\ "idle" \in Calls /\ "idle" \notin Reviewing
BY DEF Fits, Names, Demotable, GrantKeeps, Reviewing, Calls

\* What a request amid a call knows.
LEMMA AtCall ==
  ASSUME IInv, NEW p \in Session
  PROVE  loc[p] \in Locals /\ pc[p] \in Calls /\ Fits(loc[p], pc[p])
BY DEF IInv, TypeOK

-----------------------------------------------------------------------------
(***************************************************************************)
(* Accounts and roles.                                                     *)
(***************************************************************************)

LEMMA LoginKeeps ==
  ASSUME IInv, NEW p \in Session, NEW u \in Account, Login(p, u)
  PROVE  IInv'
<1>1. /\ role[u] \in Role /\ u \in born
      /\ token' = [token EXCEPT ![p] = [u |-> u, role |-> role[u]]]
      /\ UNCHANGED <<role, quota, born, reqs, filed, pc, loc, granted, again>>
  BY DEF Login, IInv, TypeOK, Recorded, Users
<1>2. [u |-> u, role |-> role[u]] \in Token
  BY <1>1 DEF Token
<1>3. TypeOK'
  BY <1>1, <1>2 DEF IInv, TypeOK
<1>4. Recorded'
  BY <1>1 DEF IInv, TypeOK, Recorded, Users
<1>5. \A q \in Session : Fits(loc[q], pc[q])'
  BY <1>1 DEF IInv, Fits, Names, Demotable, Admins, GrantKeeps, Has
<1>6. ReviewInv'
  BY <1>1 DEF IInv, ReviewInv, GrantedFirst, ApprovedWasGranted, OnceReviewed, Reviews
<1> QED
  BY <1>3, <1>4, <1>5, <1>6 DEF IInv

\* CreateUser and Bootstrap: nothing refers to the new account yet.
LEMMA CreatedKeeps ==
  ASSUME IInv, NEW u \in Account, NEW r \in Role, NEW b \in Quota, Created(u, r, b),
         UNCHANGED <<reqs, filed, token, pc, loc, granted, again>>
  PROVE  IInv'
<1>1. /\ u \notin born /\ born' = born \cup {u} /\ u \notin Users
      /\ role' = [role EXCEPT ![u] = r]
      /\ quota' = [quota EXCEPT ![u] = [e \in Env |-> IF e = Local THEN b ELSE Nil]]
  BY DEF Created, IInv, Recorded
<1>2. [e \in Env |-> IF e = Local THEN b ELSE Nil] \in [Env -> Quota \cup {Nil}]
  OBVIOUS
<1>3. TypeOK'
  BY <1>1, <1>2 DEF IInv, TypeOK
<1>4. /\ Recorded'
  BY <1>1 DEF IInv, TypeOK, Recorded, Users
<1>5. /\ Admins \subseteq Admins'
      /\ \A v \in Account \ {u} : role'[v] = role[v] /\ quota'[v] = quota[v]
  <2>1. \A v \in Account \ {u} : role'[v] = role[v] /\ quota'[v] = quota[v]
    BY <1>1 DEF IInv, TypeOK
  <2>2. u \notin Admins
    BY <1>1, NilApart DEF Admins, Users, Role
  <2> QED
    BY <2>1, <2>2 DEF Admins
<1>6. ASSUME NEW q \in Session PROVE Fits(loc[q], pc[q])'
  <2>1. Fits(loc[q], pc[q])
    BY DEF IInv
  <2>2. Names(loc[q], pc[q])'
    BY <2>1, <1>1 DEF Fits, Names
  <2>3. pc[q] \in {"setrole", "grant"} => loc[q].u \in Account \ {u}
    BY <2>1, <1>1 DEF IInv, TypeOK, Fits, Names
  <2>4. Demotable(loc[q], pc[q])'
    BY <2>1, <2>3, <1>5 DEF Fits, Demotable, Admins
  <2>5. GrantKeeps(loc[q], pc[q])'
    BY <2>1, <2>3, <1>5 DEF Fits, GrantKeeps, Has
  <2> QED
    BY <2>2, <2>4, <2>5 DEF Fits
<1>7. ReviewInv'
  BY DEF IInv, ReviewInv, GrantedFirst, ApprovedWasGranted, OnceReviewed, Reviews
<1> QED
  BY <1>3, <1>4, <1>6, <1>7 DEF IInv

LEMMA SetUserRoleKeeps ==
  ASSUME IInv, NEW p \in Session, NEW u \in Account, NEW r \in Role, SetUserRole(p, u, r)
  PROVE  IInv'
<1>1. PICK l, at : /\ l = [NoLocal EXCEPT !.u = u, !.role = r]
                   /\ at = IF r = "member" THEN "get" ELSE "setrole"
  OBVIOUS
<1>2. l \in Locals /\ l.u = u /\ l.role = r
  BY <1>1, NoLocalType DEF NoLocal, Locals
<1>3. /\ pc[p] = "idle" /\ u \in born /\ Step(p, l, at, {})
      /\ UNCHANGED <<role, quota, born, reqs, filed, token, granted, again>>
  BY <1>1 DEF SetUserRole, MayAdmin, May
<1>4. at \in {"get", "setrole"} /\ (at = "setrole" => r # "member") /\ (at = "get" => r = "member")
  BY <1>1
<1>5. Fits(l, at)
  BY <1>2, <1>3, <1>4 DEF Fits, Names, Demotable, GrantKeeps, Reviewing
<1> QED
  BY <1>2, <1>3, <1>4, <1>5, Moved DEF Calls, Reviewing

\* The checks of a demotion: unchecked, it is late.
LEMMA UncheckedKeeps ==
  ASSUME IInv, NEW p \in Session, pc[p] \in {"get", "count"}, Unchecked(p),
         UNCHANGED <<role, quota, born, reqs, filed, token, granted, again>>
  PROVE  IInv'
<1>1. PICK l : l = [loc[p] EXCEPT !.late = TRUE]
  OBVIOUS
<1>2. l \in Locals /\ Same(l, loc[p]) /\ l.late
  BY <1>1, AtCall, LateType
<1>3. Step(p, l, "setrole", {})
  BY <1>1 DEF Unchecked
<1>4. Fits(l, "setrole")
  BY <1>2, AtCall DEF Fits, Names, Demotable, GrantKeeps, Reviewing, Same, Role
<1> QED
  BY <1>2, <1>3, <1>4, Moved DEF Calls, Reviewing

LEMMA GetUserKeeps ==
  ASSUME IInv, NEW p \in Session, GetUser(p)
  PROVE  IInv'
<1>1. /\ pc[p] = "get"
      /\ UNCHANGED <<role, quota, born, reqs, filed, token, granted, again>>
  BY DEF GetUser
<1>2. CASE Unchecked(p)
  BY <1>1, <1>2, UncheckedKeeps
<1>3. CASE Goto(p, IF role[loc[p].u] = "admin" THEN "count" ELSE "setrole")
  <2>1. PICK at : at = IF role[loc[p].u] = "admin" THEN "count" ELSE "setrole"
    OBVIOUS
  <2>2. at \in {"count", "setrole"} /\ (at = "setrole" => loc[p].u \notin Admins)
    BY <2>1 DEF Admins
  <2>3. Fits(loc[p], at)
    BY <1>1, <2>2, AtCall DEF Fits, Names, Demotable, GrantKeeps, Reviewing, Role
  <2>4. Step(p, loc[p], at, {})
    BY <1>3, <2>1 DEF Goto
  <2> QED
    BY <1>1, <2>2, <2>3, <2>4, AtCall, Moved DEF Calls, Reviewing
<1> QED
  BY <1>2, <1>3 DEF GetUser

LEMMA CountAdminsKeeps ==
  ASSUME IInv, NEW p \in Session, CountAdmins(p)
  PROVE  IInv'
<1>1. /\ pc[p] = "count"
      /\ UNCHANGED <<role, quota, born, reqs, filed, token, granted, again>>
  BY DEF CountAdmins
<1>2. CASE Unchecked(p)
  BY <1>1, <1>2, UncheckedKeeps
<1>3. CASE Answer(p, {})
  BY <1>1, <1>3, NoLocalType, IdleFits, Moved DEF Answer, Reviewing
<1>4. CASE ~ (Cardinality(Admins) <= 1) /\ Goto(p, "setrole")
  <2>1. ~ (Admins \subseteq {loc[p].u})
    <3>1. Cardinality({loc[p].u}) = 1 /\ Cardinality({}) = 0
      BY FS_Singleton, FS_EmptySet
    <3>2. Admins \subseteq {loc[p].u} => Admins = {} \/ Admins = {loc[p].u}
      OBVIOUS
    <3> QED
      BY <1>4, <3>1, <3>2
  <2>2. Fits(loc[p], "setrole")
    BY <1>1, <2>1, AtCall DEF Fits, Names, Demotable, GrantKeeps, Reviewing, Role
  <2> QED
    BY <1>1, <1>4, <2>2, AtCall, Moved DEF Goto, Calls, Reviewing
<1> QED
  BY <1>2, <1>3, <1>4 DEF CountAdmins

\* The roles change under the demotions that late does not name.
LEMMA DemotionsKept ==
  ASSUME IInv, NEW p \in Session, NEW l \in Locals, NEW at \in Calls, NEW late,
         Step(p, l, at, late),
         \A q \in Session \ {p} :
           /\ pc[q] = "setrole" /\ loc[q].role = "member" /\ q \notin late
           /\ loc[q].u \in Admins'
           => \/ Admins' \ {loc[q].u} # {}
              \/ Admins' = Admins
  PROVE  \A q \in Session \ {p} : Demotable(loc[q], pc[q])'
<1> SUFFICES ASSUME NEW q \in Session \ {p} PROVE Demotable(loc[q], pc[q])'
  OBVIOUS
<1>1. /\ pc'[q] = pc[q] /\ Same(loc'[q], loc[q])
      /\ ~ loc'[q].late => ~ loc[q].late /\ q \notin late
  BY Stepped DEF IInv
<1>2. Demotable(loc[q], pc[q])
  BY AtCall DEF Fits
<1> QED
  BY <1>1, <1>2 DEF Demotable, Same

\* The quotas change under the reviews that late names.
LEMMA GrantsKept ==
  ASSUME IInv, NEW p \in Session, NEW l \in Locals, NEW at \in Calls, NEW late,
         Step(p, l, at, late),
         \A q \in Session \ {p} : pc[q] = "grant" /\ q \notin late =>
           quota'[loc[q].u][loc[q].e] = quota[loc[q].u][loc[q].e]
  PROVE  \A q \in Session \ {p} : GrantKeeps(loc[q], pc[q])'
<1> SUFFICES ASSUME NEW q \in Session \ {p} PROVE GrantKeeps(loc[q], pc[q])'
  OBVIOUS
<1>1. /\ pc'[q] = pc[q] /\ Same(loc'[q], loc[q])
      /\ ~ loc'[q].late => ~ loc[q].late /\ q \notin late
  BY Stepped DEF IInv
<1>2. GrantKeeps(loc[q], pc[q])
  BY AtCall DEF Fits
<1> QED
  BY <1>1, <1>2 DEF GrantKeeps, Same, Has

\* Where p itself ends, all is known that has to be of p.
LEMMA Ended ==
  ASSUME IInv, NEW p \in Session, NEW late, Answer(p, late)
  PROVE  /\ Step(p, NoLocal, "idle", late)
         /\ pc' \in [Session -> Calls] /\ loc' \in [Session -> Locals]
         /\ Fits(loc[p], pc[p])'
         /\ pc'[p] = "idle"
BY NoLocalType, IdleFits, Stepped DEF IInv, Answer

LEMMA SetRoleKeeps ==
  ASSUME IInv, NEW p \in Session, SetRole(p)
  PROVE  IInv'
<1>1. PICK u, r, late : /\ u = loc[p].u /\ r = loc[p].role
                        /\ late = IF r = "member" THEN Miscounting(u) ELSE Overtaken(u)
  OBVIOUS
<1>2. /\ pc[p] = "setrole" /\ Answer(p, late)
      /\ role' = IF u \in Users THEN [role EXCEPT ![u] = r] ELSE role
      /\ UNCHANGED <<quota, born, reqs, filed, token, granted, again>>
  BY <1>1 DEF SetRole
<1>3. u \in born /\ r \in Role
  BY <1>1, <1>2, AtCall DEF Fits, Names
<1>4. TypeOK'
  <2>1. role' \in [Account -> Role \cup {Nil}]
    BY <1>2, <1>3 DEF IInv, TypeOK
  <2> QED
    BY <2>1, <1>2, Ended DEF IInv, TypeOK
<1>5. Recorded'
  BY <1>2, <1>3 DEF IInv, TypeOK, Recorded, Users
<1>6. ASSUME NEW q \in Session \ {p}, pc[q] = "setrole", loc[q].role = "member",
             q \notin late, loc[q].u \in Admins'
      PROVE  Admins' \ {loc[q].u} # {} \/ Admins' = Admins
  <2>1. CASE u \notin Users
    BY <2>1, <1>2 DEF Admins
  <2>2. CASE u \in Users /\ r = "member"
    <3>1. u \notin Admins
      BY <1>1, <1>6, <2>2 DEF Miscounting, Counting
    <3> QED
      BY <2>2, <3>1, <1>2 DEF Admins, Users, IInv, TypeOK
  <2>3. CASE u \in Users /\ r = "admin"
    <3>1. u \in Admins'
      BY <2>3, <1>2 DEF Admins, Users, IInv, TypeOK
    <3>2. CASE u \in Admins
      BY <2>3, <3>2, <1>2 DEF Admins, Users, IInv, TypeOK
    <3>3. CASE u \notin Admins
      <4>1. loc[q].u # u
        BY <1>1, <1>6, <2>3, <3>3 DEF Overtaken
      <4> QED
        BY <3>1, <4>1
    <3> QED
      BY <3>2, <3>3
  <2> QED
    BY <1>3, <2>1, <2>2, <2>3 DEF Role
<1>7. \A q \in Session \ {p} : Fits(loc[q], pc[q])'
  <2>1. \A q \in Session \ {p} : Demotable(loc[q], pc[q])'
    BY <1>2, <1>6, Ended, NoLocalType, IdleFits, DemotionsKept
  <2> QED
    BY <2>1, <1>2, Ended, NoLocalType, IdleFits, Others DEF Fits
<1>8. ReviewInv'
  BY <1>2, Ended, NoLocalType, IdleFits, NoReview DEF Reviewing
<1> QED
  BY <1>2, <1>4, <1>5, <1>7, <1>8, Ended DEF IInv

LEMMA DeleteUserKeeps ==
  ASSUME IInv, NEW p \in Session, NEW u \in Account, DeleteUser(p, u)
  PROVE  IInv'
<1>1. PICK late : late = Miscounting(u) \cup UNION {Granting(u, e) : e \in Env}
  OBVIOUS
<1>2. /\ pc[p] = "idle" /\ Answer(p, late)
      /\ role' = [role EXCEPT ![u] = Nil]
      /\ quota' = [quota EXCEPT ![u] = [e \in Env |-> Nil]]
      /\ reqs' = [id \in Req |-> IF reqs[id] # Nil /\ reqs[id].u = u THEN Nil ELSE reqs[id]]
      /\ UNCHANGED <<born, filed, token, granted, again>>
  BY <1>1 DEF DeleteUser, MayAdmin, May, Answer
<1>3. TypeOK'
  <2>1. role' \in [Account -> Role \cup {Nil}] /\ reqs' \in [Req -> Request \cup {Nil}]
    BY <1>2 DEF IInv, TypeOK
  <2>2. quota' \in [Account -> [Env -> Quota \cup {Nil}]]
    <3>1. [e \in Env |-> Nil] \in [Env -> Quota \cup {Nil}]
      OBVIOUS
    <3> QED
      BY <3>1, <1>2 DEF IInv, TypeOK
  <2> QED
    BY <2>1, <2>2, <1>2, Ended DEF IInv, TypeOK
<1>4. Recorded'
  BY <1>2 DEF IInv, TypeOK, Recorded, Users
<1>5. ASSUME NEW q \in Session \ {p}, pc[q] = "setrole", q \notin late
      PROVE  Admins' = Admins
  <2>1. u \notin Admins
    BY <1>1, <1>5 DEF Miscounting, Counting
  <2> QED
    BY <2>1, <1>2, NilApart DEF Admins, Role, IInv, TypeOK
<1>6. ASSUME NEW q \in Session \ {p}, pc[q] = "grant", q \notin late
      PROVE  quota'[loc[q].u][loc[q].e] = quota[loc[q].u][loc[q].e]
  <2>1. loc[q].e \in Env /\ loc[q].u \in Account
    BY <1>6, AtCall DEF Fits, Names, IInv, TypeOK
  <2>2. loc[q].u # u
    BY <1>1, <1>6, <2>1 DEF Granting
  <2> QED
    BY <2>1, <2>2, <1>2 DEF IInv, TypeOK
<1>7. \A q \in Session \ {p} : Fits(loc[q], pc[q])'
  <2>1. \A q \in Session \ {p} : Demotable(loc[q], pc[q])'
    BY <1>2, <1>5, Ended, NoLocalType, IdleFits, DemotionsKept
  <2>2. \A q \in Session \ {p} : GrantKeeps(loc[q], pc[q])'
    BY <1>2, <1>6, Ended, NoLocalType, IdleFits, GrantsKept
  <2> QED
    BY <2>1, <2>2, <1>2, Ended, NoLocalType, IdleFits, Others DEF Fits
<1>8. ReviewInv'
  BY <1>2, Ended, NoLocalType, IdleFits, NoReview DEF Reviewing
<1> QED
  BY <1>2, <1>3, <1>4, <1>7, <1>8, Ended DEF IInv

-----------------------------------------------------------------------------
(***************************************************************************)
(* Quotas and requests.                                                    *)
(***************************************************************************)

\* UpdateUserQuota and SetUserEnvironments.
LEMMA QuotaKeeps ==
  ASSUME IInv, NEW p \in Session, NEW u \in Account, NEW late, pc[p] = "idle",
         Answer(p, late), quota' \in [Account -> [Env -> Quota \cup {Nil}]],
         UNCHANGED <<role, born, reqs, filed, token, granted, again>>,
         \A v \in Account, e \in Env :
           quota'[v][e] = quota[v][e] \/ Granting(v, e) \subseteq late
  PROVE  IInv'
<1>1. TypeOK'
  BY Ended DEF IInv, TypeOK
<1>2. Recorded'
  BY DEF IInv, TypeOK, Recorded, Users
<1>3. ASSUME NEW q \in Session \ {p}, pc[q] = "grant", q \notin late
      PROVE  quota'[loc[q].u][loc[q].e] = quota[loc[q].u][loc[q].e]
  <2>1. loc[q].e \in Env /\ loc[q].u \in Account
    BY <1>3, AtCall DEF Fits, Names, IInv, TypeOK
  <2> QED
    BY <1>3, <2>1 DEF Granting
<1>4. \A q \in Session \ {p} : Fits(loc[q], pc[q])'
  <2>1. \A q \in Session \ {p} : GrantKeeps(loc[q], pc[q])'
    BY <1>3, Ended, NoLocalType, IdleFits, GrantsKept
  <2> QED
    BY <2>1, Ended, NoLocalType, IdleFits, Others DEF Fits
<1>5. ReviewInv'
  BY Ended, NoLocalType, IdleFits, NoReview DEF Reviewing
<1> QED
  BY <1>1, <1>2, <1>4, <1>5, Ended DEF IInv

LEMMA UpdateUserQuotaKeeps ==
  ASSUME IInv, NEW p \in Session, NEW u \in Account, NEW b \in Quota,
         UpdateUserQuota(p, u, b)
  PROVE  IInv'
<1>1. /\ pc[p] = "idle" /\ Answer(p, Granting(u, Local))
      /\ quota' = [quota EXCEPT ![u][Local] = b]
      /\ UNCHANGED <<role, born, reqs, filed, token, granted, again>>
  BY DEF UpdateUserQuota, MayAdmin, May, Answer
<1>2. quota' \in [Account -> [Env -> Quota \cup {Nil}]]
  BY <1>1, ConstantsAssumption DEF IInv, TypeOK
<1>3. \A v \in Account, e \in Env :
        quota'[v][e] = quota[v][e] \/ Granting(v, e) \subseteq Granting(u, Local)
  BY <1>1, ConstantsAssumption DEF IInv, TypeOK
<1> QED
  BY <1>1, <1>2, <1>3, QuotaKeeps

LEMMA SetUserEnvironmentsKeeps ==
  ASSUME IInv, NEW p \in Session, NEW u \in Account, NEW envs, NEW b \in Quota,
         SetUserEnvironments(p, u, envs, b)
  PROVE  IInv'
<1>1. PICK late : late = UNION {Granting(u, e) : e \in Env \ {Local}}
  OBVIOUS
<1>2. /\ pc[p] = "idle" /\ Answer(p, late)
      /\ quota' = [quota EXCEPT ![u] =
            [e \in Env |-> IF e = Local THEN @[e] ELSE IF e \in envs THEN b ELSE Nil]]
      /\ UNCHANGED <<role, born, reqs, filed, token, granted, again>>
  BY <1>1 DEF SetUserEnvironments, MayAdmin, May, Answer
<1>3. [e \in Env |-> IF e = Local THEN quota[u][e] ELSE IF e \in envs THEN b ELSE Nil]
        \in [Env -> Quota \cup {Nil}]
  BY DEF IInv, TypeOK
<1>4. quota' \in [Account -> [Env -> Quota \cup {Nil}]]
  BY <1>2, <1>3 DEF IInv, TypeOK
<1>5. ASSUME NEW v \in Account, NEW e \in Env
      PROVE  quota'[v][e] = quota[v][e] \/ Granting(v, e) \subseteq late
  <2>1. CASE v # u \/ e = Local
    BY <2>1, <1>2 DEF IInv, TypeOK
  <2>2. CASE v = u /\ e # Local
    BY <2>2, <1>1
  <2> QED
    BY <2>1, <2>2
<1> QED
  BY <1>2, <1>4, <1>5, QuotaKeeps

LEMMA CreateRequestKeeps ==
  ASSUME IInv, NEW p \in Session, NEW e \in Env, NEW want \in Quota,
         CreateRequest(p, e, want)
  PROVE  IInv'
<1>1. PICK l : l = [NoLocal EXCEPT !.u = token[p].u, !.e = e, !.ask = want]
  OBVIOUS
<1>2. /\ pc[p] = "idle" /\ token[p] # Nil /\ Step(p, l, "insert", {})
      /\ UNCHANGED <<role, quota, born, reqs, filed, token, granted, again>>
  BY <1>1 DEF CreateRequest, May
<1>3. token[p].u \in Account /\ token[p].u \in born
  BY <1>2 DEF IInv, TypeOK, Token, Recorded
<1>4. l \in Locals /\ l.u = token[p].u /\ l.e = e
  BY <1>1, <1>3, NoLocalType DEF NoLocal, Locals
<1>5. Fits(l, "insert")
  BY <1>3, <1>4 DEF Fits, Names, Demotable, GrantKeeps, Reviewing
<1> QED
  BY <1>2, <1>4, <1>5, Moved DEF Calls, Reviewing

LEMMA InsertKeeps ==
  ASSUME IInv, NEW p \in Session, Insert(p)
  PROVE  IInv'
<1>1. /\ pc[p] = "insert" /\ Answer(p, {})
      /\ UNCHANGED <<role, quota, born, token, granted, again>>
  BY DEF Insert
<1>2. CASE UNCHANGED <<reqs, filed>>
  BY <1>1, <1>2, NoLocalType, IdleFits, Moved DEF Answer, Reviewing
<1>3. ASSUME NEW id \in Req \ filed, filed' = filed \cup {id},
             reqs' = [reqs EXCEPT ![id] = [u |-> loc[p].u, e |-> loc[p].e,
                                           want |-> loc[p].ask, status |-> "pending"]]
      PROVE  IInv'
  <2>1. PICK r : r = [u |-> loc[p].u, e |-> loc[p].e, want |-> loc[p].ask,
                      status |-> "pending"]
    OBVIOUS
  <2>2. r \in Request /\ r.u \in born /\ r.status = "pending"
    <3>1. loc[p] \in Locals /\ loc[p].u \in born /\ loc[p].e \in Env
      BY <1>1, AtCall DEF Fits, Names
    <3>2. loc[p].u \in Account /\ loc[p].ask \in Quota
      BY <3>1 DEF IInv, TypeOK, Locals
    <3> QED
      BY <2>1, <3>1, <3>2 DEF Request
  <2>3. /\ reqs' \in [Req -> Request \cup {Nil}] /\ reqs'[id] = r
        /\ \A x \in Req \ {id} : reqs'[x] = reqs[x]
    BY <1>3, <2>1, <2>2 DEF IInv, TypeOK
  <2>4. TypeOK'
    BY <1>1, <1>3, <2>3, Ended DEF IInv, TypeOK
  <2>5. Recorded'
    BY <1>1, <1>3, <2>2, <2>3 DEF IInv, Recorded, Users
  <2>6. \A q \in Session \ {p} : Fits(loc[q], pc[q])'
    BY <1>1, <1>3, Ended, NoLocalType, IdleFits, Others DEF Fits
  <2>7. ReviewInv'
    BY <1>1, <2>2, <2>3, Ended, NoLocalType, IdleFits, NoReview DEF Reviewing
  <2> QED
    BY <1>1, <2>4, <2>5, <2>6, <2>7, Ended DEF IInv
<1> QED
  BY <1>1, <1>2, <1>3 DEF Insert

-----------------------------------------------------------------------------
(***************************************************************************)
(* The review of a request.                                                *)
(***************************************************************************)

\* A step of p within its review of id, or out of it.
LEMMA ReviewStep ==
  ASSUME IInv, NEW p \in Session, NEW l \in Locals, NEW at \in Calls, NEW late,
         Step(p, l, at, late), NEW id \in Req, Reviews(p, id),
         at \in Reviewing => l.id = id, at = "approve" => id \in granted',
         again \subseteq again', granted \subseteq granted', granted' \subseteq granted \cup {id},
         \A x \in Req \ {id} : reqs'[x] = reqs[x],
         reqs'[id] # Nil /\ reqs'[id].status = "approved" => id \in granted',
         id \notin again' /\ at \in Reviewing =>
           /\ reqs'[id] # Nil => reqs'[id].status = "pending"
           /\ at # "approve" => id \notin granted',
         id \notin again' /\ at \notin Reviewing =>
           (reqs'[id] # Nil /\ id \in granted' => reqs'[id].status = "approved")
  PROVE  ReviewInv'
<1>1. /\ pc'[p] = at /\ loc'[p] = l
      /\ \A q \in Session \ {p} : pc'[q] = pc[q] /\ loc'[q].id = loc[q].id
  BY Stepped DEF IInv, Same
<1>2. GrantedFirst'
  BY <1>1 DEF IInv, ReviewInv, GrantedFirst, ApprovedWasGranted, Reviewing
<1>3. ASSUME NEW x \in Req \ again', x # id PROVE OnceReviewed(x)'
  <2>1. OnceReviewed(x)
    BY <1>3 DEF IInv, ReviewInv
  <2>2. \A q \in Session : /\ Reviews(q, x)' <=> Reviews(q, x)
                           /\ Reviews(q, x) => pc'[q] = pc[q]
    BY <1>1, <1>3 DEF Reviews
  <2>3. reqs'[x] = reqs[x] /\ (x \in granted' <=> x \in granted)
    BY <1>3
  <2> QED
    BY <2>1, <2>2, <2>3 DEF OnceReviewed
<1>4. ASSUME id \notin again' PROVE OnceReviewed(id)'
  <2>1. OnceReviewed(id)
    BY <1>4 DEF IInv, ReviewInv
  <2>2. \A q \in Session \ {p} : ~ Reviews(q, id)'
    BY <2>1, <1>1 DEF OnceReviewed, Reviews
  <2>3. Reviews(p, id)' <=> at \in Reviewing
    BY <1>1 DEF Reviews
  <2> QED
    BY <1>1, <1>4, <2>2, <2>3 DEF OnceReviewed
<1> QED
  BY <1>2, <1>3, <1>4 DEF ReviewInv

\* Who reviews knows its request.
LEMMA AtReview ==
  ASSUME IInv, NEW p \in Session, pc[p] \in Reviewing
  PROVE  /\ loc[p] \in Locals /\ loc[p].id \in Req /\ loc[p].id \in filed
         /\ Reviews(p, loc[p].id)
         /\ loc[p].id \notin again =>
              /\ reqs[loc[p].id] # Nil => reqs[loc[p].id].status = "pending"
              /\ pc[p] # "approve" => loc[p].id \notin granted
         /\ pc[p] = "approve" => loc[p].id \in granted
         /\ pc[p] \in {"current", "grant"} =>
              loc[p].u \in Account /\ loc[p].u \in born /\ loc[p].e \in Env
<1>1. loc[p] \in Locals /\ Names(loc[p], pc[p])
  BY AtCall DEF Fits
<1>2. loc[p].id \in filed
  BY <1>1 DEF Names
<1>3. loc[p].id \in Req
  BY <1>2 DEF IInv, TypeOK
<1>4. Reviews(p, loc[p].id)
  BY DEF Reviews
<1>5. pc[p] \in {"current", "grant"} =>
        loc[p].u \in Account /\ loc[p].u \in born /\ loc[p].e \in Env
  BY <1>1 DEF Names, IInv, TypeOK
<1>6. pc[p] = "approve" => loc[p].id \in granted
  BY DEF IInv, ReviewInv, GrantedFirst
<1>7. loc[p].id \notin again => OnceReviewed(loc[p].id)
  BY <1>3 DEF IInv, ReviewInv
<1> QED
  BY <1>1, <1>2, <1>3, <1>4, <1>5, <1>6, <1>7 DEF OnceReviewed

LEMMA ReviewKeeps ==
  ASSUME IInv, NEW p \in Session, NEW id \in Req, NEW over \in Quota,
         Approve(p, id, over) \/ Reject(p, id)
  PROVE  IInv'
<1>1. /\ pc[p] = "idle" /\ reqs[id] # Nil
      /\ UNCHANGED <<role, quota, born, reqs, filed, token, granted>>
      /\ again' = IF \/ reqs[id].status # "pending"
                     \/ \E q \in Session : pc[q] \in Reviewing /\ loc[q].id = id
                  THEN again \cup {id} ELSE again
  BY DEF Approve, Reject, Review, MayAdmin, May
<1>2. reqs[id] \in Request /\ id \in filed /\ reqs[id].u \in born
  BY <1>1 DEF IInv, TypeOK, Recorded
<1>3. PICK l, at : /\ l \in Locals /\ at \in {"current", "reject"} /\ Step(p, l, at, {})
                   /\ l.id = id
                   /\ at = "current" => l.u = reqs[id].u /\ l.e \in Env
  <2>1. CASE Approve(p, id, over)
    <3>1. PICK l : l = [NoLocal EXCEPT !.id = id, !.u = reqs[id].u, !.e = reqs[id].e,
                                       !.ask = Asked(over, reqs[id].want)]
      OBVIOUS
    <3>2. Step(p, l, "current", {})
      BY <2>1, <3>1 DEF Approve, Review
    <3>3. /\ reqs[id].u \in Account /\ reqs[id].e \in Env
          /\ Asked(over, reqs[id].want) \in Quota
      BY <1>2, QuotaTypes DEF Request
    <3>4. l \in Locals /\ l.id = id /\ l.u = reqs[id].u /\ l.e = reqs[id].e
      BY <3>1, <3>3, NoLocalType DEF NoLocal, Locals
    <3> QED
      BY <3>2, <3>3, <3>4
  <2>2. CASE Reject(p, id)
    <3>1. PICK l : l = [NoLocal EXCEPT !.id = id]
      OBVIOUS
    <3>2. Step(p, l, "reject", {})
      BY <2>2, <3>1 DEF Reject, Review
    <3>3. l \in Locals /\ l.id = id
      BY <3>1, NoLocalType DEF NoLocal, Locals
    <3> QED
      BY <3>2, <3>3
  <2> QED
    BY <2>1, <2>2
<1>4. at \in Calls
  BY <1>3 DEF Calls
<1>5. /\ pc' \in [Session -> Calls] /\ loc' \in [Session -> Locals]
      /\ pc'[p] = at /\ loc'[p] = l
      /\ \A q \in Session \ {p} : pc'[q] = pc[q] /\ loc'[q].id = loc[q].id
  BY <1>3, <1>4, Stepped DEF IInv, Same
<1>6. TypeOK' /\ Recorded'
  BY <1>1, <1>5 DEF IInv, TypeOK, Recorded, Users
<1>7. \A q \in Session : Fits(loc[q], pc[q])'
  <2>1. Fits(loc[p], pc[p])'
    BY <1>1, <1>2, <1>3, <1>5 DEF Fits, Names, Demotable, GrantKeeps, Reviewing
  <2>2. \A q \in Session \ {p} : Fits(loc[q], pc[q])'
    BY <1>1, <1>3, <1>4, Others DEF Fits
  <2> QED
    BY <2>1, <2>2
<1>8. ReviewInv'
  <2>1. GrantedFirst'
    BY <1>1, <1>3, <1>5 DEF IInv, ReviewInv, GrantedFirst, ApprovedWasGranted
  <2>2. ASSUME NEW x \in Req \ again', x # id PROVE OnceReviewed(x)'
    <3>1. OnceReviewed(x)
      BY <2>2, <1>1 DEF IInv, ReviewInv
    <3>2. \A q \in Session : /\ Reviews(q, x)' <=> Reviews(q, x)
                             /\ Reviews(q, x) => pc'[q] = pc[q]
      BY <1>1, <1>3, <1>5, <2>2 DEF Reviews, Reviewing
    <3> QED
      BY <1>1, <3>1, <3>2 DEF OnceReviewed
  <2>3. ASSUME id \notin again' PROVE OnceReviewed(id)'
    <3>1. reqs[id].status = "pending" /\ id \notin again
      BY <1>1, <2>3
    <3>2. \A q \in Session : ~ Reviews(q, id)
      BY <1>1, <2>3 DEF Reviews
    <3>3. id \notin granted
      BY <1>1, <3>1, <3>2 DEF IInv, ReviewInv, OnceReviewed
    <3>4. \A q \in Session : Reviews(q, id)' => q = p
      BY <1>5, <3>2 DEF Reviews
    <3>5. Reviews(p, id)'
      BY <1>3, <1>5 DEF Reviews, Reviewing
    <3> QED
      BY <1>1, <3>1, <3>3, <3>4, <3>5 DEF OnceReviewed
  <2> QED
    BY <2>1, <2>2, <2>3 DEF ReviewInv
<1> QED
  BY <1>6, <1>7, <1>8 DEF IInv

LEMMA CurrentKeeps ==
  ASSUME IInv, NEW p \in Session, Current(p)
  PROVE  IInv'
<1>1. /\ pc[p] = "current" /\ pc[p] \in Reviewing
      /\ UNCHANGED <<role, quota, born, reqs, filed, token, granted, again>>
  BY DEF Current, Reviewing
<1>2. PICK id : id = loc[p].id
  OBVIOUS
<1>3. PICK u, e, ask : u = loc[p].u /\ e = loc[p].e /\ ask = loc[p].ask
  OBVIOUS
<1>4. u \in Account /\ u \in born /\ e \in Env /\ ask \in Quota /\ Has(u, e) \in Quota
  BY <1>1, <1>3, AtReview, QuotaTypes DEF Locals, Has, IInv, TypeOK
<1>5. PICK l : /\ l \in Locals /\ Step(p, l, "grant", {})
               /\ l.u = u /\ l.e = e /\ l.id = id /\ l.ask = ask
               /\ ~ l.late => l.grant = Pick(ask, Has(u, e))
  <2>1. CASE Step(p, [loc[p] EXCEPT !.grant = Pick(ask, Has(u, e))], "grant", {})
    <3>1. PICK g : g = Pick(ask, Has(u, e))
      OBVIOUS
    <3>2. g \in Quota
      BY <3>1, <1>4, QuotaTypes
    <3>3. PICK l : l = [loc[p] EXCEPT !.grant = g]
      OBVIOUS
    <3>4. l \in Locals /\ l.u = u /\ l.e = e /\ l.id = id /\ l.ask = ask /\ l.grant = g
      BY <1>2, <1>3, <3>2, <3>3, AtCall DEF Locals
    <3> QED
      BY <2>1, <3>1, <3>3, <3>4
  <2>2. CASE Step(p, [loc[p] EXCEPT !.grant = ask, !.late = TRUE], "grant", {})
    <3>1. PICK l : l = [loc[p] EXCEPT !.grant = ask, !.late = TRUE]
      OBVIOUS
    <3>2. l \in Locals /\ l.u = u /\ l.e = e /\ l.id = id /\ l.ask = ask /\ l.late
      BY <1>2, <1>3, <1>4, <3>1, AtCall DEF Locals
    <3> QED
      BY <2>2, <3>1, <3>2
  <2> QED
    BY <2>1, <2>2, <1>3 DEF Current, Has
<1>6. /\ "grant" \in Calls /\ "grant" \in Reviewing /\ id \in filed /\ id \in Req
  BY <1>1, <1>2, AtReview DEF Calls, Reviewing
<1>7. /\ pc' \in [Session -> Calls] /\ loc' \in [Session -> Locals]
      /\ pc'[p] = "grant" /\ loc'[p] = l
  BY <1>5, <1>6, Stepped DEF IInv
<1>8. TypeOK' /\ Recorded'
  BY <1>1, <1>7 DEF IInv, TypeOK, Recorded, Users
<1>9. \A q \in Session : Fits(loc[q], pc[q])'
  <2>1. Fits(loc[p], pc[p])'
    BY <1>1, <1>4, <1>5, <1>6, <1>7 DEF Fits, Names, Demotable, GrantKeeps, Has
  <2>2. \A q \in Session \ {p} : Fits(loc[q], pc[q])'
    BY <1>1, <1>5, <1>6, Others DEF Fits
  <2> QED
    BY <2>1, <2>2
<1>10. ReviewInv'
  <2>1. /\ Reviews(p, id)
        /\ id \notin again => id \notin granted /\ (reqs[id] # Nil => reqs[id].status = "pending")
        /\ reqs[id] # Nil /\ reqs[id].status = "approved" => id \in granted
    BY <1>1, <1>2, <1>6, AtReview DEF IInv, ReviewInv, GrantedFirst, ApprovedWasGranted
  <2> QED
    BY <1>1, <1>5, <1>6, <2>1, ReviewStep
<1> QED
  BY <1>8, <1>9, <1>10 DEF IInv

\* The quota is written: the review goes on to mark its request, or fails.
LEMMA GrantedKeeps ==
  ASSUME IInv, NEW p \in Session, pc[p] = "grant", Granted(loc[p]),
         NEW l \in Locals, NEW at \in {"approve", "idle"},
         Step(p, l, at, Granting(loc[p].u, loc[p].e)),
         at = "approve" => l.id = loc[p].id /\ again' = again,
         at = "idle" => again' = again \cup {loc[p].id},
         UNCHANGED <<role, born, reqs, filed, token>>
  PROVE  IInv'
<1>1. PICK id, u, e, g : id = loc[p].id /\ u = loc[p].u /\ e = loc[p].e /\ g = loc[p].grant
  OBVIOUS
<1>2. /\ id \in Req /\ id \in filed /\ u \in Account /\ e \in Env /\ g \in Quota
      /\ Reviews(p, id)
      /\ id \notin again /\ reqs[id] # Nil => reqs[id].status = "pending"
  BY <1>1, AtReview DEF Reviewing, Locals
<1>3. /\ quota' = IF u \in Users THEN [quota EXCEPT ![u][e] = g] ELSE quota
      /\ granted' = granted \cup {id}
  BY <1>1 DEF Granted
<1>4. at \in Calls
  BY DEF Calls
<1>5. /\ pc' \in [Session -> Calls] /\ loc' \in [Session -> Locals]
      /\ pc'[p] = at /\ loc'[p] = l
  BY <1>4, Stepped DEF IInv
<1>6. TypeOK'
  <2>1. quota' \in [Account -> [Env -> Quota \cup {Nil}]]
    BY <1>2, <1>3 DEF IInv, TypeOK
  <2> QED
    BY <1>1, <1>2, <1>3, <1>5, <2>1 DEF IInv, TypeOK
<1>7. Recorded'
  BY <1>2, <1>3 DEF IInv, Recorded, Users
<1>8. Fits(loc[p], pc[p])'
  BY <1>1, <1>2, <1>5 DEF Fits, Names, Demotable, GrantKeeps, Reviewing
<1>9. \A q \in Session \ {p} : Fits(loc[q], pc[q])'
  <2>1. ASSUME NEW q \in Session \ {p}, pc[q] = "grant", q \notin Granting(u, e)
        PROVE  quota'[loc[q].u][loc[q].e] = quota[loc[q].u][loc[q].e]
    <3>1. loc[q].u \in Account /\ loc[q].e \in Env
      BY <2>1, AtReview DEF Reviewing
    <3>2. loc[q].u # u \/ loc[q].e # e
      BY <2>1 DEF Granting
    <3> QED
      BY <1>2, <1>3, <3>1, <3>2 DEF IInv, TypeOK
  <2>2. \A q \in Session \ {p} : GrantKeeps(loc[q], pc[q])'
    BY <1>1, <1>4, <2>1, GrantsKept
  <2> QED
    BY <1>4, <2>2, Others DEF Fits
<1>10. ReviewInv'
  BY <1>1, <1>2, <1>3, <1>4, ReviewStep DEF Reviewing
<1> QED
  BY <1>6, <1>7, <1>8, <1>9, <1>10 DEF IInv

\* A review ends without a grant.
LEMMA ReviewEnds ==
  ASSUME IInv, NEW p \in Session, pc[p] \in Reviewing, Answer(p, {}),
         UNCHANGED <<role, quota, born, filed, token, granted>>,
         again' \in {again, again \cup {loc[p].id}},
         \/ /\ UNCHANGED reqs
            /\ pc[p] = "approve" => again' = again \cup {loc[p].id}
         \/ pc[p] = "approve" /\ Marked(loc[p].id, "approved")
         \/ pc[p] = "reject" /\ Marked(loc[p].id, "rejected")
  PROVE  IInv'
<1>1. PICK id : id = loc[p].id
  OBVIOUS
<1>2. /\ id \in Req /\ id \in filed /\ Reviews(p, id)
      /\ id \notin again =>
           /\ reqs[id] # Nil => reqs[id].status = "pending"
           /\ pc[p] # "approve" => id \notin granted
      /\ pc[p] = "approve" => id \in granted
  BY <1>1, AtReview
<1>3. /\ reqs' \in [Req -> Request \cup {Nil}]
      /\ \A x \in Req \ {id} : reqs'[x] = reqs[x]
      /\ reqs'[id] # Nil => reqs[id] # Nil /\ reqs'[id].u = reqs[id].u
      /\ \/ /\ reqs'[id] = reqs[id]
            /\ pc[p] = "approve" => reqs[id] = Nil \/ again' = again \cup {id}
         \/ pc[p] = "approve" /\ reqs'[id].status = "approved"
         \/ pc[p] = "reject" /\ reqs'[id].status = "rejected"
  <2>1. CASE UNCHANGED reqs /\ (pc[p] = "approve" => again' = again \cup {id})
    BY <2>1, <1>1 DEF IInv, TypeOK
  <2>2. ASSUME NEW st \in {"approved", "rejected"}, Marked(id, st)
        PROVE  /\ reqs' \in [Req -> Request \cup {Nil}]
               /\ \A x \in Req \ {id} : reqs'[x] = reqs[x]
               /\ reqs'[id] # Nil => reqs[id] # Nil /\ reqs'[id].u = reqs[id].u
               /\ (reqs'[id] = reqs[id] /\ reqs[id] = Nil) \/ reqs'[id].status = st
    <3>1. CASE reqs[id] = Nil
      BY <2>2, <3>1 DEF Marked, IInv, TypeOK
    <3>2. CASE reqs[id] # Nil
      <4>1. reqs[id] \in Request
        BY <3>2, <1>2 DEF IInv, TypeOK
      <4>2. PICK r : r = [reqs[id] EXCEPT !.status = st]
        OBVIOUS
      <4>3. r \in Request /\ r.u = reqs[id].u /\ r.status = st
        BY <4>1, <4>2 DEF Request
      <4>4. reqs' = [reqs EXCEPT ![id] = r]
        BY <2>2, <3>2, <4>2 DEF Marked
      <4> QED
        BY <1>2, <3>2, <4>3, <4>4 DEF IInv, TypeOK
    <3> QED
      BY <3>1, <3>2
  <2>3. CASE pc[p] = "approve" /\ Marked(id, "approved")
    BY <2>2, <2>3 DEF Marked
  <2>4. CASE pc[p] = "reject" /\ Marked(id, "rejected")
    BY <2>2, <2>4 DEF Marked
  <2> QED
    BY <1>1, <2>1, <2>3, <2>4
<1>4. TypeOK'
  BY <1>1, <1>2, <1>3, Ended DEF IInv, TypeOK
<1>5. Recorded'
  <2>1. \A x \in Req : reqs'[x] # Nil => x \in filed /\ reqs'[x].u \in born
    BY <1>2, <1>3 DEF IInv, Recorded
  <2> QED
    BY <2>1 DEF IInv, Recorded, Users
<1>6. \A q \in Session \ {p} : Fits(loc[q], pc[q])'
  BY Ended, NoLocalType, IdleFits, Others DEF Fits
<1>7. ReviewInv'
  <2>1. Step(p, NoLocal, "idle", {}) /\ "idle" \notin Reviewing
    BY Ended, IdleFits
  <2>2. reqs[id] # Nil /\ reqs[id].status = "approved" => id \in granted
    BY <1>2 DEF IInv, ReviewInv, GrantedFirst, ApprovedWasGranted
  <2> QED
    BY <1>1, <1>2, <1>3, <2>1, <2>2, NoLocalType, IdleFits, ReviewStep
<1> QED
  BY <1>4, <1>5, <1>6, <1>7, Ended DEF IInv

LEMMA GrantIsKept ==
  ASSUME IInv, NEW p \in Session, Grant(p)
  PROVE  IInv'
<1>1. pc[p] = "grant" /\ UNCHANGED <<role, born, reqs, filed, token, again>>
  BY DEF Grant
<1>2. CASE Granted(loc[p]) /\ Step(p, [NoLocal EXCEPT !.id = loc[p].id], "approve",
                                    Granting(loc[p].u, loc[p].e))
  <2>1. PICK l : l = [NoLocal EXCEPT !.id = loc[p].id]
    OBVIOUS
  <2>2. l \in Locals /\ l.id = loc[p].id
    BY <1>1, <2>1, AtReview, NoLocalType DEF NoLocal, Locals, Reviewing
  <2> QED
    BY <1>1, <1>2, <2>1, <2>2, GrantedKeeps
<1>3. CASE Answer(p, {}) /\ UNCHANGED <<quota, granted>>
  BY <1>1, <1>3, ReviewEnds DEF Reviewing
<1> QED
  BY <1>2, <1>3 DEF Grant

LEMMA MarkedKeeps ==
  ASSUME IInv, NEW p \in Session, MarkApproved(p) \/ MarkRejected(p)
  PROVE  IInv'
BY ReviewEnds DEF MarkApproved, MarkRejected, Reviewing

LEMMA FaultKeeps ==
  ASSUME IInv, NEW p \in Session, Fault(p)
  PROVE  IInv'
<1>1. /\ UNCHANGED <<role, born, reqs, filed, token>>
      /\ again' = IF pc[p] \in {"grant", "approve"} THEN again \cup {loc[p].id} ELSE again
  BY DEF Fault
<1>2. CASE Answer(p, {}) /\ UNCHANGED <<quota, granted>>
  <2>1. CASE pc[p] \in Reviewing
    BY <1>1, <1>2, <2>1, ReviewEnds
  <2>2. CASE pc[p] \notin Reviewing
    BY <1>1, <1>2, <2>2, NoLocalType, IdleFits, Moved DEF Answer, Reviewing
  <2> QED
    BY <2>1, <2>2
<1>3. CASE pc[p] = "grant" /\ Granted(loc[p]) /\ Answer(p, Granting(loc[p].u, loc[p].e))
  BY <1>1, <1>3, NoLocalType, GrantedKeeps DEF Answer
<1> QED
  BY <1>2, <1>3 DEF Fault

-----------------------------------------------------------------------------
(***************************************************************************)
(* The invariant.                                                          *)
(***************************************************************************)

LEMMA InvInit == Init => IInv
<1> SUFFICES ASSUME Init PROVE IInv
  OBVIOUS
<1>1. TypeOK
  BY NoLocalType DEF Init, TypeOK, Calls
<1>2. Recorded
  BY DEF Init, Recorded, Users
<1>3. \A p \in Session : Fits(loc[p], pc[p])
  BY IdleFits DEF Init
<1>4. ReviewInv
  BY DEF Init, ReviewInv, GrantedFirst, ApprovedWasGranted, OnceReviewed, Reviews, Reviewing
<1> QED
  BY <1>1, <1>2, <1>3, <1>4 DEF IInv

LEMMA InvNext == IInv /\ [Next]_vars => IInv'
<1> SUFFICES ASSUME IInv, [Next]_vars PROVE IInv'
  OBVIOUS
<1>1. ASSUME NEW p \in Session, Send(p) PROVE IInv'
  <2>1. ASSUME NEW u \in Account, Login(p, u) PROVE IInv'
    BY <2>1, LoginKeeps
  <2>2. ASSUME NEW u \in Account, DeleteUser(p, u) PROVE IInv'
    BY <2>2, DeleteUserKeeps
  <2>3. ASSUME NEW u \in Account, NEW r \in Role, SetUserRole(p, u, r) PROVE IInv'
    BY <2>3, SetUserRoleKeeps
  <2>4. ASSUME NEW u \in Account, NEW r \in Role, NEW b \in Bodies, CreateUser(p, u, r, b)
        PROVE  IInv'
    BY <2>4, QuotaTypes, CreatedKeeps DEF CreateUser
  <2>5. ASSUME NEW u \in Account, NEW b \in Bodies, UpdateUserQuota(p, u, b) PROVE IInv'
    BY <2>5, QuotaTypes, UpdateUserQuotaKeeps
  <2>6. ASSUME NEW u \in Account, NEW b \in Bodies, NEW envs \in SUBSET Env,
               SetUserEnvironments(p, u, envs, b)
        PROVE  IInv'
    BY <2>6, QuotaTypes, SetUserEnvironmentsKeeps
  <2>7. ASSUME NEW e \in Env, NEW want \in Wants, CreateRequest(p, e, want) PROVE IInv'
    BY <2>7, QuotaTypes, CreateRequestKeeps
  <2>8. ASSUME NEW id \in Req, Reject(p, id) PROVE IInv'
    BY <2>8, QuotaTypes, ReviewKeeps
  <2>9. ASSUME NEW id \in Req, NEW over \in Wants \cup {NoQuota}, Approve(p, id, over)
        PROVE  IInv'
    BY <2>9, QuotaTypes, ReviewKeeps
  <2> QED
    BY <1>1, <2>1, <2>2, <2>3, <2>4, <2>5, <2>6, <2>7, <2>8, <2>9 DEF Send
<1>2. ASSUME NEW p \in Session, Call(p) PROVE IInv'
  BY <1>2, GetUserKeeps, CountAdminsKeeps, SetRoleKeeps, InsertKeeps, CurrentKeeps,
     GrantIsKept, MarkedKeeps DEF Call
<1>3. ASSUME NEW p \in Session, Fault(p) PROVE IInv'
  BY <1>3, FaultKeeps
<1>4. ASSUME NEW u \in Account, Bootstrap(u) PROVE IInv'
  BY <1>4, QuotaTypes, CreatedKeeps DEF Bootstrap, Role
<1>5. CASE UNCHANGED vars
  BY <1>5 DEF vars, IInv, TypeOK, Recorded, Users, Fits, Names, Demotable, Admins,
              GrantKeeps, Has, ReviewInv, GrantedFirst, ApprovedWasGranted,
              OnceReviewed, Reviews
<1> QED
  BY <1>1, <1>2, <1>3, <1>4, <1>5 DEF Next

-----------------------------------------------------------------------------
(***************************************************************************)
(* Theorems.                                                               *)
(***************************************************************************)

\* The inductive invariant: what a request read before it writes is still so, or
\* another one overtook it; and a request reviewed once is granted in the review
\* that approves it.
THEOREM InductiveInvariant == Spec => []IInv
<1>1. Init => IInv
  BY InvInit
<1>2. IInv /\ [Next]_vars => IInv'
  BY InvNext
<1> QED
  BY <1>1, <1>2, PTL DEF Spec

\* Every value stays in its type (handlers_users.go, store/users.go).
THEOREM TypeCorrect == Spec => []TypeOK
<1>1. IInv => TypeOK
  BY DEF IInv
<1> QED
  BY <1>1, InductiveInvariant, PTL

\* Whatever failed in between, what says approved was granted (handlers_users.go:
\* handleReviewRequest).
THEOREM ApprovedAlwaysGranted == Spec => []ApprovedWasGranted
<1>1. IInv => ApprovedWasGranted
  BY DEF IInv, ReviewInv, GrantedFirst
<1> QED
  BY <1>1, InductiveInvariant, PTL

\* What says rejected granted nothing, unless it was decided more than once or its
\* approval failed half-way (handlers_users.go: handleReviewRequest).
THEOREM RejectedNeverGranted == Spec => []RejectedGrantsNothing
<1>1. IInv => RejectedGrantsNothing
  <2> SUFFICES ASSUME IInv, NEW id \in Req \ again, reqs[id] # Nil,
                      reqs[id].status = "rejected"
               PROVE  id \notin granted
    BY DEF RejectedGrantsNothing
  <2> QED
    BY DEF IInv, ReviewInv, OnceReviewed
<1> QED
  BY <1>1, InductiveInvariant, PTL

\* For any number of sessions and accounts, the last admin goes only by a demotion
\* that was overtaken or by a session that is no admin's any more
\* (handlers_users.go: handleSetUserRole, handleDeleteUser).
THEOREM LastAdminAlwaysStays == Spec => LastAdminStays
<1> DEFINE Excused == \/ \E p \in Session : pc[p] = "setrole" /\ pc'[p] = "idle" /\ loc[p].late
                      \/ \E p \in Session, u \in Admins :
                           DeleteUser(p, u) /\ token[p].u \notin Admins
           Stays == Admins # {} /\ Admins' = {} => Excused
<1>1. IInv /\ [Next]_vars => [Stays]_vars
  <2> SUFFICES ASSUME IInv, Next, Admins # {}, Admins' = {} PROVE Excused
    OBVIOUS
  <2>1. role' # role
    BY DEF Admins
  <2>2. ASSUME NEW p \in Session, NEW u \in Account, DeleteUser(p, u) PROVE Excused
    <3>1. MayAdmin(p) /\ token[p].u # u /\ role' = [role EXCEPT ![u] = Nil]
      BY <2>2 DEF DeleteUser
    <3>2. Admins' = Admins \ {u}
      BY <3>1, NilApart DEF Admins, Role, IInv, TypeOK
    <3>3. u \in Admins /\ token[p].u \notin Admins
      BY <3>1, <3>2
    <3> QED
      BY <2>2, <3>3
  <2>3. ASSUME NEW p \in Session, SetRole(p) PROVE Excused
    <3>1. /\ pc[p] = "setrole" /\ pc'[p] = "idle"
          /\ role' = IF loc[p].u \in Users THEN [role EXCEPT ![loc[p].u] = loc[p].role] ELSE role
      BY <2>3, Ended DEF SetRole
    <3>2. Fits(loc[p], pc[p]) /\ loc[p].role \in Role
      BY <3>1, AtCall DEF Fits, Names
    <3>3. PICK u : u = loc[p].u
      OBVIOUS
    <3>4. u \in Users /\ u \in Account /\ role' = [role EXCEPT ![u] = loc[p].role]
      BY <2>1, <3>1, <3>3 DEF Users
    <3>5. loc[p].role = "member" /\ Admins \ {u} = {} /\ u \in Admins
      BY <3>2, <3>4 DEF Admins, Role, IInv, TypeOK
    <3>6. loc[p].late
      BY <3>1, <3>2, <3>3, <3>5 DEF Fits, Demotable
    <3> QED
      BY <3>1, <3>6
  <2>4. ASSUME NEW u \in Account, NEW r, NEW b, Created(u, r, b) PROVE FALSE
    <3>1. u \notin Users /\ role' = [role EXCEPT ![u] = r]
      BY <2>4 DEF Created, IInv, Recorded
    <3>2. u \notin Admins
      BY <3>1, NilApart DEF Admins, Users, Role
    <3>3. Admins \subseteq Admins'
      BY <3>1, <3>2 DEF Admins, IInv, TypeOK
    <3> QED
      BY <3>3
  <2>5. ASSUME NEW p \in Session, Send(p) PROVE Excused
    BY <2>1, <2>2, <2>4, <2>5 DEF Send, Login, SetUserRole, CreateUser, UpdateUserQuota,
          SetUserEnvironments, CreateRequest, Reject, Approve, Review
  <2>6. ASSUME NEW p \in Session, Call(p) \/ Fault(p) PROVE Excused
    BY <2>1, <2>3, <2>6 DEF Call, GetUser, CountAdmins, Insert, Current, Grant,
          MarkApproved, MarkRejected, Fault
  <2> QED
    BY <2>4, <2>5, <2>6 DEF Next, Bootstrap
<1> QED
  BY <1>1, InductiveInvariant, PTL DEF Spec, LastAdminStays

\* A review keeps the dimensions of a quota that nobody named, unless the quota
\* changed between its read and its write (handlers_users.go: handleReviewRequest).
THEOREM QuotasAreKeptIntact == Spec => KeptIntact
<1> DEFINE Intact(p) ==
      pc[p] = "grant" /\ pc'[p] # "grant" /\ ~ loc[p].late =>
        LET old == quota[loc[p].u][loc[p].e]
            new == quota'[loc[p].u][loc[p].e]
        IN  new # old => \A d \in Dim : loc[p].ask[d] = 0 =>
                           new[d] = IF old = Nil THEN 0 ELSE old[d]
<1>1. IInv /\ [Next]_vars => [\A p \in Session : Intact(p)]_vars
  <2> SUFFICES ASSUME IInv, Next, NEW p \in Session,
                      pc[p] = "grant", pc'[p] # "grant", ~ loc[p].late,
                      quota'[loc[p].u][loc[p].e] # quota[loc[p].u][loc[p].e],
                      NEW d \in Dim, loc[p].ask[d] = 0
               PROVE  quota'[loc[p].u][loc[p].e][d] =
                        IF quota[loc[p].u][loc[p].e] = Nil THEN 0
                        ELSE quota[loc[p].u][loc[p].e][d]
    OBVIOUS
  <2>1. PICK u, e, g : u = loc[p].u /\ e = loc[p].e /\ g = loc[p].grant
    OBVIOUS
  <2>2. u \in Account /\ e \in Env
    BY <2>1, AtReview DEF Reviewing
  <2>3. g = Pick(loc[p].ask, Has(u, e))
    BY <2>1, AtCall DEF Fits, GrantKeeps
  <2>4. ~ \E q \in Session \ {p} : \E l, at, late : Step(q, l, at, late)
    BY DEF Step, IInv, TypeOK
  <2>5. pc' # pc
    OBVIOUS
  <2>6. Grant(p) \/ Fault(p)
    <3>1. ASSUME NEW q \in Session, Send(q) PROVE FALSE
      <4>1. pc[q] = "idle" /\ q # p
        BY <3>1 DEF Send, Login, SetUserRole, CreateUser, UpdateUserQuota, DeleteUser,
              SetUserEnvironments, CreateRequest, Reject, Approve, Review, MayAdmin, May
      <4>2. \E l, at, late : Step(q, l, at, late)
        BY <3>1, <2>5 DEF Send, Login, SetUserRole, CreateUser, UpdateUserQuota,
              DeleteUser, SetUserEnvironments, CreateRequest, Reject, Approve, Review
      <4> QED
        BY <2>4, <4>1, <4>2
    <3>2. ASSUME NEW q \in Session, Call(q) \/ Fault(q), q # p PROVE FALSE
      <4>1. \E l, at, late : Step(q, l, at, late)
        BY <3>2 DEF Call, GetUser, CountAdmins, SetRole, Insert, Current, Grant,
              MarkApproved, MarkRejected, Fault, Goto, Answer, Unchecked
      <4> QED
        BY <2>4, <3>2, <4>1
    <3>3. Call(p) => Grant(p)
      BY DEF Call, GetUser, CountAdmins, SetRole, Insert, Current, MarkApproved, MarkRejected
    <3>4. ~ \E x \in Account : Bootstrap(x)
      BY <2>5 DEF Bootstrap
    <3> QED
      BY <3>1, <3>2, <3>3, <3>4 DEF Next
  <2>7. quota' = IF u \in Users THEN [quota EXCEPT ![u][e] = g] ELSE quota
    BY <2>1, <2>6 DEF Grant, Fault, Granted
  <2>8. quota'[u][e] = g
    BY <2>1, <2>2, <2>7 DEF IInv, TypeOK
  <2>9. g[d] = Has(u, e)[d]
    BY <2>3 DEF Pick
  <2>10. NoQuota[d] = 0
    BY DEF NoQuota
  <2> QED
    BY <2>1, <2>8, <2>9, <2>10 DEF Has
<1> QED
  BY <1>1, InductiveInvariant, PTL DEF Spec, KeptIntact
=============================================================================
