------------------------- MODULE Membership_proofs -------------------------
(***************************************************************************)
(* Proofs about Membership for any number of organisations, actors and     *)
(* concurrent changes.  The lock makes the invariant inductive: what a     *)
(* change has read of the table is still there when it writes, but for a   *)
(* newcomer who was provisioned meanwhile.                                 *)
(***************************************************************************)
EXTENDS Membership, FiniteSetTheorems, TLAPS

Here(c) == role[c.org][c.target]
Mine(c) == role[c.org][c.by]

(* What was read of the target: its role, or that it had none. *)
Fresh(c) == c.current = Here(c) \/ (c.current = None /\ Here(c) = "member")

MayManage(c) == Mine(c) \in {"admin", "owner"}

Ranked(c) == c.by \notin Suspendable =>
               ~Outranks(c.current, Mine(c)) /\ ~Outranks(c.new, Mine(c))

(* An owner other than the one who is about to stop being it. *)
Spare(c) == c.current = "owner" /\ c.new # "owner" =>
              \E a \in Actors \ {c.target} : role[c.org][a] = "owner"

(* What a change that has got as far as op relies on. *)
Relies(c, op) ==
  /\ op \in Deciding => Fresh(c)
  /\ op \in Deciding \ {"authorize"} => MayManage(c)
  /\ op \in Deciding \ {"authorize", "rank"} => Ranked(c)
  /\ op \in {"live", "target", "write"} => Spare(c)

Decided == \A s \in Sessions : Relies(session[s], session[s].op)

IInv == TypeOK /\ OwnerOnPaper /\ Decided

-----------------------------------------------------------------------------
(* Type correctness, action by action. *)

LEMMA IdleIsNoCall == Idle.op \notin Deciding /\ Idle \notin Call
BY DEF Idle, Call, Deciding

LEMMA Deciders ==
  ASSUME TypeOK, NEW s \in Sessions, session[s].op \in Deciding
  PROVE  session[s] \in Call /\ lock[session[s].org] = s /\ session[s].org \in Orgs
BY IdleIsNoCall DEF TypeOK, Call

LEMMA GoesToTypes ==
  ASSUME TypeOK, NEW s \in Sessions, NEW op \in Deciding,
         session[s].op \in Deciding, GoesTo(s, op)
  PROVE  TypeOK'
<1>1. session[s] \in Call
  BY Deciders
<1>2. session' = [session EXCEPT ![s].op = op] /\ UNCHANGED <<role, deleted, lock>>
  BY DEF GoesTo
<1>3. session'[s] \in Call /\ session'[s].op = op /\ session'[s].org = session[s].org
  BY <1>1, <1>2 DEF TypeOK, Call
<1>4. \A t \in Sessions \ {s} : session'[t] = session[t]
  BY <1>2 DEF TypeOK
<1> QED
  BY <1>2, <1>3, <1>4 DEF TypeOK

LEMMA ReleasedTypes ==
  ASSUME TypeOK, NEW s \in Sessions, Released(s), role' \in [Orgs -> [Actors -> Role]]
  PROVE  TypeOK'
<1>1. session'[s] = Idle /\ \A t \in Sessions \ {s} : session'[t] = session[t]
  BY DEF TypeOK, Released
<1>2. session' \in [Sessions -> {Idle} \cup Call]
  BY <1>1 DEF TypeOK, Released
<1>3. \A o \in Orgs : lock'[o] = IF lock[o] = s THEN None ELSE lock[o]
  BY DEF Released
<1>4. lock' \in [Orgs -> Sessions \cup {None}] /\ UNCHANGED deleted
  BY DEF Released, TypeOK
<1>5. None \notin Sessions
  BY MembershipAssumption
<1>6. \A t \in Sessions, o \in Orgs :
         lock'[o] = t <=> session'[t].op \in Deciding /\ session'[t].org = o
  <2> SUFFICES ASSUME NEW t \in Sessions, NEW o \in Orgs
               PROVE  lock'[o] = t <=> session'[t].op \in Deciding /\ session'[t].org = o
    OBVIOUS
  <2>1. CASE t = s
    BY <2>1, <1>1, <1>3, <1>5, IdleIsNoCall
  <2>2. CASE t # s
    <3>1. lock'[o] = t <=> lock[o] = t
      BY <2>2, <1>3, <1>5
    <3> QED
      BY <3>1, <2>2, <1>1 DEF TypeOK
  <2> QED
    BY <2>1, <2>2
<1> QED
  BY <1>2, <1>4, <1>6 DEF TypeOK

LEMMA RefusedTypes ==
  ASSUME TypeOK, NEW s \in Sessions, Refused(s)
  PROVE  TypeOK'
<1>1. Released(s) /\ role' \in [Orgs -> [Actors -> Role]]
  BY DEF Refused, TypeOK
<1> QED
  BY <1>1, ReleasedTypes

LEMMA WriteTypes ==
  ASSUME TypeOK, NEW s \in Sessions, Write(s)
  PROVE  TypeOK'
<1>1. session[s] \in Call
  BY Deciders DEF Write, At, Deciding
<1>2. role' = [role EXCEPT ![session[s].org][session[s].target] = session[s].new]
  BY DEF Write
<1>3. role' \in [Orgs -> [Actors -> Role]]
  BY <1>1, <1>2 DEF TypeOK, Call
<1> QED
  BY <1>3, ReleasedTypes DEF Write

LEMMA LockTypes ==
  ASSUME TypeOK, NEW s \in Sessions, Lock(s)
  PROVE  /\ TypeOK'
         /\ session'[s].op = "authorize"
         /\ session'[s].current = OnPaper(session[s].org, session[s].target)
         /\ session'[s].org = session[s].org /\ session'[s].target = session[s].target
         /\ session[s].org \in Orgs /\ session[s].target \in Actors
         /\ \A t \in Sessions \ {s} : session'[t] = session[t]
         /\ UNCHANGED <<role, deleted>>
<1> DEFINE c == session[s]
<1>1. c \in Call /\ c.op = "lock" /\ c.org \in Orgs /\ c.target \in Actors
  BY DEF TypeOK, Lock, At, Idle, Call
<1>2. /\ session' = [session EXCEPT ![s].op = "authorize", ![s].current = OnPaper(c.org, c.target)]
      /\ lock[c.org] = None /\ lock' = [lock EXCEPT ![c.org] = s]
      /\ UNCHANGED <<role, deleted>>
  BY DEF Lock
<1>3. OnPaper(c.org, c.target) \in Role
  BY <1>1 DEF OnPaper, TypeOK, Role
<1>4. /\ session'[s] \in Call /\ session'[s].op = "authorize"
      /\ session'[s].current = OnPaper(c.org, c.target)
      /\ session'[s].org = c.org /\ session'[s].target = c.target
  BY <1>1, <1>2, <1>3 DEF TypeOK, Call, Deciding
<1>5. \A t \in Sessions \ {s} : session'[t] = session[t]
  BY <1>2 DEF TypeOK
<1>6. None \notin Sessions
  BY MembershipAssumption
<1>7. session' \in [Sessions -> {Idle} \cup Call]
  BY <1>2, <1>4, <1>5 DEF TypeOK
<1>8. \A t \in Sessions, o \in Orgs :
         lock'[o] = t <=> session'[t].op \in Deciding /\ session'[t].org = o
  <2> SUFFICES ASSUME NEW t \in Sessions, NEW o \in Orgs
               PROVE  lock'[o] = t <=> session'[t].op \in Deciding /\ session'[t].org = o
    OBVIOUS
  <2>1. lock'[o] = IF o = c.org THEN s ELSE lock[o]
    BY <1>2 DEF TypeOK
  <2>2. lock[o] = t <=> session[t].op \in Deciding /\ session[t].org = o
    BY DEF TypeOK
  <2>3. CASE t = s
    BY <2>1, <2>2, <2>3, <1>1, <1>4 DEF Deciding
  <2>4. CASE t # s
    <3>1. session'[t] = session[t]
      BY <2>4, <1>5
    <3>2. lock'[o] = t <=> lock[o] = t
      BY <2>1, <2>4, <1>2, <1>6
    <3> QED
      BY <3>1, <3>2, <2>2
  <2> QED
    BY <2>3, <2>4
<1> QED
  BY <1>1, <1>2, <1>4, <1>5, <1>7, <1>8 DEF TypeOK

LEMMA AskTypes ==
  ASSUME TypeOK, NEW s \in Sessions, Ask(s)
  PROVE  TypeOK' /\ session'[s].op = "lock"
<1>1. PICK o \in Orgs, by \in Actors, target \in Actors, new \in Role :
        session' = [session EXCEPT ![s] =
          [op |-> "lock", org |-> o, by |-> by, target |-> target, new |-> new, current |-> None]]
  BY DEF Ask
<1>2. session'[s] \in Call /\ session'[s].op = "lock"
  BY <1>1 DEF TypeOK, Call, Role
<1>3. \A t \in Sessions \ {s} : session'[t] = session[t]
  BY <1>1 DEF TypeOK
<1>4. session[s] = Idle /\ UNCHANGED <<role, deleted, lock>>
  BY DEF Ask
<1>5. session' \in [Sessions -> {Idle} \cup Call]
  BY <1>1, <1>2, <1>3 DEF TypeOK
<1> QED
  BY <1>2, <1>3, <1>4, <1>5, IdleIsNoCall DEF TypeOK, Deciding

LEMMA ProvisionTypes ==
  ASSUME TypeOK, NEW o \in Orgs, NEW a \in Actors, Provision(o, a)
  PROVE  TypeOK'
<1>1. role' \in [Orgs -> [Actors -> Role]]
  BY DEF Provision, TypeOK, Role, OrgRole
<1> QED
  BY <1>1 DEF Provision, TypeOK

(* The steps that read and decide: each goes on or lets go, the table as it
   was.                                                                    *)
LEMMA ChangeSteps ==
  ASSUME TypeOK, NEW s \in Sessions,
         \/ AuthorizeOrg(s) \/ Rank(s) \/ CountOwnerMemberships(s)
         \/ CountOwners(s) \/ ProtectTarget(s)
  PROVE  /\ session[s].op \in Deciding
         /\ \/ \E op \in Deciding : GoesTo(s, op)
            \/ Refused(s)
         /\ TypeOK'
<1>1. session[s].op \in Deciding
  BY DEF AuthorizeOrg, Rank, CountOwnerMemberships, CountOwners, ProtectTarget, At, Deciding
<1>2. (\E op \in Deciding : GoesTo(s, op)) \/ Refused(s)
  BY DEF AuthorizeOrg, Rank, CountOwnerMemberships, CountOwners, ProtectTarget, Deciding
<1>3. CASE \E op \in Deciding : GoesTo(s, op)
  BY <1>1, <1>3, GoesToTypes
<1>4. CASE Refused(s)
  BY <1>1, <1>4, RefusedTypes
<1> QED
  BY <1>1, <1>2, <1>3, <1>4

LEMMA TypeStep == TypeOK /\ [Next]_vars => TypeOK'
<1> SUFFICES ASSUME TypeOK, [Next]_vars PROVE TypeOK'
  OBVIOUS
<1>1. ASSUME NEW s \in Sessions, Ask(s) PROVE TypeOK'
  BY <1>1, AskTypes
<1>2. ASSUME NEW s \in Sessions, Change(s) PROVE TypeOK'
  BY <1>2, LockTypes, ChangeSteps, WriteTypes DEF Change
<1>3. ASSUME NEW s \in Sessions, Abort(s) PROVE TypeOK'
  BY <1>3, RefusedTypes DEF Abort
<1>4. ASSUME NEW x \in Suspendable, SoftDelete(x) \/ Restore(x) PROVE TypeOK'
  BY <1>4 DEF SoftDelete, Restore, TypeOK
<1>5. ASSUME NEW o \in Orgs, NEW a \in Actors, Provision(o, a) PROVE TypeOK'
  BY <1>5, ProvisionTypes
<1>6. CASE UNCHANGED vars
  BY <1>6 DEF vars, TypeOK
<1> QED
  BY <1>1, <1>2, <1>3, <1>4, <1>5, <1>6 DEF Next

LEMMA TypeInit == Init => TypeOK
BY MembershipAssumption, IdleIsNoCall DEF Init, TypeOK

(* The tables, the locks and the changes in flight keep their shape, and an
   organisation's lock belongs to the one change that decides about it.    *)
THEOREM TypeCorrect == Spec => []TypeOK
BY TypeInit, TypeStep, PTL DEF Spec

-----------------------------------------------------------------------------
(* The inductive invariant. *)

LEMMA GoesToDecides ==
  ASSUME TypeOK, Decided, NEW s \in Sessions, NEW op \in Deciding,
         session[s].op \in Deciding, GoesTo(s, op), Relies(session[s], op)
  PROVE  Decided'
<1>1. session[s] \in Call
  BY Deciders
<1>2. session' = [session EXCEPT ![s].op = op] /\ UNCHANGED <<role, deleted, lock>>
  BY DEF GoesTo
<1>3. /\ session'[s].op = op /\ session'[s].org = session[s].org
      /\ session'[s].by = session[s].by /\ session'[s].target = session[s].target
      /\ session'[s].new = session[s].new /\ session'[s].current = session[s].current
  BY <1>1, <1>2 DEF TypeOK, Call
<1>4. \A t \in Sessions \ {s} : session'[t] = session[t]
  BY <1>2 DEF TypeOK
<1>5. Relies(session[s], session[s].op)'
  BY <1>2, <1>3 DEF Relies, Fresh, MayManage, Ranked, Spare, Here, Mine
<1>6. ASSUME NEW t \in Sessions \ {s} PROVE Relies(session[t], session[t].op)'
  BY <1>2, <1>4 DEF Decided, Relies, Fresh, MayManage, Ranked, Spare, Here, Mine
<1> QED
  BY <1>5, <1>6 DEF Decided

LEMMA QuietDecides ==
  ASSUME Decided, role' = role,
         \A t \in Sessions : session'[t] = session[t] \/ session'[t].op \notin Deciding
  PROVE  Decided'
<1> SUFFICES ASSUME NEW t \in Sessions PROVE Relies(session[t], session[t].op)'
  BY DEF Decided
<1>1. CASE session'[t] = session[t]
  BY <1>1 DEF Decided, Relies, Fresh, MayManage, Ranked, Spare, Here, Mine
<1>2. CASE session'[t].op \notin Deciding
  BY <1>2 DEF Relies, Deciding
<1> QED
  BY <1>1, <1>2

LEMMA AuthorizeOrgDecides ==
  ASSUME TypeOK, Decided, NEW s \in Sessions, At(s, "authorize"),
         "manage_members" \in OrgCapabilities(GetMembership(session[s].org, session[s].by))
  PROVE  Relies(session[s], "rank")
<1>1. GetMembership(session[s].org, session[s].by) \in {"admin", "owner"}
  BY DEF OrgCapabilities
<1>2. None \notin OrgRole
  BY MembershipAssumption
<1>3. Mine(session[s]) \in {"admin", "owner"}
  BY <1>1, <1>2 DEF GetMembership, Mine, OrgRole
<1>4. Fresh(session[s])
  BY DEF Decided, Relies, At, Deciding
<1> QED
  BY <1>3, <1>4 DEF Relies, MayManage

LEMMA RankDecides ==
  ASSUME TypeOK, Decided, Suspendable \cap Orgs = {}, NEW s \in Sessions, At(s, "rank"),
         LET c == session[s] mine == GetMembership(c.org, c.by)
         IN  ~Outranks(c.current, mine) /\ ~Outranks(c.new, mine),
         NEW op \in {"count", "write"},
         op = "write" => ~(session[s].current = "owner" /\ session[s].new # "owner")
  PROVE  Relies(session[s], op)
<1>1. session[s].org \in Orgs
  BY Deciders DEF At, Deciding
<1>2. Ranked(session[s])
  BY <1>1 DEF Ranked, Mine, GetMembership, TypeOK
<1>3. Fresh(session[s]) /\ MayManage(session[s])
  BY DEF Decided, Relies, At, Deciding
<1>4. op = "write" => Spare(session[s])
  BY DEF Spare
<1> QED
  BY <1>2, <1>3, <1>4 DEF Relies

LEMMA CountDecides ==
  ASSUME TypeOK, Decided, NEW s \in Sessions, At(s, "count"),
         ~(Cardinality(OwnerMemberships(session[s].org)) <= 1)
  PROVE  Relies(session[s], "live")
<1> DEFINE c == session[s]
           owners == OwnerMemberships(c.org)
<1>1. c \in Call /\ c.target \in Actors
  BY Deciders DEF At, Deciding, Call
<1>2. Fresh(c) /\ MayManage(c) /\ Ranked(c)
  BY DEF Decided, Relies, At, Deciding
<1>3. Spare(c)
  <2> SUFFICES ASSUME c.current = "owner",
                      \A a \in Actors \ {c.target} : role[c.org][a] # "owner"
               PROVE  FALSE
    BY DEF Spare
  <2>1. c.target \in owners
    BY <1>1, <1>2, MembershipAssumption DEF Fresh, Here, OwnerMemberships, OrgRole
  <2>2. owners = {c.target}
    BY <2>1 DEF OwnerMemberships
  <2>3. Cardinality(owners) = 1
    BY <2>2, FS_Singleton
  <2> QED
    BY <2>3
<1> QED
  BY <1>2, <1>3 DEF Relies

LEMMA LockDecides ==
  ASSUME TypeOK, Decided, Suspendable \cap Orgs = {}, NEW s \in Sessions, Lock(s)
  PROVE  Decided'
<1> DEFINE c == session[s]
<1>1. /\ session'[s].op = "authorize"
      /\ session'[s].current = OnPaper(c.org, c.target)
      /\ session'[s].org = c.org /\ session'[s].target = c.target
      /\ c.org \in Orgs
      /\ \A t \in Sessions \ {s} : session'[t] = session[t]
      /\ UNCHANGED <<role, deleted>>
  BY LockTypes
<1>2. OnPaper(c.org, c.target) = role[c.org][c.target]
  BY <1>1 DEF OnPaper, TypeOK
<1>3. Relies(session[s], session[s].op)'
  BY <1>1, <1>2 DEF Relies, Fresh, Here
<1>4. ASSUME NEW t \in Sessions \ {s} PROVE Relies(session[t], session[t].op)'
  BY <1>1 DEF Decided, Relies, Fresh, MayManage, Ranked, Spare, Here, Mine
<1> QED
  BY <1>3, <1>4 DEF Decided

(* Nobody else is deciding about the organisation that changes. *)
LEMMA WriteDecides ==
  ASSUME TypeOK, Decided, NEW s \in Sessions, Write(s)
  PROVE  Decided'
<1> DEFINE c == session[s]
<1>1. c \in Call /\ lock[c.org] = s /\ c.op \in Deciding
  BY Deciders DEF Write, At, Deciding
<1>2. /\ role' = [role EXCEPT ![c.org][c.target] = c.new]
      /\ session' = [session EXCEPT ![s] = Idle]
  BY DEF Write, Released
<1>3. session'[s] = Idle /\ \A t \in Sessions \ {s} : session'[t] = session[t]
  BY <1>2 DEF TypeOK
<1>4. Relies(session[s], session[s].op)'
  BY <1>3, IdleIsNoCall DEF Relies, Deciding
<1>5. ASSUME NEW t \in Sessions \ {s} PROVE Relies(session[t], session[t].op)'
  <2>1. CASE session[t].op \in Deciding
    <3>1. lock[session[t].org] = t /\ session[t].org \in Orgs
      BY <2>1, Deciders
    <3>2. session[t].org # c.org
      BY <3>1, <1>1
    <3>3. role'[session[t].org] = role[session[t].org]
      BY <3>1, <3>2, <1>2 DEF TypeOK
    <3>4. Relies(session[t], session[t].op)
      BY DEF Decided
    <3> QED
      BY <3>3, <3>4, <1>3 DEF Relies, Fresh, MayManage, Ranked, Spare, Here, Mine
  <2>2. CASE session[t].op \notin Deciding
    BY <2>2, <1>3 DEF Relies, Deciding
  <2> QED
    BY <2>1, <2>2
<1> QED
  BY <1>4, <1>5 DEF Decided

(* A newcomer had no role, so was neither the changer nor an owner. *)
LEMMA ProvisionDecides ==
  ASSUME TypeOK, Decided, NEW o \in Orgs, NEW a \in Actors, Provision(o, a)
  PROVE  Decided'
<1>1. /\ role[o][a] = None /\ role' = [role EXCEPT ![o][a] = "member"]
      /\ UNCHANGED session
  BY DEF Provision
<1>2. None \notin OrgRole
  BY MembershipAssumption
<1> SUFFICES ASSUME NEW t \in Sessions, session[t].op \in Deciding
             PROVE  Relies(session[t], session[t].op)'
  BY <1>1 DEF Decided, Relies, Deciding
<1> DEFINE c == session[t]
<1>3. c \in Call /\ c.org \in Orgs /\ c.by \in Actors /\ c.target \in Actors
  BY Deciders DEF Call
<1>4. \A p \in Orgs, b \in Actors :
         role'[p][b] = IF p = o /\ b = a THEN "member" ELSE role[p][b]
  BY <1>1 DEF TypeOK
<1>5. Relies(c, c.op)
  BY DEF Decided
<1>6. Fresh(c)'
  BY <1>1, <1>3, <1>4, <1>5 DEF Relies, Fresh, Here
<1>7. MayManage(c) => Mine(c)' = Mine(c)
  BY <1>1, <1>2, <1>3, <1>4 DEF MayManage, Mine, OrgRole
<1>8. Spare(c) => Spare(c)'
  BY <1>1, <1>2, <1>3, <1>4 DEF Spare, OrgRole
<1>9. c.op \in Deciding \ {"authorize"} => MayManage(c)'
  BY <1>5, <1>7, <1>1 DEF Relies, MayManage
<1>10. c.op \in Deciding \ {"authorize", "rank"} => Ranked(c)'
  BY <1>5, <1>7, <1>1 DEF Relies, Ranked, Deciding
<1> QED
  BY <1>1, <1>5, <1>6, <1>8, <1>9, <1>10 DEF Relies

LEMMA ChangeDecides ==
  ASSUME TypeOK, Decided, Suspendable \cap Orgs = {}, NEW s \in Sessions, Change(s)
  PROVE  Decided'
<1>1. ASSUME Refused(s) PROVE Decided'
  <2>1. role' = role /\ session'[s].op \notin Deciding
    BY <1>1, IdleIsNoCall DEF Refused, Released, TypeOK
  <2>2. \A t \in Sessions \ {s} : session'[t] = session[t]
    BY <1>1 DEF Refused, Released, TypeOK
  <2> QED
    BY <2>1, <2>2, QuietDecides
<1>2. ASSUME session[s].op \in Deciding, NEW op \in Deciding, GoesTo(s, op), Relies(session[s], op)
      PROVE  Decided'
  BY <1>2, GoesToDecides
<1>3. CASE Lock(s)
  BY <1>3, LockDecides
<1>4. CASE AuthorizeOrg(s)
  <2>1. At(s, "authorize") /\ session[s].op \in Deciding
    BY <1>4 DEF AuthorizeOrg, At, Deciding
  <2>2. CASE "manage_members" \in OrgCapabilities(GetMembership(session[s].org, session[s].by))
    BY <1>2, <1>4, <2>1, <2>2, AuthorizeOrgDecides DEF AuthorizeOrg, Deciding
  <2> QED
    BY <1>1, <1>4, <2>2 DEF AuthorizeOrg
<1>5. CASE Rank(s)
  <2> DEFINE c    == session[s]
             mine == GetMembership(c.org, c.by)
             op   == IF c.current = "owner" /\ c.new # "owner" THEN "count" ELSE "write"
  <2>1. At(s, "rank") /\ c.op \in Deciding /\ op \in Deciding
    BY <1>5 DEF Rank, At, Deciding
  <2>2. CASE ~Outranks(c.current, mine) /\ ~Outranks(c.new, mine)
    <3>1. GoesTo(s, op)
      BY <1>5, <2>2 DEF Rank
    <3>2. Relies(c, op)
      BY <2>1, <2>2, RankDecides
    <3> QED
      BY <3>1, <3>2, <2>1, <1>2
  <2> QED
    BY <1>1, <1>5, <2>2 DEF Rank
<1>6. CASE CountOwnerMemberships(s)
  <2>1. At(s, "count") /\ session[s].op \in Deciding
    BY <1>6 DEF CountOwnerMemberships, At, Deciding
  <2>2. CASE ~(Cardinality(OwnerMemberships(session[s].org)) <= 1)
    BY <1>2, <1>6, <2>1, <2>2, CountDecides DEF CountOwnerMemberships, Deciding
  <2> QED
    BY <1>1, <1>6, <2>2 DEF CountOwnerMemberships
<1>7. CASE CountOwners(s)
  <2>1. At(s, "live") /\ session[s].op \in Deciding
    BY <1>7 DEF CountOwners, At, Deciding
  <2>2. Relies(session[s], "target") /\ Relies(session[s], "write")
    BY <2>1 DEF Decided, Relies, At, Deciding
  <2> QED
    BY <1>2, <1>7, <2>1, <2>2 DEF CountOwners, Deciding
<1>8. CASE ProtectTarget(s)
  <2>1. At(s, "target") /\ session[s].op \in Deciding
    BY <1>8 DEF ProtectTarget, At, Deciding
  <2>2. Relies(session[s], "write")
    BY <2>1 DEF Decided, Relies, At, Deciding
  <2> QED
    BY <1>1, <1>2, <1>8, <2>1, <2>2 DEF ProtectTarget, Deciding
<1>9. CASE Write(s)
  BY <1>9, WriteDecides
<1> QED
  BY <1>3, <1>4, <1>5, <1>6, <1>7, <1>8, <1>9 DEF Change

LEMMA DecidedStep ==
  ASSUME TypeOK, Decided, Suspendable \cap Orgs = {}, [Next]_vars
  PROVE  Decided'
<1>1. ASSUME NEW s \in Sessions, Ask(s) PROVE Decided'
  <2>1. session'[s].op \notin Deciding
    BY <1>1, AskTypes DEF Deciding
  <2>2. role' = role /\ \A t \in Sessions \ {s} : session'[t] = session[t]
    BY <1>1 DEF Ask, TypeOK
  <2> QED
    BY <2>1, <2>2, QuietDecides
<1>2. ASSUME NEW s \in Sessions, Change(s) PROVE Decided'
  BY <1>2, ChangeDecides
<1>3. ASSUME NEW s \in Sessions, Abort(s) PROVE Decided'
  <2>1. role' = role /\ session'[s].op \notin Deciding
    BY <1>3, IdleIsNoCall DEF Abort, Refused, Released, TypeOK
  <2>2. \A t \in Sessions \ {s} : session'[t] = session[t]
    BY <1>3 DEF Abort, Refused, Released, TypeOK
  <2> QED
    BY <2>1, <2>2, QuietDecides
<1>4. ASSUME NEW x \in Suspendable, SoftDelete(x) \/ Restore(x) PROVE Decided'
  BY <1>4, QuietDecides DEF SoftDelete, Restore
<1>5. ASSUME NEW o \in Orgs, NEW a \in Actors, Provision(o, a) PROVE Decided'
  BY <1>5, ProvisionDecides
<1>6. CASE UNCHANGED vars
  BY <1>6, QuietDecides DEF vars
<1> QED
  BY <1>1, <1>2, <1>3, <1>4, <1>5, <1>6 DEF Next

-----------------------------------------------------------------------------
(* What follows from it. *)

LEMMA OwnerStep ==
  ASSUME TypeOK, Decided, OwnerOnPaper, [Next]_vars
  PROVE  OwnerOnPaper'
<1> SUFFICES ASSUME NEW o \in Orgs PROVE \E a \in Actors : role'[o][a] = "owner"
  BY DEF OwnerOnPaper, OwnerMemberships
<1>1. PICK b \in Actors : role[o][b] = "owner"
  BY DEF OwnerOnPaper, OwnerMemberships
<1>2. ASSUME NEW s \in Sessions, Write(s) PROVE \E a \in Actors : role'[o][a] = "owner"
  <2> DEFINE c == session[s]
  <2>1. c \in Call /\ c.org \in Orgs /\ c.target \in Actors
    BY <1>2, Deciders DEF Write, At, Deciding, Call
  <2>2. \A p \in Orgs, a \in Actors :
           role'[p][a] = IF p = c.org /\ a = c.target THEN c.new ELSE role[p][a]
    BY <1>2, <2>1 DEF Write, TypeOK
  <2>3. Fresh(c) /\ Spare(c)
    BY <1>2 DEF Decided, Relies, Write, At, Deciding
  <2>4. CASE o # c.org \/ b # c.target \/ c.new = "owner"
    BY <2>4, <2>1, <2>2, <1>1
  <2>5. CASE o = c.org /\ b = c.target /\ c.new # "owner"
    <3>1. c.current = "owner"
      BY <2>5, <2>3, <1>1 DEF Fresh, Here
    <3>2. PICK a \in Actors \ {c.target} : role[c.org][a] = "owner"
      BY <3>1, <2>3, <2>5 DEF Spare
    <3> QED
      BY <3>2, <2>2, <2>5
  <2> QED
    BY <2>4, <2>5
<1>3. ASSUME NEW p \in Orgs, NEW a \in Actors, Provision(p, a)
      PROVE  \E d \in Actors : role'[o][d] = "owner"
  <2>1. None \notin OrgRole
    BY MembershipAssumption
  <2>2. role[p][a] = None /\ role' = [role EXCEPT ![p][a] = "member"]
    BY <1>3 DEF Provision
  <2>3. role'[o][b] = "owner"
    BY <1>1, <2>1, <2>2 DEF TypeOK, OrgRole
  <2> QED
    BY <2>3
<1>4. ASSUME role' = role PROVE \E a \in Actors : role'[o][a] = "owner"
  BY <1>1, <1>4
<1>5. ASSUME NEW s \in Sessions, Change(s), ~Write(s) PROVE role' = role
  BY <1>5 DEF Change, Lock, AuthorizeOrg, Rank, CountOwnerMemberships, CountOwners,
              ProtectTarget, GoesTo, Refused
<1> QED
  BY <1>2, <1>3, <1>4, <1>5 DEF Next, Ask, Abort, Refused, SoftDelete, Restore, vars

LEMMA InitIInv == Init => IInv
<1> SUFFICES ASSUME Init PROVE OwnerOnPaper /\ Decided
  BY TypeInit DEF IInv
<1>1. OwnerOnPaper
  BY MembershipAssumption DEF Init, OwnerOnPaper, OwnerMemberships
<1>2. Decided
  BY IdleIsNoCall DEF Init, Decided, Relies, Deciding
<1> QED
  BY <1>1, <1>2

LEMMA Inductive == Suspendable \cap Orgs = {} => (Spec => []IInv)
<1> SUFFICES ASSUME Suspendable \cap Orgs = {} PROVE Spec => []IInv
  OBVIOUS
<1>1. IInv /\ [Next]_vars => IInv'
  BY TypeStep, DecidedStep, OwnerStep DEF IInv
<1> QED
  BY <1>1, InitIInv, PTL DEF Spec

(* Whatever changes race, an organisation keeps an owner on paper -- as long
   as no organisation is itself suspended and restored.                    *)
THEOREM OwnersRemain == Suspendable \cap Orgs = {} => (Spec => []OwnerOnPaper)
<1> SUFFICES ASSUME Suspendable \cap Orgs = {} PROVE Spec => []OwnerOnPaper
  OBVIOUS
<1>1. IInv => OwnerOnPaper
  BY DEF IInv
<1> QED
  BY <1>1, Inductive, PTL

LEMMA NobodysSuperior ==
  ASSUME NEW mine \in {"admin", "owner"}
  PROVE  ~Outranks("member", mine)
BY DEF Outranks, RoleMeets, RoleRank

(* A change that commits is within the rank of the one who made it, by the
   table it changes.                                                       *)
THEOREM RanksAreKept == Suspendable \cap Orgs = {} => (Spec => RanksHold)
<1> SUFFICES ASSUME Suspendable \cap Orgs = {} PROVE Spec => RanksHold
  OBVIOUS
<1> DEFINE Within(s) == LET c    == session[s]
                            mine == role[c.org][c.by]
                        IN  \/ c.by \in Suspendable
                            \/ ~Outranks(role[c.org][c.target], mine) /\ ~Outranks(c.new, mine)
           Kept == \A s \in Sessions :
                     At(s, "write") /\ role' # role /\ session'[s] = Idle => Within(s)
<1>1. IInv => \A s \in Sessions : At(s, "write") => Within(s)
  <2> SUFFICES ASSUME IInv, NEW s \in Sessions, At(s, "write"), session[s].by \notin Suspendable
               PROVE  Within(s)
    OBVIOUS
  <2>1. Fresh(session[s]) /\ MayManage(session[s]) /\ Ranked(session[s])
    BY DEF IInv, Decided, Relies, At, Deciding
  <2>2. ~Outranks(session[s].current, Mine(session[s])) /\ ~Outranks(session[s].new, Mine(session[s]))
    BY <2>1 DEF Ranked
  <2>3. ~Outranks(Here(session[s]), Mine(session[s]))
    BY <2>1, <2>2, NobodysSuperior DEF Fresh, MayManage
  <2> QED
    BY <2>2, <2>3 DEF Mine, Here
<1>2. IInv => [Kept]_vars
  BY <1>1
<1> QED
  BY <1>2, Inductive, PTL DEF RanksHold
=============================================================================
