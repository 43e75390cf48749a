---------------------------- MODULE Membership ----------------------------
(***************************************************************************)
(* Who belongs to an organisation, and as what: addMember and removeMember *)
(* of filelayer.ts with authorizeMembershipChange of authz.ts, statement   *)
(* by statement.  A change holds the lock of the organisation's audit      *)
(* chain from its first statement to its commit.  Suspending or restoring  *)
(* somebody takes no lock, and neither does the row auto-provisioning adds *)
(* for a newcomer: both come between any two statements of a change.       *)
(***************************************************************************)
EXTENDS Authz, FiniteSets

CONSTANTS Orgs, Actors,
          Sessions,      \* changes that may be in flight together
          InitRole,      \* the memberships at the start
          Suspendable,   \* actors and organisations that may be soft-deleted
          Provisioned    \* <<organisation, actor>>: who may turn up by itself

Role == OrgRole \cup {None}

ASSUME MembershipAssumption ==
  /\ None \notin OrgRole \cup Sessions
  /\ InitRole \in [Orgs -> [Actors -> Role]]
  /\ \A o \in Orgs : \E a \in Actors : InitRole[o][a] = "owner"
  /\ Provisioned \subseteq Orgs \X Actors

VARIABLES role,      \* the table membership: what is on paper
          deleted,   \* actors and organisations that are soft-deleted
          lock,      \* who holds the lock of an organisation's chain
          session    \* changes in flight

vars == <<role, deleted, lock, session>>

Idle == [op |-> "idle"]

Init ==
  /\ role = InitRole
  /\ deleted = {}
  /\ lock = [o \in Orgs |-> None]
  /\ session = [s \in Sessions |-> Idle]

OrgCapabilities(r) ==
  CASE r = "member"             -> {"create_file"}
    [] r \in {"admin", "owner"} -> {"create_file", "manage_members", "read_audit"}
    [] OTHER                    -> {}

Outranks(a, b) == a # None /\ b # None /\ ~RoleMeets(b, a)

(* Mutant: the changed actor's role as an access check would read it. *)
OnPaper_Live(o, a) == IF {o, a} \cap deleted # {} THEN None ELSE role[o][a]

(* getMembership is about who may act, getMembershipOnPaper about the row. *)
GetMembership(o, a) == IF {o, a} \cap deleted # {} THEN None ELSE role[o][a]
OnPaper(o, a)       == IF o \in deleted THEN None ELSE role[o][a]

OwnerMemberships(o) == {a \in Actors : role[o][a] = "owner"}
LiveOwners(o)       == OwnerMemberships(o) \ deleted

-----------------------------------------------------------------------------
(* One change.  Every refusal is audited and commits, having changed no row. *)

Ask(s) ==
  /\ session[s] = Idle
  /\ \E o \in Orgs, by, target \in Actors, new \in Role :
       session' = [session EXCEPT ![s] =
         [op |-> "lock", org |-> o, by |-> by, target |-> target, new |-> new, current |-> None]]
  /\ UNCHANGED <<role, deleted, lock>>

At(s, op)     == session[s].op = op
GoesTo(s, op) == /\ session' = [session EXCEPT ![s].op = op]
                 /\ UNCHANGED <<role, deleted, lock>>
Released(s)   == /\ session' = [session EXCEPT ![s] = Idle]
                 /\ lock' = [o \in Orgs |-> IF lock[o] = s THEN None ELSE lock[o]]
                 /\ UNCHANGED deleted
Refused(s)    == Released(s) /\ UNCHANGED role

(* Mutant: decide without the lock. *)
Lock_Skipped(s) ==
  LET c == session[s] IN
  /\ At(s, "lock")
  /\ session' = [session EXCEPT ![s].op = "authorize", ![s].current = OnPaper(c.org, c.target)]
  /\ UNCHANGED <<role, deleted, lock>>

(* lockOrgForMembershipChange, and the role the target has at that moment. *)
Lock(s) ==
  LET c == session[s] IN
  /\ At(s, "lock")
  /\ lock[c.org] = None
  /\ lock' = [lock EXCEPT ![c.org] = s]
  /\ session' = [session EXCEPT ![s].op = "authorize", ![s].current = OnPaper(c.org, c.target)]
  /\ UNCHANGED <<role, deleted>>

AuthorizeOrg(s) ==
  LET c == session[s] IN
  /\ At(s, "authorize")
  /\ IF "manage_members" \in OrgCapabilities(GetMembership(c.org, c.by))
     THEN GoesTo(s, "rank")
     ELSE Refused(s)

(* The changer's role is read a second time; if it has gone by then the
   comparisons are with null, and none of them refuses.                    *)
Rank(s) ==
  LET c    == session[s]
      mine == GetMembership(c.org, c.by)
  IN  /\ At(s, "rank")
      /\ IF Outranks(c.current, mine) \/ Outranks(c.new, mine) THEN Refused(s)
         ELSE GoesTo(s, IF c.current = "owner" /\ c.new # "owner" THEN "count" ELSE "write")

(* last_owner, on paper ... *)
CountOwnerMemberships(s) ==
  /\ At(s, "count")
  /\ IF Cardinality(OwnerMemberships(session[s].org)) <= 1
     THEN Refused(s)
     ELSE GoesTo(s, "live")

(* ... and among the living, where it only protects a target who lives. *)
CountOwners(s) ==
  /\ At(s, "live")
  /\ GoesTo(s, IF Cardinality(LiveOwners(session[s].org)) <= 1 THEN "target" ELSE "write")

ProtectTarget(s) ==
  LET c == session[s] IN
  /\ At(s, "target")
  /\ IF GetMembership(c.org, c.target) # None THEN Refused(s) ELSE GoesTo(s, "write")

(* INSERT ... ON CONFLICT DO UPDATE, or DELETE. *)
Write(s) ==
  LET c == session[s] IN
  /\ At(s, "write")
  /\ role' = [role EXCEPT ![c.org][c.target] = c.new]
  /\ Released(s)

(* The process dies or the transaction fails: it is rolled back. *)
Abort(s) ==
  /\ session[s] # Idle
  /\ Refused(s)

-----------------------------------------------------------------------------
(* What goes on without the lock. *)

SoftDelete(x) ==
  /\ x \in Suspendable
  /\ deleted' = deleted \cup {x}
  /\ UNCHANGED <<role, lock, session>>

Restore(x) ==
  /\ x \in deleted
  /\ deleted' = deleted \ {x}
  /\ UNCHANGED <<role, lock, session>>

(* ON CONFLICT DO NOTHING, and only for an identity that is not deleted. *)
Provision(o, a) ==
  /\ <<o, a>> \in Provisioned
  /\ {o, a} \cap deleted = {}
  /\ role[o][a] = None
  /\ role' = [role EXCEPT ![o][a] = "member"]
  /\ UNCHANGED <<deleted, lock, session>>

Change(s) ==
  \/ Lock(s) \/ AuthorizeOrg(s) \/ Rank(s)
  \/ CountOwnerMemberships(s) \/ CountOwners(s) \/ ProtectTarget(s)
  \/ Write(s)

Next ==
  \/ \E s \in Sessions : Ask(s) \/ Change(s) \/ Abort(s)
  \/ \E x \in Suspendable : SoftDelete(x) \/ Restore(x)
  \/ \E o \in Orgs, a \in Actors : Provision(o, a)

Spec == Init /\ [][Next]_vars

-----------------------------------------------------------------------------
(* Properties. *)

Deciding == {"authorize", "rank", "count", "live", "target", "write"}

Call == [op : {"lock"} \cup Deciding, org : Orgs, by : Actors, target : Actors,
         new : Role, current : Role]

(* Types, and a change that has begun to decide holds its organisation. *)
TypeOK ==
  /\ role \in [Orgs -> [Actors -> Role]]
  /\ deleted \subseteq Suspendable
  /\ lock \in [Orgs -> Sessions \cup {None}]
  /\ session \in [Sessions -> {Idle} \cup Call]
  /\ \A s \in Sessions, o \in Orgs :
        lock[o] = s <=> session[s].op \in Deciding /\ session[s].org = o

(* "An org must always retain at least one owner membership row", whatever
   changes are decided at the same time and whoever is suspended meanwhile:
   without one nobody can ever be made its owner again.                    *)
OwnerOnPaper == \A o \in Orgs : OwnerMemberships(o) # {}

(* A change lifts nobody above the one who made it, and touches nobody above
   it, by the table as it is when the change commits and not only as it was
   when it was decided.  Somebody who may be suspended while the change is
   being decided is the exception: see Rank.                               *)
RanksHold ==
  [][\A s \in Sessions : At(s, "write") /\ role' # role /\ session'[s] = Idle =>
        LET c    == session[s]
            mine == role[c.org][c.by]
        IN  \/ c.by \in Suspendable
            \/ ~Outranks(role[c.org][c.target], mine) /\ ~Outranks(c.new, mine)]_vars
=============================================================================
