---------------------------- MODULE Provisioning ----------------------------
(***************************************************************************)
(* How identities come to be: put and orgs.create of the facade register   *)
(* organisations, people and memberships on the way, createOrg of the      *)
(* engine makes an organisation with its owner, and the control plane      *)
(* suspends and restores people and organisations.  createOrg is one       *)
(* transaction; everything else is a row of statements that commit one by  *)
(* one, with other callers in between, and a crash may cut it short.       *)
(***************************************************************************)
EXTENDS Authz, FiniteSets

CONSTANTS Callers,      \* calls that may be under way together
          People, System,       \* external ids of actors; the facade's own
          Named, Workspace,     \* external ids of organisations; the default one
          Suspendable,          \* people and organisations
          MaxCalls, MaxCuts     \* bounds for the model checker

ProvisioningConstants ==
  /\ System \notin People /\ Workspace \notin Named
  /\ Suspendable \subseteq People \cup Named
  /\ None \notin OrgRole

Everyone == People \cup {System}
Places   == Named \cup {Workspace}

VARIABLES places,     \* the table org
          member,     \* the table membership
          suspended,  \* people and organisations
          trail,      \* what the audit chains say: <<event, organisation, actor>>
          call,       \* the calls under way, with the statement each comes to next
          maker,      \* history: the call and the user that made the organisation
          begun,      \* how many calls have begun
          owed,       \* history: who was suspended as a member of what
          cut,        \* history: the statements crashes came before
          answer      \* history: how an orgs.create was answered, if that was the last event

provisionVars == <<places, member, suspended, trail, call, begun, maker, owed, cut, answer>>

Unused == [stmt |-> "idle"]

ProvisioningInit ==
  /\ places = {}
  /\ member = [o \in Places |-> [u \in Everyone |-> None]]
  /\ suspended = {}
  /\ trail = {}
  /\ call = [c \in Callers |-> Unused]
  /\ maker = [o \in Places |-> [op |-> None, user |-> None]]
  /\ begun = 0
  /\ owed = {}
  /\ cut = {}
  /\ answer = None

At(c, stmt) == call[c].stmt = stmt
Goes(c, stmt) == call' = [call EXCEPT ![c] = IF stmt = "idle" THEN Unused
                                             ELSE [@ EXCEPT !.stmt = stmt]]

(* getMembership: nobody is a member of, or as, something suspended. *)
StandsAs(o, u) == IF suspended \cap {o, u} # {} THEN None ELSE member[o][u]

CallsBegin == begun < MaxCalls /\ begun' = begun + 1

Starts(c, op, o, u) ==
  /\ At(c, "idle") /\ CallsBegin
  /\ call' = [call EXCEPT ![c] = [op |-> op, org |-> o, user |-> u, stmt |-> "org",
                                  created |-> FALSE, todo |-> {}]]
  /\ answer' = None
  /\ UNCHANGED <<places, member, suspended, trail, maker, owed, cut>>

BeginPut(c, o, u) == Starts(c, "put", o, u)

(* The owner is registered first; a suspended one is refused. *)
BeginCreate(c, o, u) == u \notin suspended /\ Starts(c, "create", o, u)

(* Mutant: an organisation that existed already counts as made by the call. *)
UpsertOrg_Created(c) ==
  LET k == call[c]
  IN  /\ At(c, "org")
      /\ places' = places \cup {k.org}
      /\ maker' = [maker EXCEPT ![k.org] = IF k.org \in places THEN @
                                            ELSE [op |-> k.op, user |-> k.user]]
      /\ call' = [call EXCEPT ![c].created = TRUE,
                              ![c].stmt = IF k.op = "create" \/ k.org = Workspace
                                          THEN "found" ELSE "owner"]
      /\ UNCHANGED <<member, suspended, trail, begun, owed, cut, answer>>

(* INSERT ... ON CONFLICT, which says whether it made the row.  Who made it
   decides what comes next: only a new organisation is given an owner, and
   by a put only the default workspace.                                    *)
UpsertOrg(c) ==
  LET k       == call[c]
      created == k.org \notin places
  IN  /\ At(c, "org")
      /\ places' = places \cup {k.org}
      /\ maker' = [maker EXCEPT ![k.org] = IF created THEN [op |-> k.op, user |-> k.user]
                                            ELSE @]
      /\ call' = [call EXCEPT ![c].created = created,
                              ![c].stmt =
                                CASE created /\ (k.op = "create" \/ k.org = Workspace) -> "found"
                                  [] ~created /\ k.op = "create" -> "check"
                                  [] OTHER -> "owner"]
      /\ UNCHANGED <<member, suspended, trail, begun, owed, cut, answer>>

(* Mutant: everybody is enrolled as a member. *)
Enrol_Member(o, u, r) ==
  member' = [member EXCEPT ![o][u] = IF @ = None THEN "member" ELSE @]

(* ON CONFLICT DO NOTHING: an existing membership keeps its role. *)
Enrol(o, u, r) ==
  member' = [member EXCEPT ![o][u] = IF @ = None THEN r ELSE @]

Founder(k) == IF k.op = "put" THEN System ELSE k.user

InsertOwner(c) ==
  LET k == call[c]
  IN  /\ At(c, "found")
      /\ Enrol(k.org, Founder(k), "owner")
      /\ Goes(c, IF member[k.org][Founder(k)] = None THEN "founded"
                 ELSE IF k.op = "put" THEN "owner" ELSE "idle")
      /\ answer' = IF k.op = "create" /\ member[k.org][Founder(k)] # None
                   THEN [ok |-> TRUE, org |-> k.org, user |-> k.user] ELSE answer
      /\ UNCHANGED <<places, suspended, trail, begun, maker, owed, cut>>

AuditOwner(c) ==
  LET k == call[c]
  IN  /\ At(c, "founded")
      /\ trail' = trail \cup {<<"member", k.org, Founder(k)>>}
      /\ Goes(c, IF k.op = "put" THEN "owner" ELSE "idle")
      /\ answer' = IF k.op = "put" THEN answer
                   ELSE [ok |-> TRUE, org |-> k.org, user |-> k.user]
      /\ UNCHANGED <<places, member, suspended, begun, maker, owed, cut>>

(* Mutant: a name that is taken is refused, as the engine's createOrg does. *)
CheckOwner_Taken(c) ==
  LET k == call[c]
  IN  /\ At(c, "check")
      /\ answer' = [ok |-> FALSE, org |-> k.org, user |-> k.user]
      /\ Goes(c, "idle")
      /\ UNCHANGED <<places, member, suspended, trail, begun, maker, owed, cut>>

(* An organisation that was there: only its owner gets it back. *)
CheckOwner(c) ==
  LET k == call[c]
  IN  /\ At(c, "check")
      /\ answer' = [ok |-> StandsAs(k.org, k.user) = "owner", org |-> k.org, user |-> k.user]
      /\ Goes(c, "idle")
      /\ UNCHANGED <<places, member, suspended, trail, begun, maker, owed, cut>>

(* The owner a put names is registered; a suspended one is refused.  Without
   an owner the facade itself uploads, as a member of a named organisation. *)
ResolveOwner(c) ==
  LET k == call[c]
  IN  /\ At(c, "owner")
      /\ Goes(c, CASE k.user = None -> IF k.org = Workspace THEN "idle" ELSE "join"
                   [] k.user # None /\ k.user \in suspended -> "idle"
                   [] k.user # None /\ k.user \notin suspended ->
                        IF k.org = Workspace \/ k.created THEN "join" ELSE "standing")
      /\ UNCHANGED <<places, member, suspended, trail, begun, maker, owed, cut, answer>>

(* mayJoin: somebody else's organisation has to have the owner already. *)
CheckStanding(c) ==
  LET k == call[c]
  IN  /\ At(c, "standing")
      /\ Goes(c, IF StandsAs(k.org, k.user) = None THEN "idle" ELSE "join")
      /\ UNCHANGED <<places, member, suspended, trail, begun, maker, owed, cut, answer>>

Joiner(k) == IF k.user = None THEN System ELSE k.user

Join(c) ==
  LET k == call[c]
  IN  /\ At(c, "join")
      /\ Enrol(k.org, Joiner(k), "member")
      /\ Goes(c, IF member[k.org][Joiner(k)] = None THEN "joined" ELSE "idle")
      /\ UNCHANGED <<places, suspended, trail, begun, maker, owed, cut, answer>>

(* Mutant: only the creation of an organisation is worth an event. *)
AuditJoin_Bootstrap(c) ==
  /\ At(c, "joined")
  /\ trail' = IF call[c].created
              THEN trail \cup {<<"member", call[c].org, Joiner(call[c])>>} ELSE trail
  /\ Goes(c, "idle")
  /\ UNCHANGED <<places, member, suspended, begun, maker, owed, cut, answer>>

AuditJoin(c) ==
  /\ At(c, "joined")
  /\ trail' = trail \cup {<<"member", call[c].org, Joiner(call[c])>>}
  /\ Goes(c, "idle")
  /\ UNCHANGED <<places, member, suspended, begun, maker, owed, cut, answer>>

(* createOrg of the engine: the organisation, its owner and the event are one
   transaction, and a name that is taken is an error.                      *)
CreateOrg(o, u) ==
  /\ o \notin places /\ CallsBegin
  /\ places' = places \cup {o}
  /\ member' = [member EXCEPT ![o][u] = "owner"]
  /\ trail' = trail \cup {<<"member", o, u>>}
  /\ maker' = [maker EXCEPT ![o] = [op |-> "engine", user |-> u]]
  /\ answer' = None
  /\ UNCHANGED <<suspended, call, owed, cut>>

(* Suspending or restoring: the row first, then the chains it concerns. *)
Switch(c, x, op) ==
  /\ At(c, "idle") /\ CallsBegin
  /\ x \in People \/ x \in places
  /\ suspended' = IF op = "suspend" THEN suspended \cup {x} ELSE suspended \ {x}
  /\ call' = [call EXCEPT ![c] = [op |-> op, org |-> None, user |-> x,
                                  stmt |-> IF x \in People THEN "concerned" ELSE "tell",
                                  created |-> FALSE,
                                  todo |-> IF x \in People THEN {} ELSE {x}]]
  /\ owed' = IF op = "suspend" /\ x \in People
             THEN owed \cup {<<o, x>> : o \in {p \in Places : member[p][x] # None}}
             ELSE owed
  /\ answer' = None
  /\ UNCHANGED <<places, member, trail, maker, cut>>

(* The organisations of a person; the system chain for one who has none. *)
ReadConcerned(c) ==
  LET theirs == {o \in Places : member[o][call[c].user] # None}
  IN  /\ At(c, "concerned")
      /\ call' = [call EXCEPT ![c].stmt = "tell",
                              ![c].todo = IF theirs = {} THEN {None} ELSE theirs]
      /\ UNCHANGED <<places, member, suspended, trail, begun, maker, owed, cut, answer>>

(* Mutant: the loop returns after its first event. *)
Tell_First(c, o) ==
  /\ At(c, "tell")
  /\ o \in call[c].todo
  /\ trail' = trail \cup {<<call[c].op, o, call[c].user>>}
  /\ call' = [call EXCEPT ![c] = Unused]
  /\ UNCHANGED <<places, member, suspended, begun, maker, owed, cut, answer>>

Tell(c, o) ==
  /\ At(c, "tell")
  /\ o \in call[c].todo
  /\ trail' = trail \cup {<<call[c].op, o, call[c].user>>}
  /\ call' = [call EXCEPT ![c] = IF @.todo = {o} THEN Unused ELSE [@ EXCEPT !.todo = call[c].todo \ {o}]]
  /\ UNCHANGED <<places, member, suspended, begun, maker, owed, cut, answer>>

CutShort(c) ==
  /\ ~At(c, "idle") /\ Cardinality(cut) < MaxCuts
  /\ cut' = cut \cup {<<call[c].stmt, call[c].org, call[c].user>>}
  /\ Goes(c, "idle")
  /\ answer' = None
  /\ UNCHANGED <<places, member, suspended, trail, begun, maker, owed>>

ProvisioningNext ==
  \/ \E c \in Callers :
       \/ \E o \in Places, u \in People \cup {None} : BeginPut(c, o, u)
       \/ \E o \in Places, u \in People : BeginCreate(c, o, u)
       \/ UpsertOrg(c) \/ InsertOwner(c) \/ AuditOwner(c) \/ CheckOwner(c)
       \/ ResolveOwner(c) \/ CheckStanding(c) \/ Join(c) \/ AuditJoin(c)
       \/ \E x \in Suspendable, op \in {"suspend", "restore"} : Switch(c, x, op)
       \/ ReadConcerned(c)
       \/ \E o \in Places \cup {None} : Tell(c, o)
       \/ CutShort(c)
  \/ \E o \in Named, u \in People : CreateOrg(o, u)

ProvisioningSpec == ProvisioningInit /\ [][ProvisioningNext]_provisionVars

-----------------------------------------------------------------------------
(* Properties. *)

(* Some call has come to the statement, or a crash came before it, for the
   organisation o and the user u.                                          *)
Pending(stmts, o, users) ==
  \/ \E c \in Callers : /\ call[c].stmt \in stmts
                        /\ call[c].org = o /\ call[c].user \in users
  \/ \E s \in stmts, u \in users : <<s, o, u>> \in cut

(* In a named organisation nobody but the facade itself ever stands without
   having asked for the organisation to be made: neither a put with somebody
   else's organisation nor an orgs.create lets a stranger in (simple.ts,
   "auto-provisioning creates IDENTITIES, never PERMISSIONS").             *)
NobodyWalksIn ==
  \A o \in Named, u \in People : member[o][u] # None => maker[o].user = u

(* An organisation that was made for an owner -- a named one by orgs.create or
   createOrg, the default workspace by a put -- has one, but for the statement
   between the two rows, where a crash leaves it without for good.         *)
OwnerlessOnlyByCrash ==
  \A o \in places :
    \/ \E u \in Everyone : member[o][u] = "owner"
    \/ maker[o].op = (IF o = Workspace THEN "create" ELSE "put")
    \/ Pending({"found"}, o, {maker[o].user})

(* Every membership is on the chain of its organisation, but for the one
   statement between the row and the event, where a crash leaves it off for
   good: the retry finds the row there and writes nothing.                 *)
StandingIsOnRecord ==
  \A o \in Places, u \in Everyone :
    member[o][u] # None =>
      \/ <<"member", o, u>> \in trail
      \/ Pending({"founded", "joined"}, o, IF u = System THEN People \cup {None} ELSE {u})

(* Every organisation that loses a member to a suspension has it on its chain,
   unless the call is under way or was cut short (filelayer.ts: "who lost
   access here, and when must be answerable").                             *)
SuspensionIsOnRecord ==
  \A debt \in owed :
    \/ <<"suspend", debt[1], debt[2]>> \in trail
    \/ Pending({"concerned", "tell"}, None, {debt[2]})

(* An orgs.create repeated by the owner who made a named organisation with it
   is not refused, once the first call is over and as long as nobody is suspended
   (simple.ts: "a client that retries a timed-out request is safe") -- unless
   a crash fell between the organisation and its owner, when the name is lost
   to the owner for good.  (The default workspace is left out: a put may have
   made the caller a member of it before the call makes it the owner.)     *)
RetryIsSafe ==
  answer # None /\ ~answer.ok /\ answer.org \in Named =>
    \/ maker[answer.org] # [op |-> "create", user |-> answer.user]
    \/ suspended # {}
    \/ \E c \in Callers : /\ ~At(c, "idle")
                          /\ call[c].org = answer.org /\ call[c].user = answer.user
    \/ Pending({"found"}, answer.org, {answer.user})
=============================================================================
