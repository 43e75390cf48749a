------------------------------ MODULE Sharing ------------------------------
(***************************************************************************)
(* Grants on one file: share, revoke, revokeFor, the reads that draw on a  *)
(* grant, and everything beside them that decides whether a grant works -- *)
(* memberships, suspensions, the deletion of the file, the passing of time.*)
(*                                                                         *)
(* A handler of filelayer.ts is one transaction in two steps.  It starts,  *)
(* which fixes its now(), reads what it needs and decides; its first audit *)
(* row then waits for the advisory lock of the organisation's chain, and   *)
(* everything after it, up to the commit, is alone in that organisation.   *)
(* The Begin actions are the first part, the others the second: what was   *)
(* read may be stale by the time the lock is held.                         *)
(***************************************************************************)
EXTENDS Standing

CONSTANTS Sessions,       \* requests that may be in flight together
          Shares,         \* the share inputs: [subject, caps, ttl, max, key]
          Unshared,       \* the subjects revokeFor is called with
          InitRole,       \* the memberships at the start
          RoleChanges,    \* the membership changes: <<org, actor, role or None>>
          Suspendable,    \* actors, organisations or Project
          Window,         \* DOUBLE_SUBMIT_WINDOW_SECONDS
          StepAround,     \* levels the derived key steps around a dead grant
          MaxGrants, MaxDeliveries, MaxClock   \* bounds for the model checker

(* What is stored as an idempotency key: the caller's, or a derived one, the
   digest of a share with its window and the grants it stepped around.     *)
Key == [name : {in.key : in \in Shares} \cup {None}, shape : Shares \cup {None},
        bucket : Int, trail : Seq(Nat)]

ASSUME SharingAssumption ==
  /\ None \notin Key \cup Shares
  /\ Window \in Nat \ {0}
  /\ StepAround \in Nat
  /\ None \notin Capability \cup OrgRole
  /\ HomeOrg \in Orgs /\ FileVisibility \in Visibility
  /\ InitRole \in [Orgs -> [Actors -> OrgRole \cup {None}]]
  /\ \A c \in RoleChanges : c \in Orgs \X Actors \X (OrgRole \cup {None})
  /\ \A subject \in Unshared : subject.type # "link"
  /\ \A in \in Shares : /\ in.caps \subseteq Capability
                        /\ in.ttl \in Nat \cup {None}
                        /\ in.max \in (Nat \ {0}) \cup {None}

VARIABLES rows,        \* the table file_grant
          dead,        \* what is soft-deleted
          role,        \* the table membership
          clock,
          session,     \* requests in flight
          deliveries,  \* history: the grant each delivery drew on, in order
          reply        \* history: how the last share or revokeFor was answered

vars == <<rows, dead, role, clock, session, deliveries, reply>>

Idle == [op |-> "idle"]

World(now) == [rows |-> rows, dead |-> dead, role |-> role, now |-> now]

Actor(a)  == [actor |-> a, link |-> None]
Holder(g) == [actor |-> None, link |-> g]
Principals ==
  {Actor(a) : a \in Actors \cup {None}} \cup
  {Holder(g) : g \in {h \in DOMAIN rows : rows[h].subject.type = "link"}}

Init ==
  /\ rows = <<>>
  /\ dead = {}
  /\ role = InitRole
  /\ clock = 0
  /\ session = [s \in Sessions |-> Idle]
  /\ deliveries = <<>>
  /\ reply = None

Open(s, request) ==
  /\ session' = [session EXCEPT ![s] = request]
  /\ reply' = None
  /\ UNCHANGED <<rows, dead, role, clock, deliveries>>

Close(s) == session' = [session EXCEPT ![s] = Idle]

-----------------------------------------------------------------------------
(* Reading.  A read that a role allows charges no grant and touches nothing
   modelled here; one that goes through a grant reserves a delivery of it. *)

BeginRead(s, p) ==
  /\ Len(deliveries) < MaxDeliveries
  /\ \E via \in Authorize(World(clock), p, "read") \ {None} :
        Open(s, [op |-> "read", start |-> clock, via |-> via])

(* Mutant: the grant is not looked at again. *)
Reserve_Stale(s) ==
  /\ session[s].op = "read"
  /\ rows' = Consume(rows, session[s].via)
  /\ deliveries' = Append(deliveries, session[s].via)
  /\ Close(s)
  /\ reply' = None
  /\ UNCHANGED <<dead, role, clock>>

Reserve(s) ==
  /\ session[s].op = "read"
  /\ GrantLive(rows, session[s].via, dead, session[s].start)
  /\ rows' = Consume(rows, session[s].via)
  /\ deliveries' = Append(deliveries, session[s].via)
  /\ Close(s)
  /\ reply' = None
  /\ UNCHANGED <<dead, role, clock>>

(* consume_download found the chain dead or spent: 404, nothing charged. *)
RefuseRead(s) ==
  /\ session[s].op = "read"
  /\ ~GrantLive(rows, session[s].via, dead, session[s].start)
  /\ Close(s)
  /\ reply' = None
  /\ UNCHANGED <<rows, dead, role, clock, deliveries>>

-----------------------------------------------------------------------------
(* Sharing. *)

BeginShare(s, a, in) ==
  /\ Len(rows) + Cardinality({t \in Sessions : session[t].op = "share"}) < MaxGrants
  /\ in.subject.type = "link" => in.caps = {"read"}
  /\ \E via \in AuthorizeShare(World(clock), Actor(a), in.subject, in.caps) :
        Open(s, [op |-> "share", start |-> clock, via |-> via, by |-> a, in |-> in])

(* Mutant: a grant that is spent counts as dead. *)
KeyLive_Unspent(row, now) ==
  /\ ~row.revoked /\ (row.expires # None => row.expires > now)
  /\ (row.max # None => row.count < row.max)

KeyLive(row, now) == ~row.revoked /\ (row.expires # None => row.expires > now)

Keyed(key) == {g \in DOMAIN rows : key # None /\ rows[g].key = key}

AutoKey(in, bucket, trail) == [name |-> None, shape |-> in, bucket |-> bucket, trail |-> trail]
NamedKey(in) == [name |-> in.key, shape |-> None, bucket |-> 0, trail |-> <<>>]

(* Mutants: no stepping around; stepping around whatever holds the key. *)
Trail_None(in, bucket, now) == <<>>

Trail_Always(in, bucket, now) ==
  LET trail[n \in 0..StepAround] ==
        IF n = 0 THEN <<>>
        ELSE LET held == Keyed(AutoKey(in, bucket, trail[n-1]))
             IN  IF held = {} THEN trail[n-1]
                 ELSE Append(trail[n-1], CHOOSE g \in held : TRUE)
  IN  trail[StepAround]

(* The ids appended to the derived key after n rounds of stepping around a
   dead grant; a free key, or one that names a live grant, ends it.        *)
Trail(in, bucket, now) ==
  LET trail[n \in 0..StepAround] ==
        IF n = 0 THEN <<>>
        ELSE LET dying == {g \in Keyed(AutoKey(in, bucket, trail[n-1])) :
                             ~KeyLive(rows[g], now)}
             IN  IF dying = {} THEN trail[n-1]
                 ELSE Append(trail[n-1], CHOOSE g \in dying : TRUE)
  IN  trail[StepAround]

StoredKey(in, now) ==
  CASE in.key # None                               -> NamedKey(in)
    [] in.key = None /\ in.subject.type # "link"   ->
         AutoKey(in, clock \div Window, Trail(in, clock \div Window, now))
    [] OTHER                                       -> None

(* Mutant: the bucket before is not looked at. *)
PreviousGrant_None(in, now) == {}

(* The live grant of the same share in the previous bucket, if any. *)
PreviousGrant(in, now) ==
  IF in.key # None \/ in.subject.type = "link" THEN {}
  ELSE {g \in Keyed(AutoKey(in, (clock \div Window) - 1, <<>>)) : KeyLive(rows[g], now)}

SubjectKnown(in) == {in.subject.org, Project} \cap dead = {} \/ in.subject.org = None

(* Mutant: the row is not put below the grant that allowed it. *)
Offered_Root(s) ==
  LET in == session[s].in
  IN  [parent |-> None, subject |-> in.subject, caps |-> in.caps,
       expires |-> IF in.ttl = None THEN None ELSE clock + in.ttl,
       max |-> in.max, count |-> 0, revoked |-> FALSE, creator |-> session[s].by,
       key |-> StoredKey(in, session[s].start)]

(* The row the INSERT offers, before the trigger. *)
Offered(s) ==
  LET in == session[s].in
  IN  [parent |-> session[s].via, subject |-> in.subject, caps |-> in.caps,
       expires |-> IF in.ttl = None THEN None ELSE clock + in.ttl,
       max |-> in.max, count |-> 0, revoked |-> FALSE, creator |-> session[s].by,
       key |-> StoredKey(in, session[s].start)]

Refused(s) ==
  \/ AttenuationRefused(rows, Offered(s), dead, session[s].start)
  \/ CheckRefused(Offered(s))

Settling(s, op) == session[s].op = op /\ Close(s)

AnswerPrevious(s) ==
  /\ Settling(s, "share")
  /\ SubjectKnown(session[s].in)
  /\ \E g \in PreviousGrant(session[s].in, session[s].start) :
        reply' = [op |-> "share", grant |-> g, in |-> session[s].in]
  /\ UNCHANGED <<rows, dead, role, clock, deliveries>>

RefuseShare(s) ==
  /\ Settling(s, "share")
  /\ \/ ~SubjectKnown(session[s].in)
     \/ PreviousGrant(session[s].in, session[s].start) = {} /\ Refused(s)
  /\ reply' = None
  /\ UNCHANGED <<rows, dead, role, clock, deliveries>>

Admitted(s) ==
  /\ SubjectKnown(session[s].in)
  /\ PreviousGrant(session[s].in, session[s].start) = {}
  /\ ~Refused(s)

(* Mutant: the grant that holds the key is the answer, whatever was asked. *)
ReplayShare_Unchecked(s) ==
  /\ Settling(s, "share")
  /\ Admitted(s)
  /\ \E g \in Keyed(Offered(s).key) :
        reply' = [op |-> "share", grant |-> g, in |-> session[s].in]
  /\ UNCHANGED <<rows, dead, role, clock, deliveries>>

(* The unique index on (file, key) turned the INSERT away: answer with the
   grant that holds the key, unless it is another share altogether.        *)
ReplayShare(s) ==
  /\ Settling(s, "share")
  /\ Admitted(s)
  /\ \E g \in Keyed(Offered(s).key) :
        reply' = IF /\ rows[g].subject = session[s].in.subject
                    /\ rows[g].caps = session[s].in.caps
                 THEN [op |-> "share", grant |-> g, in |-> session[s].in]
                 ELSE None
  /\ UNCHANGED <<rows, dead, role, clock, deliveries>>

InsertShare(s) ==
  /\ Settling(s, "share")
  /\ Admitted(s)
  /\ Keyed(Offered(s).key) = {}
  /\ rows' = Append(rows, Attenuate(rows, Offered(s)))
  /\ reply' = [op |-> "share", grant |-> Len(rows) + 1, in |-> session[s].in]
  /\ UNCHANGED <<dead, role, clock, deliveries>>

-----------------------------------------------------------------------------
(* Revoking. *)

BeginRevoke(s, a, g) ==
  /\ AuthorizeRevoke(World(clock), Actor(a), g) # {}
  /\ Open(s, [op |-> "revoke", by |-> a, target |-> g])

SettleRevoke(s) ==
  /\ Settling(s, "revoke")
  /\ rows' = Revoke(rows, {session[s].target})
  /\ reply' = None
  /\ UNCHANGED <<dead, role, clock, deliveries>>

(* revokeFor lists the live grants of a subject in one transaction and
   revokes them, oldest first, in another.                                 *)
BeginUnshare(s, a, subject) ==
  LET w == World(clock)
      matches == {g \in LiveGrants(w) : rows[g].subject = subject}
  IN  /\ Authorize(w, Actor(a), "share") # {}
      /\ matches # {}
      /\ Open(s, [op |-> "unshare", by |-> a, matches |-> matches])

(* Mutant: only the earliest match is revoked. *)
SettleUnshare_First(s) ==
  LET matches == session[s].matches
      done    == {g \in matches : \A h \in matches : g <= h}
  IN  /\ Settling(s, "unshare")
      /\ rows' = Revoke(rows, done)
      /\ reply' = [op |-> "unshare", matches |-> matches, done |-> done]
      /\ UNCHANGED <<dead, role, clock, deliveries>>

(* Each revocation is authorised in the state its predecessors left; the
   first one refused stops the loop, and the transaction still commits.    *)
SettleUnshare(s) ==
  LET matches  == session[s].matches
      After(S) == [World(clock) EXCEPT !.rows = Revoke(rows, S)]
      done     == {g \in matches : \A h \in matches : h <= g =>
                     AuthorizeRevoke(After({k \in matches : k < h}),
                                     Actor(session[s].by), h) # {}}
  IN  /\ Settling(s, "unshare")
      /\ rows' = Revoke(rows, done)
      /\ reply' = [op |-> "unshare", matches |-> matches, done |-> done]
      /\ UNCHANGED <<dead, role, clock, deliveries>>

-----------------------------------------------------------------------------
(* What happens around them.  Suspensions take no lock. *)

DeleteFile(a) ==
  /\ Authorize(World(clock), Actor(a), "delete") # {}
  /\ dead' = dead \cup {File}
  /\ reply' = None
  /\ UNCHANGED <<rows, role, clock, session, deliveries>>

Suspend(x) ==
  /\ dead' = dead \cup {x}
  /\ reply' = None
  /\ UNCHANGED <<rows, role, clock, session, deliveries>>

Restore(x) ==
  /\ dead' = dead \ {x}
  /\ reply' = None
  /\ UNCHANGED <<rows, role, clock, session, deliveries>>

ChangeRole(o, a, r) ==
  /\ role' = [role EXCEPT ![o][a] = r]
  /\ reply' = None
  /\ UNCHANGED <<rows, dead, clock, session, deliveries>>

Tick ==
  /\ clock < MaxClock
  /\ clock' = clock + 1
  /\ reply' = None
  /\ UNCHANGED <<rows, dead, role, session, deliveries>>

Settle(s) ==
  \/ Reserve(s) \/ RefuseRead(s)
  \/ AnswerPrevious(s) \/ RefuseShare(s) \/ ReplayShare(s) \/ InsertShare(s)
  \/ SettleRevoke(s) \/ SettleUnshare(s)

Begin(s) ==
  /\ session[s] = Idle
  /\ \/ \E p \in Principals : BeginRead(s, p)
     \/ \E a \in Actors, in \in Shares : BeginShare(s, a, in)
     \/ \E a \in Actors, g \in DOMAIN rows : BeginRevoke(s, a, g)
     \/ \E a \in Actors, subject \in Unshared : BeginUnshare(s, a, subject)

Next ==
  \/ \E s \in Sessions : Begin(s) \/ Settle(s)
  \/ \E a \in Actors : DeleteFile(a)
  \/ \E x \in Suspendable : Suspend(x) \/ Restore(x)
  \/ \E c \in RoleChanges : ChangeRole(c[1], c[2], c[3])
  \/ Tick

Spec == Init /\ [][Next]_vars

-----------------------------------------------------------------------------
(* Properties. *)

Row(keys) == [parent : Nat \cup {None}, subject : {in.subject : in \in Shares},
              caps : SUBSET Capability, expires : Nat \cup {None},
              max : (Nat \ {0}) \cup {None}, count : Nat, revoked : BOOLEAN,
              creator : Actors, key : keys]

Request ==
  {Idle} \cup
  [op : {"read"}, start : 0..clock, via : DOMAIN rows] \cup
  [op : {"share"}, start : 0..clock, via : DOMAIN rows \cup {None},
   by : Actors, in : Shares] \cup
  [op : {"revoke"}, by : Actors, target : DOMAIN rows] \cup
  [op : {"unshare"}, by : Actors, matches : SUBSET DOMAIN rows]

(* The tables have the shape the schema gives them: a parent is an earlier
   grant of the same table, a derived key belongs to a share that has no key
   of its own, and every request in flight names grants that exist.        *)
TypeOK ==
  /\ rows \in Seq(Row({rows[g].key : g \in DOMAIN rows}))
  /\ \A g \in DOMAIN rows :
       /\ rows[g].parent # None => rows[g].parent \in 1..(g-1)
       /\ rows[g].key # None /\ rows[g].key.name = None => rows[g].key.shape \in Shares
  /\ dead \subseteq Suspendable \cup {File}
  /\ role \in [Orgs -> [Actors -> OrgRole \cup {None}]]
  /\ clock \in Nat
  /\ deliveries \in Seq(DOMAIN rows)
  /\ session \in [Sessions -> Request]

(* A delegated grant never exceeds any grant it descends from, however many
   delegations away: not in capability, not in lifetime, not in downloads;
   and it reaches one actor or one link only (schema.sql, I6).             *)
Attenuated ==
  \A g \in DOMAIN rows : \A h \in Ancestry(rows, g) :
    /\ rows[g].caps \subseteq rows[h].caps
    /\ Within(rows[g].expires, rows[h].expires)
    /\ Within(rows[g].max, rows[h].max)
    /\ g # h => rows[g].subject.type \in {"actor", "link"}

(* The deliveries a grant has paid for: its own and those of every grant
   delegated from it.                                                      *)
Drawn(g) == {i \in DOMAIN deliveries : g \in Ancestry(rows, deliveries[i])}

(* A cap of n means the bytes leave at most n times through the grant and
   everything delegated from it together, however the readers interleave. *)
BudgetIsShared ==
  \A g \in DOMAIN rows : rows[g].max # None => Cardinality(Drawn(g)) <= rows[g].max

(* No delegation chain is longer than the schema allows, even when two
   delegations were decided at the same time.                              *)
ChainsAreBounded ==
  \A g \in DOMAIN rows : Cardinality(Ancestry(rows, g)) <= MaxDepth

(* Grants of the same share, submitted in the same window. *)
SameBucket(g, h) ==
  /\ rows[g].key # None /\ rows[h].key # None
  /\ rows[g].key.shape # None
  /\ rows[g].key.shape = rows[h].key.shape
  /\ rows[g].key.bucket = rows[h].key.bucket

(* Two submissions of the same share inside one window leave at most one
   grant that is neither revoked nor expired, however often it was revoked
   and shared again in between.                                            *)
OneLivePerBucket ==
  \A g, h \in DOMAIN rows :
    SameBucket(g, h) /\ KeyLive(rows[g], clock) /\ KeyLive(rows[h], clock) => g = h

(* Two live grants of one share from either side of a bucket edge: only when
   the earlier one had stepped around a dead grant, for the bucket before is
   looked up under the plain key (filelayer.ts, share).                    *)
TwiceOnlyAroundADeadGrant ==
  \A g, h \in DOMAIN rows :
    /\ rows[g].key # None /\ rows[h].key # None
    /\ rows[g].key.shape # None /\ rows[g].key.shape = rows[h].key.shape
    /\ rows[h].key.bucket = rows[g].key.bucket + 1
    /\ KeyLive(rows[g], clock) /\ KeyLive(rows[h], clock)
    => rows[g].key.trail # <<>>

(* One share, however often and whenever it is submitted, leaves one live
   grant -- two around a bucket edge, when there was a dead grant to step
   around (filelayer.ts, share).                                           *)
OneGrantPerShare == OneLivePerBucket /\ TwiceOnlyAroundADeadGrant

(* Submitting a capped share again, after it was spent, does not refill it:
   what leaves through the grants of one share in one bucket that are neither
   revoked nor expired is within the cap that was asked for.  This is why a
   repeated share may be answered with a grant that has nothing left.      *)
RetriesShareOneCap ==
  \A g \in DOMAIN rows :
    LET twins == {h \in DOMAIN rows :
                    /\ SameBucket(g, h) /\ ~rows[h].revoked
                    /\ rows[h].expires = None \/ rows[h].expires > clock}
    IN  SameBucket(g, g) /\ rows[g].key.shape.max # None
        => Cardinality(UNION {Drawn(h) : h \in twins}) <= rows[g].key.shape.max

(* Once a grant is revoked, no delivery is ever drawn on it or on anything
   delegated from it: not by a reader that was authorised before the
   revocation, and not after a later restore of a suspended actor.         *)
RevocationIsFinal ==
  [][\A g \in DOMAIN rows : rows[g].revoked =>
        rows'[g].revoked /\ Drawn(g)' = Drawn(g)]_vars

(* The whole machinery -- locks, stale decisions, counters, derived keys,
   suspensions -- implements the ledger of GrantLedger.                    *)
Ledger == INSTANCE GrantLedger WITH
  tree <- [g \in DOMAIN rows |-> [parent  |-> rows[g].parent,
                                  max     |-> rows[g].max,
                                  revoked |-> rows[g].revoked]],
  drawn <- deliveries

ImplementsLedger == Ledger!Spec

(* An actor who never has a role in the file's organisation. *)
Outsider(a) ==
  /\ InitRole[HomeOrg][a] = None
  /\ \A c \in RoleChanges : c[1] = HomeOrg /\ c[2] = a => c[3] = None

(* A grant that may confer something on the actor a. *)
Names(row, a) == row.subject.actor = a \/ row.subject.type \in {"org", "role"}

(* What an outsider hands on always hangs below a grant it was handed, so it
   ends with that grant: no outsider ever comes to issue a root grant.     *)
OutsidersIssueBelow ==
  \A g \in DOMAIN rows : Outsider(rows[g].creator) =>
    \E h \in Ancestry(rows, g) \ {g} :
      Names(rows[h], rows[g].creator) /\ "share" \in rows[h].caps

(* An outsider revokes only below a grant it was handed, never a grant
   somebody else issued beside it (authz.ts, foreign_grant).               *)
OutsidersRevokeBelow ==
  [][\A s \in Sessions : session[s].op = "revoke" /\ Outsider(session[s].by) =>
       \A g \in DOMAIN rows :
         /\ session'[s] = Idle /\ rows'[g].revoked /\ ~rows[g].revoked
         => \E h \in Ancestry(rows, g) : Names(rows[h], session[s].by)]_vars

(* An outsider acts below what it was handed and nowhere else, whatever becomes
   of its grants and groups between two calls (authz.ts, authorizeShare and
   authorizeRevoke).                                                       *)
OutsidersStayBelow == []OutsidersIssueBelow /\ OutsidersRevokeBelow

(* A share is answered with a grant to the subject and of the capabilities
   that were asked for, even when the key was used for another share before
   (filelayer.ts: "a confused deputy built out of a convenience feature").  *)
AnswersTheRequest ==
  reply # None /\ reply.op = "share" =>
    /\ rows[reply.grant].subject = reply.in.subject
    /\ rows[reply.grant].caps = reply.in.caps

(* The last answer was to a share whose key the library derived. *)
DerivedAnswer ==
  /\ reply # None /\ reply.op = "share"
  /\ reply.in.key = None /\ reply.in.subject.type # "link"

(* A share without an idempotency key is not answered with a grant that has
   been revoked (filelayer.ts, THE KEY MUST STEP AROUND A DEAD GRANT), until
   it has been granted and taken back once for every level of the walk and
   once more: then the key names the last of those grants and the INSERT
   fails on it, where the comment says that past the bound the share simply
   inserts.                                                                *)
NeverAnswersRevoked ==
  DerivedAnswer /\ rows[reply.grant].revoked =>
    Len(rows[reply.grant].key.trail) = StepAround

(* A repeated share is answered with what it asked for, and not with what
   somebody has taken back in the meantime, as far as the walk around dead
   grants reaches (filelayer.ts, #replayShare).                            *)
AnswersAreTrue == AnswersTheRequest /\ NeverAnswersRevoked
=============================================================================
