----------------------------- MODULE Listing_proofs -----------------------------
(***************************************************************************)
(* Proofs about who may do what: an outsider acts below what it was handed *)
(* and nowhere else, an unshare by somebody whose standing is a role is    *)
(* done in full or not at all, and the list query selects exactly the file *)
(* the decision allows.                                                    *)
(***************************************************************************)
EXTENDS Listing, Sharing_proofs

(* Everybody and the holders of a link get to read and nothing else. *)
Plain ==
  \A g \in DOMAIN rows :
    rows[g].subject.type \in {"anonymous", "link"} => rows[g].caps = {"read"}

LEMMA PlainStep == TypeOK /\ Plain /\ [Next]_vars => Plain'
<1> SUFFICES ASSUME TypeOK, Plain, [Next]_vars, NEW g \in DOMAIN rows',
                    rows'[g].subject.type \in {"anonymous", "link"}
             PROVE  rows'[g].caps = {"read"}
  BY DEF Plain
<1>1. CASE g \in DOMAIN rows
  BY <1>1, RowsLast DEF Plain
<1>2. CASE g \notin DOMAIN rows
  <2>1. PICK s \in Sessions : InsertShare(s) /\ g = Len(rows) + 1
    BY <1>2, NewRows
  <2>2. /\ rows'[g].subject = session[s].in.subject /\ rows'[g].caps = session[s].in.caps
    BY <2>1, InsertedKey
  <2>3. ~CheckRefused(Offered(s))
    BY <2>1 DEF InsertShare, Admitted, Refused
  <2> QED BY <2>2, <2>3 DEF CheckRefused, Offered
<1> QED BY <1>1, <1>2

LEMMA PlainHolds == Spec => []Plain
<1>1. Init => Plain
  BY DEF Init, Plain
<1>2. TypeOK /\ Plain /\ [Next]_vars => Plain'
  BY PlainStep
<1> QED BY <1>1, <1>2, TypeCorrect, PTL DEF Spec

-----------------------------------------------------------------------------
(* No outsider ever gets a role in the file's organisation. *)
OutsidersHaveNoRole == \A a \in Actors : Outsider(a) => role[HomeOrg][a] = None

LEMMA NoRoleStep == TypeOK /\ OutsidersHaveNoRole /\ [Next]_vars => OutsidersHaveNoRole'
<1> SUFFICES ASSUME TypeOK, OutsidersHaveNoRole, [Next]_vars, NEW a \in Actors, Outsider(a)
             PROVE  role'[HomeOrg][a] = None
  BY DEF OutsidersHaveNoRole, Outsider
<1>0. /\ role \in [Orgs -> [Actors -> OrgRole \cup {None}]] /\ role[HomeOrg][a] = None
      /\ HomeOrg \in Orgs
  BY SharingAssumption DEF TypeOK, OutsidersHaveNoRole
<1>1. ASSUME NEW c \in RoleChanges, ChangeRole(c[1], c[2], c[3])
      PROVE  role'[HomeOrg][a] = None
  <2>1. role' = [role EXCEPT ![c[1]][c[2]] = c[3]]
    BY <1>1 DEF ChangeRole
  <2>2. c[1] \in Orgs /\ c[2] \in Actors
    BY SharingAssumption
  <2>3. c[1] = HomeOrg /\ c[2] = a => c[3] = None
    BY DEF Outsider
  <2> QED BY <1>0, <2>1, <2>2, <2>3
<1>2. ASSUME NEW s \in Sessions, Begin(s) PROVE role' = role
  BY <1>2 DEF Begin, BeginRead, BeginShare, BeginRevoke, BeginUnshare, Open
<1>3. ASSUME NEW s \in Sessions, Settle(s) PROVE role' = role
  BY <1>3 DEF Settle, Reserve, RefuseRead, AnswerPrevious, RefuseShare, ReplayShare,
              InsertShare, SettleRevoke, SettleUnshare
<1>4. ASSUME NEW x \in Actors, DeleteFile(x) PROVE role' = role
  BY <1>4 DEF DeleteFile
<1>5. ASSUME NEW x \in Suspendable, Suspend(x) \/ Restore(x) PROVE role' = role
  BY <1>5 DEF Suspend, Restore
<1>6. Tick \/ UNCHANGED vars => role' = role
  BY DEF Tick, vars
<1> QED BY <1>0, <1>1, <1>2, <1>3, <1>4, <1>5, <1>6 DEF Next

(* Whom a decision serves without a role: somebody named by the grant. *)
LEMMA OutsidersAreNamed ==
  ASSUME TypeOK, Plain, OutsidersHaveNoRole, NEW a \in Actors, Outsider(a),
         NEW via \in Authorize(World(clock), Actor(a), "share")
  PROVE  /\ via \in DOMAIN rows
         /\ Names(rows[via], a) /\ "share" \in rows[via].caps
<1> DEFINE w == World(clock)
           p == Actor(a)
<1>1. w.rows = rows /\ w.role = role /\ p.actor = a /\ p.link = None
  BY DEF World, Actor
<1> HIDE DEF w, p
<1>2. via \in Paths(w, p, "share")
  BY DEF Authorize, w, p
<1>3. RoleCaps(w, p) = {}
  <2>1. MemberRole(w, HomeOrg, a) = None
    BY <1>1 DEF MemberRole, OutsidersHaveNoRole
  <2>2. FileCapabilities(None, a = FileOwner, FileVisibility) = {}
    BY SharingAssumption DEF FileCapabilities, OrgRole
  <2> QED BY <1>1, <2>1, <2>2 DEF RoleCaps
<1>4. PICK i \in 1..4 : via \in Rungs(w, p)[i] /\ "share" \in rows[via].caps
  BY <1>1, <1>2, <1>3 DEF Paths
<1>5. via \in DOMAIN rows
  BY <1>1, <1>4 DEF Rungs, LiveGrants
<1>6. CASE i = 1
  BY <1>1, <1>4, <1>5, <1>6 DEF Rungs, Names
<1>7. CASE i = 2
  BY <1>1, <1>4, <1>5, <1>7 DEF Rungs, Names, InGroup
<1>8. CASE i = 3
  <2>1. via = None
    BY <1>1, <1>4, <1>8 DEF Rungs
  <2>2. via \in Int
    BY <1>5, Table
  <2> QED BY <2>1, <2>2, NoneIsNoNumber
<1>9. CASE i = 4
  <2>1. rows[via].subject.type = "anonymous"
    BY <1>1, <1>4, <1>9 DEF Rungs
  <2> QED BY <1>4, <1>5, <2>1 DEF Plain
<1> QED BY <1>4, <1>5, <1>6, <1>7, <1>8, <1>9

(* What an outsider's request has been allowed hangs below a grant that names
   the outsider: the grant a share is to hang from, or one above the grant a
   revocation is to revoke.                                                *)
HandedTo(table, a, g) == g \in DOMAIN table /\ Names(table[g], a)

RequestsHangBelow ==
  \A s \in Sessions :
    /\ session[s].op = "share" /\ Outsider(session[s].by) =>
         /\ session[s].via # None
         /\ HandedTo(rows, session[s].by, session[s].via)
         /\ "share" \in rows[session[s].via].caps
    /\ session[s].op = "revoke" /\ Outsider(session[s].by) =>
         \E h \in Ancestry(rows, session[s].target) : HandedTo(rows, session[s].by, h)

(* Rows keep what a request was allowed on. *)
LEMMA HandedStays ==
  ASSUME TypeOK, [Next]_vars, NEW a, NEW g, HandedTo(rows, a, g)
  PROVE  HandedTo(rows', a, g) /\ rows'[g].caps = rows[g].caps
BY RowsLast DEF HandedTo, Names

(* A request is opened or closed by its own session only. *)
LEMMA SessionSteps ==
  ASSUME [Next]_vars, TypeOK, NEW s \in Sessions, session'[s] # session[s]
  PROVE  Begin(s) \/ Settle(s)
<1>0. session \in [Sessions -> Request]
  BY DEF TypeOK
<1>1. ASSUME NEW t \in Sessions, t # s, Begin(t) PROVE session'[s] = session[s]
  <2> HIDE DEF Request
  <2> QED BY <1>0, <1>1 DEF Begin, BeginRead, BeginShare, BeginRevoke, BeginUnshare, Open
<1>2. ASSUME NEW t \in Sessions, t # s, Settle(t) PROVE session'[s] = session[s]
  <2>1. Close(t)
    BY <1>2 DEF Settle, Reserve, RefuseRead, AnswerPrevious, RefuseShare, ReplayShare,
                InsertShare, SettleRevoke, SettleUnshare, Settling
  <2> QED BY <1>0, <1>2, <2>1 DEF Close
<1>3. ASSUME NEW a \in Actors, DeleteFile(a) PROVE session' = session
  BY <1>3 DEF DeleteFile
<1>4. ASSUME NEW x \in Suspendable, Suspend(x) \/ Restore(x) PROVE session' = session
  BY <1>4 DEF Suspend, Restore
<1>5. ASSUME NEW c \in RoleChanges, ChangeRole(c[1], c[2], c[3]) PROVE session' = session
  BY <1>5 DEF ChangeRole
<1>6. Tick \/ UNCHANGED vars => session' = session
  BY DEF Tick, vars
<1> QED BY <1>1, <1>2, <1>3, <1>4, <1>5, <1>6 DEF Next

LEMMA SettledIsIdle ==
  ASSUME TypeOK, NEW s \in Sessions, Settle(s)
  PROVE  session'[s] = Idle
<1>0. session \in [Sessions -> Request]
  BY DEF TypeOK
<1>1. Close(s)
  BY DEF Settle, Reserve, RefuseRead, AnswerPrevious, RefuseShare, ReplayShare,
         InsertShare, SettleRevoke, SettleUnshare, Settling
<1> QED BY <1>0, <1>1 DEF Close

LEMMA RequestsHangBelowStep ==
  TypeOK /\ Plain /\ OutsidersHaveNoRole /\ RequestsHangBelow /\ [Next]_vars
    => RequestsHangBelow'
<1> SUFFICES ASSUME TypeOK, Plain, OutsidersHaveNoRole, RequestsHangBelow, [Next]_vars,
                    NEW s \in Sessions
             PROVE  /\ session'[s].op = "share" /\ Outsider(session'[s].by) =>
                         /\ session'[s].via # None
                         /\ HandedTo(rows', session'[s].by, session'[s].via)
                         /\ "share" \in rows'[session'[s].via].caps
                    /\ session'[s].op = "revoke" /\ Outsider(session'[s].by) =>
                         \E h \in Ancestry(rows', session'[s].target) :
                           HandedTo(rows', session'[s].by, h)
  BY DEF RequestsHangBelow, HandedTo, Outsider
<1>0. session \in [Sessions -> Request]
  BY DEF TypeOK
<1>1. CASE session'[s] = session[s]
  <2> DEFINE q == session[s]
  <2>1. /\ q.op = "share" /\ Outsider(q.by) =>
             /\ q.via # None
             /\ HandedTo(rows, q.by, q.via)
             /\ "share" \in rows[q.via].caps
        /\ q.op = "revoke" /\ Outsider(q.by) =>
             \E h \in Ancestry(rows, q.target) : HandedTo(rows, q.by, h)
    BY DEF RequestsHangBelow
  <2>2. q.op = "revoke" => q.target \in DOMAIN rows
    BY <1>0 DEF Request, Idle
  <2>3. q.op = "revoke" => Ancestry(rows', q.target) = Ancestry(rows, q.target)
    BY <2>2, ChainsLast
  <2> HIDE DEF q
  <2>4. q.op = "share" /\ Outsider(q.by) =>
             /\ q.via # None
             /\ HandedTo(rows', q.by, q.via)
             /\ "share" \in rows'[q.via].caps
    BY <2>1, HandedStays
  <2>5. ASSUME q.op = "revoke", Outsider(q.by)
        PROVE  \E h \in Ancestry(rows', q.target) : HandedTo(rows', q.by, h)
    <3>1. PICK h \in Ancestry(rows, q.target) : HandedTo(rows, q.by, h)
      BY <2>1, <2>5
    <3>2. HandedTo(rows', q.by, h)
      BY <3>1, HandedStays
    <3> QED BY <2>3, <2>5, <3>1, <3>2
  <2> QED BY <1>1, <2>4, <2>5 DEF q
<1>2. ASSUME Settle(s) PROVE session'[s].op = "idle"
  BY <1>2, SettledIsIdle DEF Idle
<1>3. ASSUME Begin(s) PROVE UNCHANGED rows
  BY <1>3 DEF Begin, BeginRead, BeginShare, BeginRevoke, BeginUnshare, Open
<1>4. ASSUME NEW a \in Actors, NEW in \in Shares, BeginShare(s, a, in), Outsider(a)
      PROVE  /\ session'[s].op = "share" /\ session'[s].by = a
             /\ session'[s].via # None
             /\ HandedTo(rows, a, session'[s].via)
             /\ "share" \in rows[session'[s].via].caps
  <2>1. PICK via \in AuthorizeShare(World(clock), Actor(a), in.subject, in.caps) :
          Open(s, [op |-> "share", start |-> clock, via |-> via, by |-> a, in |-> in])
    BY <1>4 DEF BeginShare
  <2>2. session'[s] = [op |-> "share", start |-> clock, via |-> via, by |-> a, in |-> in]
    <3> HIDE DEF Request
    <3> QED BY <1>0, <2>1 DEF Open
  <2>3. via \in Authorize(World(clock), Actor(a), "share")
    BY <2>1 DEF AuthorizeShare
  <2>4. via \in DOMAIN rows /\ Names(rows[via], a) /\ "share" \in rows[via].caps
    BY <1>4, <2>3, OutsidersAreNamed
  <2>5. via # None
    BY <2>4, Table, NoneIsNoNumber
  <2> QED BY <2>2, <2>4, <2>5 DEF HandedTo
<1>5. ASSUME NEW a \in Actors, NEW g \in DOMAIN rows, BeginRevoke(s, a, g), Outsider(a)
      PROVE  /\ session'[s].op = "revoke" /\ session'[s].by = a /\ session'[s].target = g
             /\ \E h \in Ancestry(rows, g) : HandedTo(rows, a, h)
  <2>1. session'[s] = [op |-> "revoke", by |-> a, target |-> g]
    <3> HIDE DEF Request
    <3> QED BY <1>0, <1>5 DEF BeginRevoke, Open
  <2>2. PICK via \in Authorize(World(clock), Actor(a), "share") :
          via # None => via \in Ancestry(World(clock).rows, g)
    BY <1>5 DEF BeginRevoke, AuthorizeRevoke
  <2>3. via \in DOMAIN rows /\ Names(rows[via], a)
    BY <1>5, <2>2, OutsidersAreNamed
  <2>4. via # None
    BY <2>3, Table, NoneIsNoNumber
  <2> QED BY <2>1, <2>2, <2>3, <2>4 DEF HandedTo, World
<1>6. ASSUME Begin(s)
      PROVE  \/ session'[s].op \in {"read", "unshare"}
             \/ \E a \in Actors, in \in Shares :
                  BeginShare(s, a, in) /\ session'[s].op = "share" /\ session'[s].by = a
             \/ \E a \in Actors, g \in DOMAIN rows :
                  BeginRevoke(s, a, g) /\ session'[s].op = "revoke" /\ session'[s].by = a
  <2>1. \A r : Open(s, r) => session'[s] = r
    <3> HIDE DEF Request
    <3> QED BY <1>0 DEF Open
  <2>2. ASSUME NEW p \in Principals, BeginRead(s, p) PROVE session'[s].op = "read"
    <3>1. PICK via \in Authorize(World(clock), p, "read") \ {None} :
            Open(s, [op |-> "read", start |-> clock, via |-> via])
      BY <2>2 DEF BeginRead
    <3>2. session'[s] = [op |-> "read", start |-> clock, via |-> via]
      BY <2>1, <3>1
    <3> QED BY <3>2
  <2>3. ASSUME NEW a \in Actors, NEW in \in Shares, BeginShare(s, a, in)
        PROVE  session'[s].op = "share" /\ session'[s].by = a
    <3>1. PICK via \in AuthorizeShare(World(clock), Actor(a), in.subject, in.caps) :
            Open(s, [op |-> "share", start |-> clock, via |-> via, by |-> a, in |-> in])
      BY <2>3 DEF BeginShare
    <3>2. session'[s] = [op |-> "share", start |-> clock, via |-> via, by |-> a, in |-> in]
      BY <2>1, <3>1
    <3> QED BY <3>2
  <2>4. ASSUME NEW a \in Actors, NEW g \in DOMAIN rows, BeginRevoke(s, a, g)
        PROVE  session'[s].op = "revoke" /\ session'[s].by = a
    <3>1. session'[s] = [op |-> "revoke", by |-> a, target |-> g]
      BY <2>1, <2>4 DEF BeginRevoke
    <3> QED BY <3>1
  <2>5. ASSUME NEW a \in Actors, NEW subject \in Unshared, BeginUnshare(s, a, subject)
        PROVE  session'[s].op = "unshare"
    <3> DEFINE m == {g \in LiveGrants(World(clock)) : rows[g].subject = subject}
    <3>1. Open(s, [op |-> "unshare", by |-> a, matches |-> m])
      BY <2>5 DEF BeginUnshare
    <3> HIDE DEF m
    <3>2. session'[s] = [op |-> "unshare", by |-> a, matches |-> m]
      BY <2>1, <3>1
    <3> QED BY <3>2
  <2> QED BY <1>6, <2>2, <2>3, <2>4, <2>5 DEF Begin
<1>8. CASE Begin(s)
  <2>1. ASSUME session'[s].op = "share", Outsider(session'[s].by)
        PROVE  /\ session'[s].via # None
               /\ HandedTo(rows', session'[s].by, session'[s].via)
               /\ "share" \in rows'[session'[s].via].caps
    <3>1. PICK a \in Actors, in \in Shares : BeginShare(s, a, in) /\ session'[s].by = a
      BY <1>6, <1>8, <2>1
    <3> QED BY <1>3, <1>4, <1>8, <2>1, <3>1 DEF HandedTo, Names
  <2>2. ASSUME session'[s].op = "revoke", Outsider(session'[s].by)
        PROVE  \E h \in Ancestry(rows', session'[s].target) : HandedTo(rows', session'[s].by, h)
    <3>1. PICK a \in Actors, g \in DOMAIN rows : BeginRevoke(s, a, g) /\ session'[s].by = a
      BY <1>6, <1>8, <2>2
    <3> QED BY <1>3, <1>5, <1>8, <2>2, <3>1 DEF HandedTo, Names
  <2> QED BY <2>1, <2>2
<1> QED BY <1>1, <1>2, <1>8, SessionSteps

LEMMA IssueBelowStep ==
  TypeOK /\ RequestsHangBelow /\ OutsidersIssueBelow /\ [Next]_vars
    => OutsidersIssueBelow'
<1> SUFFICES ASSUME TypeOK, RequestsHangBelow, OutsidersIssueBelow, [Next]_vars,
                    NEW g \in DOMAIN rows', Outsider(rows'[g].creator)
             PROVE  \E h \in Ancestry(rows', g) \ {g} :
                      /\ Names(rows'[h], rows'[g].creator) /\ "share" \in rows'[h].caps
  BY DEF OutsidersIssueBelow, Outsider
<1>1. CASE g \in DOMAIN rows
  <2>1. rows'[g].creator = rows[g].creator
    BY <1>1, KeysLast
  <2>2. PICK h \in Ancestry(rows, g) \ {g} :
          Names(rows[h], rows[g].creator) /\ "share" \in rows[h].caps
    BY <1>1, <2>1 DEF OutsidersIssueBelow
  <2>3. h \in DOMAIN rows
    BY <2>2 DEF Ancestry
  <2>4. Ancestry(rows', g) = Ancestry(rows, g)
    BY <1>1, ChainsLast
  <2>5. rows'[h].caps = rows[h].caps /\ rows'[h].subject = rows[h].subject
    BY <2>3, RowsLast
  <2> QED BY <2>1, <2>2, <2>4, <2>5 DEF Names
<1>2. CASE g \notin DOMAIN rows
  <2>1. PICK s \in Sessions : InsertShare(s) /\ g = Len(rows) + 1
    BY <1>2, NewRows
  <2> DEFINE via == session[s].via
             a   == session[s].by
  <2>2. rows'[g].creator = a /\ rows'[g].parent = via
    BY <2>1, InsertedKey, InsertedRow
  <2>3. via # None /\ HandedTo(rows, a, via) /\ "share" \in rows[via].caps
    BY <2>1, <2>2 DEF RequestsHangBelow, InsertShare, Settling
  <2> HIDE DEF via, a
  <2>4. HandedTo(rows', a, via) /\ rows'[via].caps = rows[via].caps
    BY <2>3, HandedStays
  <2>5. via \in DOMAIN rows /\ via # g
    BY <1>2, <2>3 DEF HandedTo
  <2>6. via \in Ancestry(rows', g)
    <3>1. TypeOK'
      BY TypeCorrectStep
    <3>2. Rooted(rows')
      BY <3>1, RootedAfter
    <3>3. via \in DOMAIN rows'
      BY <2>4 DEF HandedTo
    <3>4. Ancestry(rows', g) = {g} \cup Ancestry(rows', via)
      BY <2>2, <2>3, <3>2, AncestryStep
    <3> QED BY <3>2, <3>3, <3>4, AncestryClosed
  <2> QED BY <2>2, <2>3, <2>4, <2>5, <2>6 DEF HandedTo
<1> QED BY <1>1, <1>2

(* What a session that goes idle has revoked, if it was to revoke. *)
LEMMA RevokedByRequest ==
  ASSUME TypeOK, [Next]_vars, NEW s \in Sessions,
         session[s].op = "revoke", session'[s] = Idle,
         NEW g \in DOMAIN rows, rows'[g].revoked, ~rows[g].revoked
  PROVE  g = session[s].target
<1>1. session'[s] # session[s]
  BY DEF Idle
<1>2. Begin(s) => FALSE
  BY DEF Begin, Idle
<1>3. Settle(s)
  BY <1>1, <1>2, SessionSteps
<1>4. SettleRevoke(s) \/ UNCHANGED rows
  BY <1>3 DEF Settle, Reserve, RefuseRead, AnswerPrevious, RefuseShare, ReplayShare,
              InsertShare, SettleUnshare, Settling
<1>5. CASE SettleRevoke(s)
  <2>1. rows' = Revoke(rows, {session[s].target})
    BY <1>5 DEF SettleRevoke
  <2> QED BY <2>1, RevokedRows
<1> QED BY <1>4, <1>5

OutsiderInv ==
  TypeOK /\ Plain /\ OutsidersHaveNoRole /\ RequestsHangBelow /\ OutsidersIssueBelow

(* An outsider never comes to issue a root grant, and revokes nothing but what
   hangs below a grant it was handed, however grants, groups and roles change
   between the decision and the act.                                       *)
THEOREM OutsidersStayBelowHolds == Spec => OutsidersStayBelow
<1>1. Init => OutsiderInv
  <2> SUFFICES ASSUME Init PROVE OutsiderInv
    OBVIOUS
  <2>1. TypeOK
    BY TypeCorrectInit
  <2>2. rows = <<>> /\ role = InitRole /\ \A s \in Sessions : session[s].op = "idle"
    BY DEF Init, Idle
  <2> QED BY <2>1, <2>2 DEF OutsiderInv, Plain, OutsidersHaveNoRole, RequestsHangBelow,
                            OutsidersIssueBelow, Outsider
<1>2. OutsiderInv /\ [Next]_vars => OutsiderInv'
  BY TypeCorrectStep, PlainStep, NoRoleStep, RequestsHangBelowStep, IssueBelowStep
     DEF OutsiderInv
<1>3. OutsiderInv /\ [Next]_vars =>
        [\A s \in Sessions : session[s].op = "revoke" /\ Outsider(session[s].by) =>
           \A g \in DOMAIN rows :
             /\ session'[s] = Idle /\ rows'[g].revoked /\ ~rows[g].revoked
             => \E h \in Ancestry(rows, g) : Names(rows[h], session[s].by)]_vars
  <2> SUFFICES ASSUME OutsiderInv, [Next]_vars, NEW s \in Sessions,
                      session[s].op = "revoke", Outsider(session[s].by),
                      NEW g \in DOMAIN rows,
                      session'[s] = Idle, rows'[g].revoked, ~rows[g].revoked
               PROVE  \E h \in Ancestry(rows, g) : Names(rows[h], session[s].by)
    OBVIOUS
  <2>1. g = session[s].target
    BY RevokedByRequest DEF OutsiderInv
  <2> QED BY <2>1 DEF OutsiderInv, RequestsHangBelow, HandedTo
<1>4. OutsiderInv => OutsidersIssueBelow
  BY DEF OutsiderInv
<1> QED BY <1>1, <1>2, <1>3, <1>4, PTL DEF Spec, OutsidersStayBelow, OutsidersRevokeBelow

-----------------------------------------------------------------------------
(* A decision that goes through the role does not look at the grants. *)
LEMMA RoleDecidesAlone ==
  ASSUME NEW w, NEW v, NEW p, NEW c, c \in RoleCaps(w, p),
         v.dead = w.dead, v.role = w.role, v.now = w.now
  PROVE  Authorize(v, p, c) = Authorize(w, p, c) /\ Authorize(w, p, c) \subseteq {None}
<1>1. RoleCaps(v, p) = RoleCaps(w, p)
  BY DEF RoleCaps, MemberRole
<1>2. FileRow(v) = FileRow(w)
  BY DEF FileRow
<1>3. Paths(v, p, c) = {None} /\ Paths(w, p, c) = {None}
  BY <1>1 DEF Paths
<1> QED BY <1>2, <1>3 DEF Authorize

LEMMA RolesUnshareAllStep ==
  TypeOK /\ [Next]_vars =>
    [\A s \in Sessions :
       /\ session[s].op = "unshare" /\ session'[s] = Idle
       /\ "share" \in RoleCaps(World(clock), Actor(session[s].by))
       => reply'.done \in {{}, session[s].matches}]_vars
<1> SUFFICES ASSUME TypeOK, [Next]_vars, NEW s \in Sessions,
                    session[s].op = "unshare", session'[s] = Idle,
                    "share" \in RoleCaps(World(clock), Actor(session[s].by))
             PROVE  reply'.done \in {{}, session[s].matches}
  OBVIOUS
<1>1. session'[s] # session[s] /\ ~Begin(s)
  BY DEF Idle, Begin
<1>2. Settle(s)
  BY <1>1, SessionSteps
<1>3. SettleUnshare(s)
  BY <1>2 DEF Settle, Reserve, RefuseRead, AnswerPrevious, RefuseShare, ReplayShare,
              InsertShare, SettleRevoke, Settling
<1> DEFINE matches == session[s].matches
           w == World(clock)
           p == Actor(session[s].by)
           V(S) == [World(clock) EXCEPT !.rows = Revoke(rows, S)]
           Goes(h) == AuthorizeRevoke(V({k \in matches : k < h}), p, h) # {}
           done == {g \in matches : \A h \in matches : h <= g => Goes(h)}
<1>4. reply'.done = done
  BY <1>3 DEF SettleUnshare
<1>5. \A S : V(S).dead = w.dead /\ V(S).role = w.role /\ V(S).now = w.now
  BY DEF World
<1> HIDE DEF V
<1>6. \A S : Authorize(V(S), p, "share") = Authorize(w, p, "share")
  <2> TAKE S
  <2> DEFINE v == V(S)
  <2>1. v.dead = w.dead /\ v.role = w.role /\ v.now = w.now
    BY <1>5
  <2> HIDE DEF w, p, v
  <2>2. "share" \in RoleCaps(w, p)
    BY DEF w, p
  <2>3. Authorize(v, p, "share") = Authorize(w, p, "share")
    BY <2>1, <2>2, RoleDecidesAlone
  <2> QED BY <2>3 DEF v
<1>7. Authorize(w, p, "share") \subseteq {None}
  <2> HIDE DEF w, p
  <2>1. "share" \in RoleCaps(w, p)
    BY DEF w, p
  <2> QED BY <2>1, RoleDecidesAlone
<1> HIDE DEF w, p
<1>8. \A h : Goes(h) <=> Authorize(w, p, "share") # {}
  BY <1>6, <1>7 DEF AuthorizeRevoke
<1> HIDE DEF Goes
<1>9. done = matches \/ done = {}
  <2> HIDE DEF matches
  <2>1. CASE Authorize(w, p, "share") # {}
    BY <1>8, <2>1
  <2>2. CASE Authorize(w, p, "share") = {}
    <3>1. \A h : ~Goes(h)
      BY <1>8, <2>2
    <3>2. \A g \in matches : g <= g
      <4>1. matches \subseteq DOMAIN rows
        BY DEF TypeOK, Request, Idle, matches
      <4> QED BY <4>1, Table
    <3> QED BY <3>1, <3>2
  <2> QED BY <2>1, <2>2
<1> QED BY <1>4, <1>9

(* An unshare by somebody whose standing is a role goes all the way or does
   nothing: no revocation on the way takes the standing away.              *)
THEOREM RolesUnshareAllHolds == Spec => RolesUnshareAll
<1>1. TypeOK /\ [Next]_vars =>
        [\A s \in Sessions :
           /\ session[s].op = "unshare" /\ session'[s] = Idle
           /\ "share" \in RoleCaps(World(clock), Actor(session[s].by))
           => reply'.done \in {{}, session[s].matches}]_vars
  BY RolesUnshareAllStep
<1> QED BY <1>1, TypeCorrect, PTL DEF Spec, RolesUnshareAll

-----------------------------------------------------------------------------
(* The tables of the list query, cell by cell, say what the functions say
   that they were computed from.                                           *)
LEMMA LifecycleAgrees ==
  ASSUME NEW w, NEW c \in Capability
  PROVE  LifecycleTuple(FileRow(w), w.now) \in LifecycleCells(c)
           <=> LifecycleDenial(FileRow(w), c, w.now) = None
<1> DEFINE gone == FileExpires # None /\ FileExpires <= w.now
           file == FileRow(w)
           Probe(st, x, y) ==
             LifecycleDenial([state   |-> st,
                              expires |-> IF x THEN 9 ELSE None,
                              retain  |-> IF y THEN 11 ELSE None], c, 10) = None
<1>1. /\ file.state \in {"deleted", "ready"} /\ file.expires = FileExpires
      /\ file.retain = None
  BY DEF FileRow
<1>2. LifecycleTuple(file, w.now) = <<file.state, gone, FALSE>>
  BY <1>1 DEF LifecycleTuple
<1>3. gone \in BOOLEAN
  OBVIOUS
<1>4. LifecycleCells(c) = {cell \in FileState \X BOOLEAN \X BOOLEAN :
                             Probe(cell[1], cell[2], cell[3])}
  BY DEF LifecycleCells
<1> HIDE DEF gone, file, Probe
<1>5. LifecycleTuple(file, w.now) \in LifecycleCells(c) <=> Probe(file.state, gone, FALSE)
  <2>1. <<file.state, gone, FALSE>> \in FileState \X BOOLEAN \X BOOLEAN
    BY <1>1, <1>3 DEF FileState
  <2>2. CASE gone = TRUE
    <3> DEFINE cell == <<file.state, TRUE, FALSE>>
    <3>1. cell[1] = file.state /\ cell[2] = TRUE /\ cell[3] = FALSE
      OBVIOUS
    <3>2. LifecycleTuple(file, w.now) = cell /\ cell \in FileState \X BOOLEAN \X BOOLEAN
      BY <1>2, <2>1, <2>2
    <3> HIDE DEF cell
    <3> QED BY <1>4, <2>2, <3>1, <3>2, Zenon
  <2>3. CASE gone = FALSE
    <3> DEFINE cell == <<file.state, FALSE, FALSE>>
    <3>1. cell[1] = file.state /\ cell[2] = FALSE /\ cell[3] = FALSE
      OBVIOUS
    <3>2. LifecycleTuple(file, w.now) = cell /\ cell \in FileState \X BOOLEAN \X BOOLEAN
      BY <1>2, <2>1, <2>3
    <3> HIDE DEF cell
    <3> QED BY <1>4, <2>3, <3>1, <3>2, Zenon
  <2> QED BY <1>3, <2>2, <2>3
<1>6. Probe(file.state, gone, FALSE) <=> ~(file.state = "deleted")
                                          /\ ~(c # "delete" /\ gone)
  <2>1. 9 # None /\ 9 <= 10 /\ None \notin {"file_deleted", "file_expired"}
    BY NoneIsNoNumber, NoneIsNoReason
  <2>2. CASE gone
    BY <1>1, <2>1, <2>2 DEF Probe, LifecycleDenial
  <2>3. CASE ~gone
    BY <1>1, <2>1, <2>3 DEF Probe, LifecycleDenial
  <2> QED BY <2>2, <2>3
<1>7. LifecycleDenial(file, c, w.now) = None <=> ~(file.state = "deleted")
                                                  /\ ~(c # "delete" /\ gone)
  BY <1>1, NoneIsNoReason DEF LifecycleDenial, gone
<1> QED BY <1>5, <1>6, <1>7 DEF file

LEMMA MemberSits ==
  ASSUME NEW w, NEW o, NEW a
  PROVE  /\ Sits(w, o, a) => MemberRole(w, o, a) = w.role[o][a]
         /\ Sits(w, o, a) <=> MemberRole(w, o, a) # None
BY DEF Sits, MemberRole

LEMMA RoleAgrees ==
  ASSUME NEW w, NEW a, w.role[HomeOrg][a] \in OrgRole \cup {None}, NEW c
  PROVE  SeenByRole(w, a, c) <=> c \in RoleCaps(w, Actor(a))
<1> DEFINE r == w.role[HomeOrg][a]
           own == a = FileOwner
<1>1. RoleCaps(w, Actor(a)) =
        FileCapabilities(MemberRole(w, HomeOrg, a), own, FileVisibility)
  BY DEF RoleCaps, Actor
<1>2. FileVisibility \in Visibility /\ own \in BOOLEAN
  BY SharingAssumption
<1> HIDE DEF own
<1>3. CASE Sits(w, HomeOrg, a)
  <2>1. r \in OrgRole /\ MemberRole(w, HomeOrg, a) = r
    BY <1>3, MemberSits DEF Sits
  <2>2. <<r, own, FileVisibility>> \in RoleCells(c)
          <=> c \in FileCapabilities(r, own, FileVisibility)
    <3> HIDE DEF r
    <3> QED BY <1>2, <2>1 DEF RoleCells
  <2> QED BY <1>1, <1>3, <2>1, <2>2 DEF SeenByRole, own
<1>4. CASE ~Sits(w, HomeOrg, a)
  <2>1. MemberRole(w, HomeOrg, a) = None
    BY <1>4, MemberSits
  <2>2. FileCapabilities(None, own, FileVisibility) = {}
    BY SharingAssumption DEF FileCapabilities, OrgRole
  <2> QED BY <1>1, <1>4, <2>1, <2>2 DEF SeenByRole
<1> QED BY <1>3, <1>4

LEMMA GroupAgrees ==
  ASSUME NEW w, NEW a, NEW subject, subject.type \in {"org", "role"},
         w.role[subject.org][a] \in OrgRole \cup {None},
         subject.type = "role" => subject.min \in OrgRole,
         subject.type # "role" => subject.min = None
  PROVE  InGroup(w, Actor(a), subject)
           <=> /\ Sits(w, subject.org, a)
               /\ FloorTuple(subject, w.role[subject.org][a]) \in MembershipCells
<1> DEFINE r == w.role[subject.org][a]
           floor == IF subject.min = None THEN "viewer" ELSE subject.min
<1>1. InGroup(w, Actor(a), subject) <=>
        /\ MemberRole(w, subject.org, a) # None
        /\ subject.type = "role" => RoleMeets(MemberRole(w, subject.org, a), subject.min)
  BY DEF InGroup, Actor
<1>2. CASE ~Sits(w, subject.org, a)
  BY <1>1, <1>2, MemberSits
<1>3. CASE Sits(w, subject.org, a)
  <2>1. r \in OrgRole /\ MemberRole(w, subject.org, a) = r /\ MemberRole(w, subject.org, a) # None
    BY <1>3, MemberSits DEF Sits
  <2>2. floor \in OrgRole
    BY DEF OrgRole
  <2>3. FloorTuple(subject, r) \in MembershipCells <=> RoleMeets(r, floor)
    <3>1. FloorTuple(subject, r) = <<floor, r>>
      BY DEF FloorTuple
    <3> HIDE DEF floor, r
    <3> QED BY <2>1, <2>2, <3>1 DEF MembershipCells
  <2>4. RoleMeets(r, floor) <=> (subject.type = "role" => RoleMeets(r, subject.min))
    <3>1. CASE subject.type = "role"
      BY <3>1, SharingAssumption
    <3>2. CASE subject.type # "role"
      <4>1. floor = "viewer"
        BY <3>2
      <4> HIDE DEF r, floor
      <4>2. RoleMeets(r, floor)
        BY <2>1, <4>1 DEF RoleMeets, RoleRank, OrgRole
      <4> QED BY <3>2, <4>2
    <3> QED BY <3>1, <3>2
  <2> QED BY <1>1, <1>3, <2>1, <2>3, <2>4
<1> QED BY <1>2, <1>3

(* The search for a path finds one if there is one: on the first rung that
   has one, the earliest.                                                  *)
LEMMA PathsAreFound ==
  ASSUME NEW w, NEW p, NEW c, c \notin RoleCaps(w, p), DOMAIN w.rows \subseteq Nat
  PROVE  Paths(w, p, c) # {} <=>
           \E i \in 1..4 : \E g \in Rungs(w, p)[i] : c \in w.rows[g].caps
<1> DEFINE all == Rungs(w, p)
           rungs == [i \in 1..4 |-> {g \in all[i] : c \in w.rows[g].caps}]
<1>0. Paths(w, p, c) =
        IF c \in RoleCaps(w, p) THEN {None}
        ELSE {g \in UNION Range(rungs) :
                \E i \in 1..4 : /\ g \in rungs[i]
                                /\ \A j \in 1..(i-1) : rungs[j] = {}
                                /\ \A h \in rungs[i] : g <= h}
  BY Zenon DEF Paths
<1>1. Paths(w, p, c) = {g \in UNION Range(rungs) :
                          \E i \in 1..4 : /\ g \in rungs[i]
                                          /\ \A j \in 1..(i-1) : rungs[j] = {}
                                          /\ \A h \in rungs[i] : g <= h}
  BY <1>0, Zenon
<1>2. \A i \in 1..4 : all[i] \subseteq DOMAIN w.rows
  BY DEF Rungs, LiveGrants
<1>r. \A i \in 1..4 : rungs[i] = {g \in all[i] : c \in w.rows[g].caps}
  OBVIOUS
<1>u. \A i \in 1..4 : \A g \in rungs[i] : g \in UNION Range(rungs)
  BY DEF Range
<1>v. \A g \in UNION Range(rungs) : \E i \in 1..4 : g \in rungs[i]
  BY DEF Range
<1> HIDE DEF all, rungs
<1>3. ASSUME NEW i \in 1..4, NEW g \in all[i], c \in w.rows[g].caps
      PROVE  Paths(w, p, c) # {}
  <2> DEFINE I == {j \in 1..4 : rungs[j] # {}}
  <2>1. I # {}
    BY <1>3, <1>r
  <2>2. PICK j \in I : \A k \in I : j <= k
    <3>1. I \subseteq Nat
      OBVIOUS
    <3> HIDE DEF I
    <3> QED BY <2>1, <3>1, LeastNat
  <2>3. rungs[j] # {} /\ rungs[j] \subseteq Nat
    BY <1>2, <1>r, <2>2
  <2>4. PICK h \in rungs[j] : \A k \in rungs[j] : h <= k
    BY <2>3, LeastNat
  <2>5. j \in 1..4 /\ \A k \in 1..(j-1) : rungs[k] = {}
    BY <2>2
  <2> QED BY <1>1, <1>u, <2>4, <2>5
<1>4. ASSUME Paths(w, p, c) # {}
      PROVE  \E i \in 1..4 : \E g \in all[i] : c \in w.rows[g].caps
  BY <1>1, <1>4, <1>r
<1> QED BY <1>3, <1>4 DEF all

(* The four branches of the query are the role and three of the rungs; the
   one that is missing, the link's, is empty for whoever is not a link.    *)
LEMMA ActorAgrees ==
  ASSUME TypeOK, Plain, NEW a \in Actors \cup {None}, NEW c \in Capability
  PROVE  Listed(World(clock), LiveGrants(World(clock)), a, c)
           <=> Authorize(World(clock), Actor(a), c) # {}
<1> DEFINE w == World(clock)
           p == Actor(a)
           live == LiveGrants(w)
           Found(i) == \E g \in Rungs(w, p)[i] : c \in w.rows[g].caps
<1>1. /\ w.rows = rows /\ w.role = role /\ p.actor = a /\ p.link = None
      /\ role \in [Orgs -> [Actors -> OrgRole \cup {None}]]
  BY DEF World, Actor, TypeOK
<1>2. live \subseteq DOMAIN rows /\ DOMAIN rows \subseteq Nat
  BY <1>1, Table DEF LiveGrants
<1>3. /\ Rungs(w, p)[1] = {g \in live : /\ w.rows[g].subject.type = "actor"
                                        /\ w.rows[g].subject.actor = p.actor}
      /\ Rungs(w, p)[2] = {g \in live : InGroup(w, p, w.rows[g].subject)}
      /\ Rungs(w, p)[3] = live \cap {p.link}
      /\ Rungs(w, p)[4] = {g \in live : w.rows[g].subject.type = "anonymous" /\ ~DeadLink(w, p)}
  BY DEF Rungs
<1> HIDE DEF w, live, Found
<1>4. SeenByRole(w, a, c) <=> c \in RoleCaps(w, p)
  <2>1. CASE a = None
    <3>1. RoleCaps(w, p) = FileCapabilities(None, a = FileOwner, FileVisibility)
      BY <1>1, <2>1 DEF RoleCaps, MemberRole
    <3>2. FileCapabilities(None, a = FileOwner, FileVisibility) = {}
      BY SharingAssumption DEF FileCapabilities, OrgRole
    <3> QED BY <2>1, <3>1, <3>2 DEF SeenByRole, Sits
  <2>2. CASE a # None
    <3>1. w.role[HomeOrg][a] \in OrgRole \cup {None}
      BY <1>1, <2>2, SharingAssumption
    <3> QED BY <3>1, RoleAgrees
  <2> QED BY <2>1, <2>2
<1> HIDE DEF p
<1>5. SeenByGrant(w, live, a, c) <=> Found(1)
  BY <1>1, <1>3 DEF SeenByGrant, Found, Supplies
<1>6. ASSUME NEW g \in live
      PROVE  InGroup(w, p, w.rows[g].subject)
               <=> LET subject == w.rows[g].subject
                   IN  /\ subject.type \in {"org", "role"}
                       /\ Sits(w, subject.org, a)
                       /\ FloorTuple(subject, w.role[subject.org][a]) \in MembershipCells
  <2> DEFINE subject == w.rows[g].subject
  <2>1. PICK in \in Shares : subject = in.subject
    <3>1. rows[g] \in Row(Keys)
      BY <1>2, Table
    <3> QED BY <1>1, <3>1 DEF Row
  <2>2. CASE subject.type \notin {"org", "role"}
    BY <2>2 DEF InGroup
  <2>3. CASE subject.type \in {"org", "role"} /\ a = None
    BY <1>1, <2>3 DEF InGroup, MemberRole, Sits
  <2>4. CASE subject.type \in {"org", "role"} /\ a # None
    <3>1. /\ w.role[subject.org][a] \in OrgRole \cup {None}
          /\ subject.type = "role" => subject.min \in OrgRole
          /\ subject.type # "role" => subject.min = None
      BY <1>1, <2>1, <2>4, SubjectsAreWellFormed
    <3> HIDE DEF subject
    <3> QED BY <2>4, <3>1, GroupAgrees DEF p, subject
  <2> QED BY <2>2, <2>3, <2>4
<1>7. SeenByGroup(w, live, a, c) <=> Found(2)
  <2>1. SeenByGroup(w, live, a, c) <=>
          \E g \in live : InGroup(w, p, w.rows[g].subject) /\ Supplies(w.rows[g], c)
    BY <1>6 DEF SeenByGroup
  <2> QED BY <1>3, <2>1 DEF Found, Supplies
<1>8. ~Found(3)
  BY <1>1, <1>2, <1>3, NoneIsNoNumber DEF Found
<1>9. SeenByAnyone(w, live, c) <=> Found(4)
  <2> DEFINE open == {g \in live : w.rows[g].subject.type = "anonymous"}
  <2>1. Found(4) <=> \E g \in open : c \in w.rows[g].caps
    BY <1>1, <1>3 DEF Found, DeadLink
  <2>2. \A g \in open : w.rows[g].caps = {"read"}
    BY <1>1, <1>2 DEF Plain
  <2>3. open \subseteq Nat
    BY <1>2
  <2>4. SeenByAnyone(w, live, c) <=>
          c = "read" /\ \E g \in open : (\A h \in open : g <= h) /\ c \in w.rows[g].caps
    BY DEF SeenByAnyone, Supplies
  <2> HIDE DEF open
  <2>5. open # {} => \E g \in open : \A h \in open : g <= h
    BY <2>3, LeastNat
  <2> QED BY <2>1, <2>2, <2>4, <2>5
<1>10. LifecycleTuple(FileRow(w), w.now) \in LifecycleCells(c)
         <=> LifecycleDenial(FileRow(w), c, w.now) = None
  BY LifecycleAgrees
<1>11. CASE c \in RoleCaps(w, p)
  <2>1. Paths(w, p, c) = {None}
    BY <1>11 DEF Paths
  <2> QED BY <1>4, <1>10, <1>11, <2>1 DEF Listed, Authorize, w, p, live
<1>12. CASE c \notin RoleCaps(w, p)
  <2>1. Paths(w, p, c) # {} <=> \E i \in 1..4 : Found(i)
    BY <1>1, <1>2, <1>12, PathsAreFound DEF Found
  <2>2. Paths(w, p, c) # {} <=> Found(1) \/ Found(2) \/ Found(4)
    BY <1>8, <2>1
  <2>3. Listed(w, live, a, c) <=> Authorize(w, p, c) # {}
    BY <1>4, <1>5, <1>7, <1>9, <1>10, <1>12, <2>2 DEF Listed, Authorize
  <2> QED BY <2>3 DEF w, p, live
<1> QED BY <1>11, <1>12

(* The query and the decision agree, for every actor and capability, in every
   state: the second implementation of the access rules, written in SQL, is
   the first one.                                                          *)
THEOREM ListsAgree == Spec => []ListAgrees
<1>1. TypeOK /\ Plain => ListAgrees
  BY ActorAgrees DEF ListAgrees
<1> QED BY <1>1, TypeCorrect, PlainHolds, PTL
=============================================================================
