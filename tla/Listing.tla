------------------------------ MODULE Listing ------------------------------
(***************************************************************************)
(* The second form of the access decision: listAuthorizedFiles selects the *)
(* files an actor may use with one query, where authorize answers for one  *)
(* file.  The tables of tuples the query tests against are computed from   *)
(* the functions of Authz, but the union of ways to a file -- role, grant, *)
(* group, everybody -- is written a second time, in SQL.                   *)
(***************************************************************************)
EXTENDS Sharing

(* A group has a floor, and nobody else has one; a group belongs to an
   organisation (schema.sql, the CHECKs of file_grant on subject_min_role and
   its key on subject_org_id).                                             *)
ASSUME SubjectsAreWellFormed ==
  \A in \in Shares :
    /\ in.subject.type \in {"actor", "link", "anonymous", "org", "role"}
    /\ in.subject.type = "role" => in.subject.min \in OrgRole
    /\ in.subject.type # "role" => in.subject.min = None
    /\ in.subject.type \in {"org", "role"} => in.subject.org \in Orgs

(* listPredicate: each table holds the tuples of plain values for which a
   function of Authz, probed around a reference clock, says yes.           *)
RoleCells(c) ==
  {cell \in OrgRole \X BOOLEAN \X Visibility :
     c \in FileCapabilities(cell[1], cell[2], cell[3])}

LifecycleCells(c) ==
  {cell \in FileState \X BOOLEAN \X BOOLEAN :
     LifecycleDenial([state   |-> cell[1],
                      expires |-> IF cell[2] THEN 9 ELSE None,
                      retain  |-> IF cell[3] THEN 11 ELSE None], c, 10) = None}

(* Mutant: the floor and the held role change places. *)
MembershipCells_Swapped == {cell \in OrgRole \X OrgRole : RoleMeets(cell[1], cell[2])}

MembershipCells == {cell \in OrgRole \X OrgRole : RoleMeets(cell[2], cell[1])}

(* The tuples the query builds from a row and tests against the tables. *)
LifecycleTuple(file, now) ==
  << file.state,
     file.expires # None /\ file.expires <= now,
     file.retain # None /\ file.retain > now >>

FloorTuple(subject, held) ==
  << IF subject.min = None THEN "viewer" ELSE subject.min, held >>

(* The row of membership joined with its organisation, project and actor. *)
Sits(w, o, a) ==
  /\ a # None /\ w.role[o][a] # None
  /\ w.dead \cap {a, o, Project} = {}

Supplies(row, c) == c \in row.caps

SeenByRole(w, a, c) ==
  /\ Sits(w, HomeOrg, a)
  /\ <<w.role[HomeOrg][a], a = FileOwner, FileVisibility>> \in RoleCells(c)

(* `live' is the view live_grant, cut down to the file. *)
SeenByGrant(w, live, a, c) ==
  \E g \in live :
    /\ w.rows[g].subject.type = "actor" /\ w.rows[g].subject.actor = a
    /\ Supplies(w.rows[g], c)

SeenByGroup(w, live, a, c) ==
  \E g \in live :
    LET subject == w.rows[g].subject
    IN  /\ subject.type \in {"org", "role"}
        /\ Sits(w, subject.org, a)
        /\ FloorTuple(subject, w.role[subject.org][a]) \in MembershipCells
        /\ Supplies(w.rows[g], c)

(* Only the earliest grant to everybody is looked at, and only to read. *)
SeenByAnyone(w, live, c) ==
  /\ c = "read"
  /\ \E g \in live :
       /\ w.rows[g].subject.type = "anonymous"
       /\ \A h \in live : w.rows[h].subject.type = "anonymous" => g <= h
       /\ Supplies(w.rows[g], c)

(* listAuthorizedFiles has the file in its answer to actor a, or to nobody
   in particular when a is None.  A holder of a link cannot list at all.   *)
Listed(w, live, a, c) ==
  /\ LifecycleTuple(FileRow(w), w.now) \in LifecycleCells(c)
  /\ \/ SeenByRole(w, a, c)
     \/ SeenByGrant(w, live, a, c)
     \/ SeenByGroup(w, live, a, c)
     \/ SeenByAnyone(w, live, c)

-----------------------------------------------------------------------------
(* The list an actor gets and the decisions the actor would get agree, file
   by file and capability by capability: in every state that sharing,
   delegating, spending, revoking, suspending, changing roles and the passing
   of time can lead to (authz.ts: "If those ever diverge, the set query is
   leaking").                                                              *)
ListAgrees ==
  LET w    == World(clock)
      live == LiveGrants(w)
  IN  \A a \in Actors \cup {None}, c \in Capability :
        Listed(w, live, a, c) <=> Authorize(w, Actor(a), c) # {}

(* An actor whose standing is a role, and stays so while the loop runs, revokes
   a subject's grants all or none: by itself revokeFor stops half way only for a
   caller whose standing is a grant that it takes away (filelayer.ts, revokeFor). *)
RolesUnshareAll ==
  [][\A s \in Sessions :
       /\ session[s].op = "unshare" /\ session'[s] = Idle
       /\ "share" \in RoleCaps(World(clock), Actor(session[s].by))
       => reply'.done \in {{}, session[s].matches}]_vars
=============================================================================
