------------------------------ MODULE Standing ------------------------------
(***************************************************************************)
(* How authz.ts turns a principal, a file and a capability into a          *)
(* decision, over the queries of store.ts.  `w' is the database as one     *)
(* statement sees it: a record with the fields rows, dead, role and now.   *)
(* A principal is an actor, the holder of a link grant's secret, or nobody *)
(* in particular.                                                          *)
(***************************************************************************)
EXTENDS GrantTree, Functions

CONSTANTS Actors, Orgs,
          FileOwner,        \* the actor the file belongs to
          FileVisibility,
          FileExpires       \* when the file itself expires, or None

FileRow(w) == [state   |-> IF File \in w.dead THEN "deleted" ELSE "ready",
               expires |-> FileExpires,
               retain  |-> None]

(* getMembership: the role a membership row gives, unless its actor, its
   organisation or the project is suspended.                               *)
MemberRole(w, o, a) ==
  IF a = None \/ {a, o, Project} \cap w.dead # {} THEN None ELSE w.role[o][a]

RoleCaps(w, p) == FileCapabilities(MemberRole(w, HomeOrg, p.actor),
                                   p.actor = FileOwner, FileVisibility)

LiveGrants(w) == {g \in DOMAIN w.rows : GrantLive(w.rows, g, w.dead, w.now)}

(* A secret that names a grant which is no longer live ends the search. *)
DeadLink(w, p) == p.link # None /\ ~GrantLive(w.rows, p.link, w.dead, w.now)

(* A group grant reaches p through p's membership of the group. *)
InGroup(w, p, s) ==
  /\ s.type \in {"org", "role"}
  /\ MemberRole(w, s.org, p.actor) # None
  /\ s.type = "role" => RoleMeets(MemberRole(w, s.org, p.actor), s.min)

(* The live grants that answer for p, rung by rung in the order they are
   tried: p's own, p's groups', p's link's, everybody's.                   *)
Rungs(w, p) ==
  LET live    == LiveGrants(w)
      Subj(g) == w.rows[g].subject
  IN  << {g \in live : Subj(g).type = "actor" /\ Subj(g).actor = p.actor},
         {g \in live : InGroup(w, p, Subj(g))},
         live \cap {p.link},
         {g \in live : Subj(g).type = "anonymous" /\ ~DeadLink(w, p)} >>

(* Everything p may do on the file: what authorizeShare attenuates against. *)
Held(w, p) ==
  RoleCaps(w, p) \cup UNION {w.rows[g].caps : g \in UNION Range(Rungs(w, p))}

(* The first path that supplies a capability, as a set: the role before any
   grant, an earlier rung before a later one, and in a rung the grant with
   the lowest id, the earliest.  Empty when p has no such standing.        *)
Paths(w, p, c) ==
  IF c \in RoleCaps(w, p) THEN {None}
  ELSE LET all   == Rungs(w, p)
           rungs == [i \in 1..4 |-> {g \in all[i] : c \in w.rows[g].caps}]
       IN  {g \in UNION Range(rungs) :
              \E i \in 1..4 :
                /\ g \in rungs[i]
                /\ \A j \in 1..(i-1) : rungs[j] = {}
                /\ \A h \in rungs[i] : g <= h}

(* authorize: standing first, the lifecycle of the file only then.  The
   grant (None: the role) the decision goes through, as a set.             *)
Authorize(w, p, c) ==
  IF LifecycleDenial(FileRow(w), c, w.now) = None THEN Paths(w, p, c) ELSE {}

AuthorizeShare(w, p, subject, caps) ==
  {via \in Authorize(w, p, "share") :
     /\ ~DeadLink(w, p)
     /\ caps \subseteq Held(w, p)
     /\ via # None => subject.type \in {"actor", "link"}}

(* Mutant: whoever may share may revoke. *)
AuthorizeRevoke_Foreign(w, p, g) == Authorize(w, p, "share")

AuthorizeRevoke(w, p, g) ==
  {via \in Authorize(w, p, "share") : via # None => via \in Ancestry(w.rows, g)}
=============================================================================
