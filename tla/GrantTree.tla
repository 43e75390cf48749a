----------------------------- MODULE GrantTree -----------------------------
(***************************************************************************)
(* The file_grant table of packages/core/schema.sql and the functions and  *)
(* triggers defined over it.  `rows' is the table, a sequence in creation  *)
(* order: the index of a row is its id.  `dead' is the set of everything   *)
(* soft-deleted: actors, organisations, the project, the file itself.      *)
(***************************************************************************)
EXTENDS Authz, Sequences, FiniteSets

CONSTANTS HomeOrg,    \* the organisation of the file
          Project,    \* the project of that organisation
          File,       \* the file
          MaxDepth    \* length of the longest delegation chain: 32 in the code

ASSUME MaxDepthIsNat == MaxDepth \in Nat \ {0}

(* x is no looser than the bound y, where None is no bound at all. *)
Within(x, y) == y = None \/ (x # None /\ x <= y)
Clamp(x, y)  == IF Within(x, y) THEN x ELSE y

(* Ids of the grants from g up to its root, g included: the least set that
   contains g and the parent of each of its members.                       *)
ParentClosed(rows, S) ==
  \A h \in S \cap DOMAIN rows : rows[h].parent # None => rows[h].parent \in S

Ancestry(rows, g) ==
  {h \in DOMAIN rows :
     \A S \in SUBSET DOMAIN rows : g \in S /\ h \notin S => ~ParentClosed(rows, S)}

(* grant_scope_is_live: nothing the grant hangs from is soft-deleted. *)
ScopeLive(row, dead) ==
  dead \cap {File, HomeOrg, Project, row.subject.actor, row.creator, row.subject.org} = {}

(* Mutants of the next definition: the cap compared with <=; no cap at all. *)
SelfLive_OffByOne(row, dead, now) ==
  /\ ~row.revoked
  /\ row.expires # None => row.expires > now
  /\ row.max # None => row.count <= row.max
  /\ ScopeLive(row, dead)

SelfLive(row, dead, now) ==
  /\ ~row.revoked
  /\ row.expires # None => row.expires > now
  /\ row.max # None => row.count < row.max
  /\ ScopeLive(row, dead)

(* grant_is_live.  The code stops its walk at 64 rows, twice MaxDepth. *)
GrantLive(rows, g, dead, now) ==
  \A h \in Ancestry(rows, g) : SelfLive(rows[h], dead, now)

(* Mutants of the next definition: one link too many; a parent that need not
   be live.                                                                *)
AttenuationRefused_TooDeep(rows, row, dead, now) ==
  /\ row.parent # None
  /\ \/ row.subject.type \notin {"actor", "link"}
     \/ Cardinality(Ancestry(rows, row.parent)) > MaxDepth
     \/ ~GrantLive(rows, row.parent, dead, now)
     \/ ~(row.caps \subseteq rows[row.parent].caps)

AttenuationRefused_DeadParent(rows, row, dead, now) ==
  /\ row.parent # None
  /\ \/ row.subject.type \notin {"actor", "link"}
     \/ Cardinality(Ancestry(rows, row.parent)) >= MaxDepth
     \/ ~(row.caps \subseteq rows[row.parent].caps)

(* The part of file_grant_attenuate that raises, for a row about to be
   inserted under a parent, and the CHECKs of the table.                   *)
AttenuationRefused(rows, row, dead, now) ==
  /\ row.parent # None
  /\ \/ row.subject.type \notin {"actor", "link"}
     \/ Cardinality(Ancestry(rows, row.parent)) >= MaxDepth
     \/ ~GrantLive(rows, row.parent, dead, now)
     \/ ~(row.caps \subseteq rows[row.parent].caps)

CheckRefused(row) ==
  \/ row.caps = {}
  \/ row.subject.type \in {"anonymous", "link"} /\ row.caps # {"read"}

(* Mutant: the child gets what it asked for. *)
Attenuate_Untouched(rows, row) == row

(* The part that tightens: expiry and download cap of the new row may not
   exceed what the parent has left.                                        *)
Attenuate(rows, row) ==
  IF row.parent = None THEN row
  ELSE LET p == rows[row.parent]
       IN  [row EXCEPT
              !.expires = Clamp(row.expires, p.expires),
              !.max = Clamp(row.max, IF p.max = None THEN None ELSE p.max - p.count)]

(* Mutant: only the grant itself is charged. *)
Consume_LeafOnly(rows, g) ==
  [h \in DOMAIN rows |-> IF h = g THEN [rows[h] EXCEPT !.count = @ + 1] ELSE rows[h]]

(* consume_download: one delivery is charged to the grant and to every
   grant above it, or refused without a trace.  The code's re-check of the
   locked rows is GrantLive.                                               *)
Consume(rows, g) ==
  [h \in DOMAIN rows |->
     IF h \in Ancestry(rows, g) THEN [rows[h] EXCEPT !.count = @ + 1] ELSE rows[h]]

Revoke(rows, S) ==
  [h \in DOMAIN rows |-> IF h \in S THEN [rows[h] EXCEPT !.revoked = TRUE] ELSE rows[h]]
=============================================================================
