------------------------------- MODULE Paging -------------------------------
(***************************************************************************)
(* listFiles page by page.  The order is (created_at, id); created_at is   *)
(* the database's now() when the inserting transaction began, and counts   *)
(* microseconds; the cursor handed to the caller writes it as an ISO       *)
(* string of a JavaScript Date, which counts milliseconds.  Files are      *)
(* uploaded and deleted while somebody turns the pages.                    *)
(***************************************************************************)
EXTENDS Integers, FiniteSets

CONSTANTS Ids,        \* the ids files may get, ordered as the database orders them
          PageSize, ListMax,     \* the limit in force, and LIST_MAX_LIMIT
          Millisecond,   \* clock ticks in one: 1000 in PostgreSQL
          MaxTime, MaxPages    \* bounds for the model checker

PagingConstants ==
  /\ Ids \subseteq Nat
  /\ {PageSize, Millisecond} \subseteq Nat \ {0} /\ ListMax \in Nat /\ PageSize <= ListMax

VARIABLES time,     \* now(), in the database's unit
          upload,   \* per id: nothing yet, a transaction, a row, a deleted row
          walk      \* the caller who turns the pages

pagingVars == <<time, upload, walk>>

Stages == {"none", "open", "there", "gone"}
NoCursor == [at |-> -1, id |-> -1]

(* Whole milliseconds only: toISOString of what the driver made of it. *)
Truncated(at) == (at \div Millisecond) * Millisecond

PagingInit ==
  /\ time = 0
  /\ upload = [f \in Ids |-> [stage |-> "none", at |-> 0]]
  /\ walk = [stage |-> "idle"]

Files == {f \in Ids : upload[f].stage = "there"}

BeginInsert(f) ==
  /\ upload[f].stage = "none"
  /\ upload' = [upload EXCEPT ![f] = [stage |-> "open", at |-> time]]
  /\ UNCHANGED <<time, walk>>

CommitInsert(f) ==
  /\ upload[f].stage = "open"
  /\ upload' = [upload EXCEPT ![f].stage = "there"]
  /\ UNCHANGED <<time, walk>>

Remove(f) ==
  /\ upload[f].stage = "there"
  /\ upload' = [upload EXCEPT ![f].stage = "gone"]
  /\ UNCHANGED <<time, walk>>

PassTime ==
  /\ time < MaxTime
  /\ time' = time + 1
  /\ UNCHANGED <<upload, walk>>

(* The caller asks for the first page; `had' is what was there to be listed. *)
StartWalk ==
  /\ walk.stage = "idle"
  /\ walk' = [stage |-> "walking", cursor |-> NoCursor, had |-> Files,
              seen |-> [f \in Ids |-> 0], last |-> {}, pages |-> 0]
  /\ UNCHANGED <<time, upload>>

Before(at, id, bt, jd) == at < bt \/ (at = bt /\ id < jd)

Beyond(cursor) ==
  {f \in Files : Before(cursor.at, cursor.id, upload[f].at, f)}

(* The first n files of a set, and the last of a page. *)
FirstOf(S, n) ==
  {f \in S : Cardinality({g \in S : Before(upload[g].at, g, upload[f].at, f)}) < n}

(* listAuthorizedFiles cuts whatever it is asked for at the maximum. *)
RowsFor(limit) == IF limit < ListMax THEN limit ELSE ListMax

LastOf(P) ==
  CHOOSE f \in P : \A g \in P \ {f} : Before(upload[g].at, g, upload[f].at, f)

(* Mutants: the cursor is rounded up; it is cut to something coarser. *)
NextCursor_RoundedUp(P) ==
  [at |-> Truncated(upload[LastOf(P)].at) + Millisecond, id |-> LastOf(P)]

NextCursor_Coarser(P) ==
  [at |-> (upload[LastOf(P)].at \div (2 * Millisecond)) * 2 * Millisecond, id |-> LastOf(P)]

NextCursor(P) == [at |-> Truncated(upload[LastOf(P)].at), id |-> LastOf(P)]

(* One page: a row more than the page holds says whether there is another. *)
TurnPage ==
  LET fetched == FirstOf(Beyond(walk.cursor), RowsFor(PageSize + 1))
      page    == FirstOf(fetched, PageSize)
      seen    == [f \in Ids |-> walk.seen[f] + (IF f \in page THEN 1 ELSE 0)]
  IN  /\ walk.stage = "walking" /\ walk.pages < MaxPages
      /\ walk' = IF Cardinality(fetched) <= PageSize
                 THEN [walk EXCEPT !.stage = "done", !.last = page, !.seen = seen]
                 ELSE [walk EXCEPT !.cursor = NextCursor(page), !.last = page,
                                   !.pages = @ + 1, !.seen = seen]
      /\ UNCHANGED <<time, upload>>

PagingNext ==
  \/ \E f \in Ids : BeginInsert(f) \/ CommitInsert(f) \/ Remove(f)
  \/ PassTime \/ StartWalk \/ TurnPage

PagingSpec == PagingInit /\ [][PagingNext]_pagingVars

-----------------------------------------------------------------------------
(* A listing that came to its end has shown every file that was there when
   it began and still is, whatever was inserted and deleted meanwhile and
   however coarse the cursor (store.ts: "pagination is keyset, not OFFSET, so
   a concurrent insert cannot make a row skip a page") -- for every limit but
   the largest, where the extra row is never fetched.                      *)
NothingIsSkipped ==
  walk.stage = "done" /\ PageSize < ListMax => \A f \in walk.had \cap Files : walk.seen[f] > 0

(* A file is shown again only when it was created in the very millisecond the
   last page ended in: the cursor is no coarser than what JavaScript can say
   (filelayer.ts, encodeCursor).                                           *)
OnlyTheLastMillisecondRepeats ==
  [][walk.stage = "walking" /\ walk' # walk =>
       \A f \in Ids : walk'.seen[f] > walk.seen[f] /\ walk.seen[f] > 0 =>
         Truncated(upload[f].at) = Truncated(upload[LastOf(walk.last)].at)]_pagingVars

(* A page without a cursor is the last one (docs/QUICKSTART.md: "opaque keyset
   cursor, or null on the last page").                                     *)
NullOnTheLastPage ==
  [][walk.stage = "walking" /\ walk'.stage = "done" =>
       walk'.last = Beyond(walk.cursor)]_pagingVars
=============================================================================
