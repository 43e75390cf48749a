----------------------------- MODULE AuditTrail -----------------------------
(***************************************************************************)
(* What is kept of one organisation's audit trail, by time.  AuditChain is *)
(* about the hashes; this module is about occurred_at, which the process   *)
(* that audits takes from its own clock before the row has an id: a row    *)
(* may be overtaken on its way.  Trims cut by id up to the last row older  *)
(* than an instant, erasures take one actor's rows, and whoever exports    *)
(* the trail reads it in half-open windows of occurred_at.                 *)
(***************************************************************************)
EXTENDS Integers, FiniteSets, FiniteSetsExt

CONSTANTS None,
          Writers,    \* calls that may be auditing together
          Actors,
          Kept,       \* values of keepLast
          MaxRows, MaxTime   \* bounds for the model checker

AuditTrailConstants ==
  /\ Kept \subseteq Nat /\ {MaxRows, MaxTime} \subseteq Nat
  /\ None \notin Actors

VARIABLES clock,
          stamped,     \* rows that have their time and not yet their id
          rows,        \* audit_event, of one organisation
          nextId,
          checkpoints, \* audit_checkpoint, kind trim: the times it covers
          erasing,     \* the erasure under way
          gone,        \* history: rows removed
          overrun,     \* history: those an erasure removed without counting them
          export,      \* whoever reads the trail window by window
          late         \* history: rows whose window had been read when they came

trailVars == <<clock, stamped, rows, nextId, checkpoints, erasing, gone, overrun, export, late>>

AuditTrailInit ==
  /\ clock = 0
  /\ stamped = [w \in Writers |-> None]
  /\ rows = {} /\ nextId = 1
  /\ checkpoints = {} /\ erasing = None
  /\ gone = {} /\ overrun = {}
  /\ export = [upTo |-> 0, seen |-> [n \in 1..MaxRows |-> 0], trimmed |-> {}]
  /\ late = {}

PassTime ==
  /\ clock < MaxTime
  /\ clock' = clock + 1
  /\ UNCHANGED <<stamped, rows, nextId, checkpoints, erasing, gone, overrun, export, late>>

(* audit: the time is the process's, taken before the row is sent. *)
Stamp(w, a) ==
  /\ stamped[w] = None
  /\ stamped' = [stamped EXCEPT ![w] = [at |-> clock, actor |-> a]]
  /\ UNCHANGED <<clock, rows, nextId, checkpoints, erasing, gone, overrun, export, late>>

(* audit_append holds the lock of the chain until its transaction commits:
   in one chain the ids are in the order of the commits.                   *)
CommitRow(w) ==
  LET row == [id |-> nextId, at |-> stamped[w].at, actor |-> stamped[w].actor]
  IN  /\ stamped[w] # None /\ nextId <= MaxRows
      /\ rows' = rows \cup {row}
      /\ nextId' = nextId + 1
      /\ stamped' = [stamped EXCEPT ![w] = None]
      /\ late' = IF row.at < export.upTo THEN late \cup {row} ELSE late
      /\ UNCHANGED <<clock, checkpoints, erasing, gone, overrun, export>>

LosesRow(w) ==
  /\ stamped[w] # None
  /\ stamped' = [stamped EXCEPT ![w] = None]
  /\ UNCHANGED <<clock, rows, nextId, checkpoints, erasing, gone, overrun, export, late>>

Times(R)   == {r.at : r \in R}
Attests(R) == [from |-> Min(Times(R)), to |-> Max(Times(R))]

(* Mutant: the edge is the first row that is young enough to stay. *)
OlderThan_Inclusive(t) ==
  LET old == {r \in rows : r.at <= t}
  IN  {r \in rows : \E o \in old : r.id <= o.id}

(* Up to the last row, by id, that occurred before t. *)
OlderThan(t) ==
  LET old == {r \in rows : r.at < t}
  IN  {r \in rows : \E o \in old : r.id <= o.id}

AllButLast(n) == {r \in rows : Cardinality({x \in rows : x.id > r.id}) >= n}

(* One removal of a chain at a time: an advisory lock the appenders do not
   take.                                                                   *)
Trims(R) ==
  /\ erasing = None
  /\ R # {}
  /\ rows' = rows \ R
  /\ checkpoints' = checkpoints \cup {Attests(R)}
  /\ gone' = gone \cup R
  /\ UNCHANGED <<clock, stamped, nextId, erasing, overrun, late>>

TrimByDate(t)  == Trims(OlderThan(t)) /\ UNCHANGED export
TrimByCount(n) == Trims(AllButLast(n)) /\ UNCHANGED export

(* The rows of an actor that follow each other in the chain are one run. *)
RunOf(D, r) ==
  {d \in D : \A x \in rows \ D : (x.id < d.id) <=> (x.id < r.id)}

EraseReads(a) ==
  LET D == {r \in rows : r.actor = a}
  IN  /\ erasing = None
      /\ D # {}
      /\ erasing' = [actor |-> a, counted |-> D,
                     attest |-> {Attests(RunOf(D, r)) : r \in D}]
      /\ UNCHANGED <<clock, stamped, rows, nextId, checkpoints, gone, overrun, export, late>>

(* The deletion is by actor, whatever has been counted. *)
EraseDeletes ==
  LET D == {r \in rows : r.actor = erasing.actor}
  IN  /\ erasing # None
      /\ rows' = rows \ D
      /\ checkpoints' = checkpoints \cup erasing.attest
      /\ gone' = gone \cup D
      /\ overrun' = overrun \cup (D \ erasing.counted)
      /\ erasing' = None
      /\ UNCHANGED <<clock, stamped, nextId, export, late>>

EraseFails ==
  /\ erasing # None
  /\ erasing' = None
  /\ UNCHANGED <<clock, stamped, rows, nextId, checkpoints, gone, overrun, export, late>>

(* Mutant: a window closed at both ends. *)
Window_Closed(since, until) == {r \in rows : since <= r.at /\ r.at <= until}

(* auditLog with since and until.  An export stays below the limit. *)
Window(since, until) == {r \in rows : since <= r.at /\ r.at < until}

(* The next window, once it is over; what an audit of the read itself adds is
   a row like others.                                                      *)
ReadWindow(until) ==
  LET W == Window(export.upTo, until)
  IN  /\ export.upTo < until /\ until <= clock
      /\ export' = [export EXCEPT !.upTo = until,
                                  !.seen = [n \in 1..MaxRows |->
                                              @[n] + (IF \E r \in W : r.id = n THEN 1 ELSE 0)]]
      /\ UNCHANGED <<clock, stamped, rows, nextId, checkpoints, erasing, gone, overrun, late>>

(* What has been exported need not be kept: trim before the same instant. *)
TrimExported ==
  LET R == OlderThan(export.upTo)
  IN  /\ Trims(R)
      /\ export' = [export EXCEPT !.trimmed = @ \cup {[row |-> r, before |-> export.upTo] : r \in R}]

Record ==
  \/ PassTime
  \/ \E w \in Writers : (\E a \in Actors : Stamp(w, a)) \/ CommitRow(w) \/ LosesRow(w)

Remove ==
  \/ \E a \in Actors : EraseReads(a)
  \/ EraseDeletes \/ EraseFails
  \/ \E n \in Kept : TrimByCount(n)

AuditTrailNext ==
  \/ Record
  \/ Remove
  \/ \E t \in 1..MaxTime : ReadWindow(t)
  \/ TrimExported

-----------------------------------------------------------------------------
(* Windows one after the other show no row twice (store.ts, AuditFilter:
   "consecutive windows tile without double-counting the row that lands
   exactly on a boundary").                                                *)
WindowsTile == \A n \in 1..MaxRows : export.seen[n] <= 1

(* Some row is behind r in the chain and older. *)
Overtook(r) == \E x \in rows \cup gone : x.id > r.id /\ x.at < r.at

(* Trimming before the end of the last window takes away no row that the
   windows did not show, but for one that got its id only after its window was
   read, and one that overtook an older row: that one is younger than the
   instant, and goes with the row it overtook (store.ts, trimAuditChain:
   "`before' trims everything that happened before an instant").           *)
NothingGoesUnread ==
  \A t \in export.trimmed :
    export.seen[t.row.id] > 0 \/ t.row \in late \/ (t.row.at >= t.before /\ Overtook(t.row))
=============================================================================
