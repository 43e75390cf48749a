----------------------------- MODULE FileStore -----------------------------
(***************************************************************************)
(* A file is a row of the table file and an object in a bucket, and no     *)
(* transaction covers both.  This module is every operation of             *)
(* filelayer.ts that writes either: upload, createUpload and the PUT the   *)
(* client makes with it, completeUpload, delete, and the two collectors.   *)
(*                                                                         *)
(* A session runs one call at a time, step by step: a step is a            *)
(* transaction, a call to the store, or the part of a transaction between  *)
(* two locks.  A crash ends the call where it is.  The caller is one who   *)
(* may do what it asks (Standing is about who that is); what the file's    *)
(* lifecycle refuses is modelled.  A key is used for one file: it is a     *)
(* random UUID.                                                            *)
(***************************************************************************)
EXTENDS Authz, FiniteSets

CONSTANTS Sessions,          \* calls that may be in flight together
          Keys,              \* the storage keys, in the order list() has them
          Inputs,            \* [expires, retain]: seconds from now, or None
          Ttl,               \* directUpload.ttlSeconds
          OrphanGrace,       \* olderThanSeconds
          ReservationGrace,  \* graceSeconds
          Limit,             \* limit of collectStorageOrphans
          Fits,              \* is the size as declared?  {TRUE} for a store
                             \* that holds a PUT to its signed length
          Stall,             \* assumed: upload's transaction commits by then
          MaxCrashes, MaxClock   \* bounds for the model checker

Row == [state : FileState, expires : Nat \cup {None}, retain : Nat \cup {None},
        due : Nat \cup {None}]
Object == [at : Nat, fits : BOOLEAN]

ASSUME FileStoreAssumption ==
  /\ Keys \subseteq Nat
  /\ \A in \in Inputs : /\ in.expires \in Nat \cup {None}
                        /\ in.retain \in Nat \cup {None}
                        /\ (in.expires # None /\ in.retain # None
                              => in.retain <= in.expires)
  /\ {Ttl, OrphanGrace, ReservationGrace, Limit} \subseteq Nat \ {0}
  /\ Fits \subseteq BOOLEAN
  /\ Stall \in Nat /\ Stall < OrphanGrace
  /\ {MaxCrashes, MaxClock} \subseteq Nat
  /\ None \notin Sessions \cup Row \cup Object

VARIABLES used,      \* keys given to a file so far
          file,      \* the table file, by storage key
          object,    \* the bucket: when an object was written, and its size
          url,       \* until when a presigned PUT is accepted
          arriving,  \* PUTs accepted and not yet written
          chain,     \* who holds the lock of the organisation's audit chain
          rowLock,   \* who holds the lock of a row
          session,   \* calls in flight
          clock,
          crashes    \* how often a process died: a bound

tables == <<used, file>>
bucket == <<object, url, arriving>>
locks  == <<chain, rowLock>>
bounds == <<clock, crashes>>
vars   == <<tables, bucket, locks, session, bounds>>

Idle == [op |-> "idle"]

Init ==
  /\ used = {}
  /\ file = [k \in Keys |-> None]
  /\ object = [k \in Keys |-> None]
  /\ url = [k \in Keys |-> None]
  /\ arriving = {}
  /\ chain = None
  /\ rowLock = [k \in Keys |-> None]
  /\ session = [s \in Sessions |-> Idle]
  /\ clock = 0
  /\ crashes = 0

Ends(s)       == session' = [session EXCEPT ![s] = Idle]
Becomes(s, r) == session' = [session EXCEPT ![s] = r]

(* A fresh key. *)
Mints(k) == k \notin used /\ used' = used \cup {k}

After(seconds) == IF seconds = None THEN None ELSE clock + seconds

NewRow(in, state, due) ==
  [state |-> state, expires |-> After(in.expires), retain |-> After(in.retain), due |-> due]

(* An object written from here on is still old enough to be collected
   before the clock stops.                                                 *)
InTime == clock + OrphanGrace <= MaxClock

Written(k, fits) == object' = [object EXCEPT ![k] = [at |-> clock, fits |-> fits]]
Erased(k)        == object' = [object EXCEPT ![k] = None]

-----------------------------------------------------------------------------
(* upload: bytes first, then the row. *)

BeginUpload(s, k, in) ==
  /\ Mints(k)
  /\ Becomes(s, [op |-> "put", key |-> k, row |-> NewRow(in, "ready", None)])
  /\ UNCHANGED <<file, bucket, locks, bounds>>

Put(s) ==
  /\ session[s].op = "put"
  /\ InTime
  /\ Written(session[s].key, TRUE)
  /\ Becomes(s, [session[s] EXCEPT !.op = "insert"])
  /\ UNCHANGED <<tables, url, arriving, locks, bounds>>

PutFails(s) ==
  /\ session[s].op = "put"
  /\ Ends(s)
  /\ UNCHANGED <<tables, bucket, locks, bounds>>

(* The put threw half-way or stored more than the cap: the object is
   removed, and a failure to remove it is swallowed.                       *)
Discard(s) ==
  /\ session[s].op = "insert"
  /\ Erased(session[s].key) \/ UNCHANGED object
  /\ Ends(s)
  /\ UNCHANGED <<tables, url, arriving, locks, bounds>>

Insert(s) ==
  /\ session[s].op = "insert"
  /\ chain = None
  /\ file' = [file EXCEPT ![session[s].key] = session[s].row]
  /\ Ends(s)
  /\ UNCHANGED <<used, bucket, locks, bounds>>

-----------------------------------------------------------------------------
(* createUpload, and what the holder of the URL does with it. *)

Reserve(s, k, in) ==
  /\ Mints(k)
  /\ chain = None
  /\ file' = [file EXCEPT ![k] = NewRow(in, "pending", clock + Ttl)]
  /\ Becomes(s, [op |-> "presign", key |-> k])
  /\ UNCHANGED <<bucket, locks, bounds>>

(* The URL starts to run when it is signed, after the row's own deadline
   was set.                                                                *)
Presign(s) ==
  /\ session[s].op = "presign"
  /\ url' = [url EXCEPT ![session[s].key] = clock + Ttl]
  /\ Ends(s)
  /\ UNCHANGED <<tables, object, arriving, locks, bounds>>

(* The store checks the signature when a PUT starts; the object is there
   when it ends, which may be long after.  A URL can be used again.        *)
StartPut(k) ==
  /\ url[k] # None /\ clock < url[k]
  /\ k \notin arriving
  /\ arriving' = arriving \cup {k}
  /\ UNCHANGED <<tables, object, url, locks, bounds, session>>

FinishPut(k) ==
  /\ k \in arriving
  /\ InTime
  /\ \E fits \in Fits : Written(k, fits)
  /\ arriving' = arriving \ {k}
  /\ UNCHANGED <<tables, url, locks, bounds, session>>

-----------------------------------------------------------------------------
(* completeUpload.  A file that is ready already is answered as it is, which
   changes nothing.                                                        *)

BeginComplete(s, k) ==
  /\ file[k] # None
  /\ LifecycleDenial(file[k], "write", clock) = None
  /\ file[k].state = "pending"
  /\ Becomes(s, [op |-> "head", key |-> k])
  /\ UNCHANGED <<tables, bucket, locks, bounds>>

HeadObject(s) ==
  LET k == session[s].key IN
  /\ session[s].op = "head"
  /\ IF object[k] = None THEN Ends(s)
     ELSE Becomes(s, [op |-> "claim", key |-> k, fits |-> object[k].fits])
  /\ UNCHANGED <<tables, bucket, locks, bounds>>

Expired(row) == row # None /\ row.due # None /\ row.due <= clock

RefuseClaim(s) ==
  LET k == session[s].key IN
  /\ session[s].op = "claim"
  /\ \/ Expired(file[k])
     \/ file[k] # None /\ ~session[s].fits /\ chain = None
  /\ Ends(s)
  /\ UNCHANGED <<tables, bucket, locks, bounds>>

Claim(s) ==
  LET k == session[s].key IN
  /\ session[s].op = "claim"
  /\ ~Expired(file[k])
  /\ file[k] # None => session[s].fits
  /\ Becomes(s, [op |-> "update", key |-> k])
  /\ UNCHANGED <<tables, bucket, locks, bounds>>

(* Mutant: the UPDATE is by id alone. *)
Update_ById(s) ==
  LET k == session[s].key IN
  /\ session[s].op = "update"
  /\ rowLock[k] = None
  /\ IF file[k] # None
     THEN /\ rowLock' = [rowLock EXCEPT ![k] = s]
          /\ Becomes(s, [op |-> "confirm", key |-> k])
     ELSE /\ UNCHANGED rowLock
          /\ Ends(s)
  /\ UNCHANGED <<tables, bucket, chain, bounds>>

(* UPDATE ... WHERE state = 'pending', which waits for the row and then looks
   at it again.  No row: whatever is there now is the answer.              *)
Update(s) ==
  LET k == session[s].key IN
  /\ session[s].op = "update"
  /\ rowLock[k] = None
  /\ IF file[k] # None /\ file[k].state = "pending"
     THEN /\ rowLock' = [rowLock EXCEPT ![k] = s]
          /\ Becomes(s, [op |-> "confirm", key |-> k])
     ELSE /\ UNCHANGED rowLock
          /\ Ends(s)
  /\ UNCHANGED <<tables, bucket, chain, bounds>>

Confirm(s) ==
  LET k == session[s].key IN
  /\ session[s].op = "confirm"
  /\ chain = None
  /\ file' = [file EXCEPT ![k].state = "ready"]
  /\ rowLock' = [rowLock EXCEPT ![k] = None]
  /\ Ends(s)
  /\ UNCHANGED <<used, bucket, chain, bounds>>

-----------------------------------------------------------------------------
(* delete: the row in a transaction, then the object. *)

BeginDelete(s, k) ==
  /\ file[k] # None
  /\ LifecycleDenial(file[k], "delete", clock) = None
  /\ Becomes(s, [op |-> "delete", key |-> k])
  /\ UNCHANGED <<tables, bucket, locks, bounds>>

(* Mutant: the lock ends with the statement, as under autocommit. *)
AuditDelete_Autocommit(s) ==
  LET k == session[s].key IN
  /\ session[s].op = "delete"
  /\ chain = None
  /\ IF file[k] = None THEN Ends(s) ELSE Becomes(s, [op |-> "mark", key |-> k])
  /\ UNCHANGED <<tables, bucket, locks, bounds>>

(* The decision is audited, which takes the chain; a row collected by now
   is not found.                                                           *)
AuditDelete(s) ==
  LET k == session[s].key IN
  /\ session[s].op = "delete"
  /\ chain = None
  /\ IF file[k] = None THEN Ends(s) /\ UNCHANGED chain
     ELSE /\ chain' = s
          /\ Becomes(s, [op |-> "mark", key |-> k])
  /\ UNCHANGED <<tables, bucket, rowLock, bounds>>

Mark(s) ==
  LET k == session[s].key IN
  /\ session[s].op = "mark"
  /\ rowLock[k] = None
  /\ file' = IF file[k] = None THEN file ELSE [file EXCEPT ![k].state = "deleted"]
  /\ chain' = None
  /\ Becomes(s, [op |-> "remove", key |-> k])
  /\ UNCHANGED <<used, bucket, rowLock, bounds>>

(* It may throw: the row says deleted and the object stays. *)
RemoveBytes(s) ==
  /\ session[s].op = "remove"
  /\ Erased(session[s].key) \/ UNCHANGED object
  /\ Ends(s)
  /\ UNCHANGED <<tables, url, arriving, locks, bounds>>

-----------------------------------------------------------------------------
(* collectUploadReservations. *)

Abandoned(row, cutoff) ==
  row # None /\ row.state = "pending" /\ row.due # None /\ row.due < cutoff

BeginReap(s) ==
  LET cutoff == clock - ReservationGrace
      todo   == {k \in Keys : Abandoned(file[k], cutoff)}
  IN  /\ todo # {}
      /\ Becomes(s, [op |-> "reap", cutoff |-> cutoff, todo |-> todo])
      /\ UNCHANGED <<tables, bucket, locks, bounds>>

Passed(s, k) == IF session[s].todo = {k} THEN Idle
               ELSE [op |-> "reap", cutoff |-> session[s].cutoff, todo |-> session[s].todo \ {k}]

(* Mutant: the DELETE does not look at the row again. *)
ReapRow_Unchecked(s, k) ==
  /\ session[s].op = "reap" /\ k \in session[s].todo
  /\ rowLock[k] = None
  /\ rowLock' = [rowLock EXCEPT ![k] = s]
  /\ Becomes(s, [op |-> "reaped", key |-> k, then |-> Passed(s, k)])
  /\ UNCHANGED <<tables, bucket, chain, bounds>>

ReapRow(s, k) ==
  /\ session[s].op = "reap" /\ k \in session[s].todo
  /\ rowLock[k] = None
  /\ IF Abandoned(file[k], session[s].cutoff)
     THEN /\ rowLock' = [rowLock EXCEPT ![k] = s]
          /\ Becomes(s, [op |-> "reaped", key |-> k, then |-> Passed(s, k)])
     ELSE /\ UNCHANGED rowLock
          /\ Becomes(s, Passed(s, k))
  /\ UNCHANGED <<tables, bucket, chain, bounds>>

CommitReap(s) ==
  LET k == session[s].key IN
  /\ session[s].op = "reaped"
  /\ chain = None
  /\ file' = [file EXCEPT ![k] = None]
  /\ rowLock' = [rowLock EXCEPT ![k] = None]
  /\ Becomes(s, [session[s] EXCEPT !.op = "unlink"])
  /\ UNCHANGED <<used, bucket, chain, bounds>>

(* A failure is swallowed. *)
Unlink(s) ==
  /\ session[s].op = "unlink"
  /\ Erased(session[s].key) \/ UNCHANGED object
  /\ Becomes(s, session[s].then)
  /\ UNCHANGED <<tables, url, arriving, locks, bounds>>

-----------------------------------------------------------------------------
(* collectStorageOrphans.  What list() said of an object is not asked again
   when it is destroyed.                                                   *)

(* Mutant: no grace period. *)
Old_NoGrace(k) == object[k] # None /\ object[k].at <= clock

Old(k) == object[k] # None /\ object[k].at <= clock - OrphanGrace

(* Mutants: any row shields; only a ready one does. *)
Shielded_ByAnyRow(k) == file[k] # None
Shielded_ByReady(k) == file[k] # None /\ file[k].state = "ready"

Shielded(k) ==
  /\ file[k] # None
  /\ file[k].state = "deleted" => file[k].retain # None /\ file[k].retain > clock

BeginSweep(s) ==
  /\ session[s] = Idle
  /\ \E k \in Keys : Old(k)
  /\ Becomes(s, [op |-> "scan", orphans |-> {}, todo |-> {k \in Keys : Old(k)}])
  /\ UNCHANGED <<tables, bucket, locks, bounds>>

(* The next of them in the order of the listing. *)
First(k, S) == k \in S /\ \A j \in S : k <= j

Examine(s) ==
  /\ session[s].op = "scan"
  /\ \E k \in Keys :
       LET orphans == session[s].orphans \cup (IF Shielded(k) THEN {} ELSE {k})
           todo    == session[s].todo \ {k}
           over    == todo = {} \/ Cardinality(orphans) >= Limit
       IN  /\ First(k, session[s].todo)
           /\ Becomes(s, IF ~over THEN [op |-> "scan", orphans |-> orphans, todo |-> todo]
                         ELSE IF orphans # {} THEN [op |-> "destroy", orphans |-> orphans]
                         ELSE Idle)
  /\ UNCHANGED <<tables, bucket, locks, bounds>>

Destroy(s) ==
  /\ session[s].op = "destroy"
  /\ \E k \in Keys :
       /\ First(k, session[s].orphans)
       /\ Erased(k)
       /\ IF session[s].orphans = {k} THEN Ends(s)
          ELSE Becomes(s, [op |-> "destroy", orphans |-> session[s].orphans \ {k}])
  /\ UNCHANGED <<tables, url, arriving, locks, bounds>>

(* The loop stops at the first object the store does not delete. *)
DestroyFails(s) ==
  /\ session[s].op = "destroy"
  /\ Ends(s)
  /\ UNCHANGED <<tables, bucket, locks, bounds>>

-----------------------------------------------------------------------------
(* Everything that may happen to a call from outside, and time. *)

Released(s) ==
  /\ Ends(s)
  /\ chain' = IF chain = s THEN None ELSE chain
  /\ rowLock' = [k \in Keys |-> IF rowLock[k] = s THEN None ELSE rowLock[k]]
  /\ UNCHANGED <<tables, bucket, clock>>

(* The process dies; the database rolls back what it had not committed. *)
Crash(s) ==
  /\ session[s] # Idle
  /\ crashes < MaxCrashes
  /\ crashes' = crashes + 1
  /\ Released(s)

(* One waits for the chain with the row, the other for the row with the
   chain: PostgreSQL aborts either, and nothing retries it.                *)
Deadlocked(s, t) ==
  /\ session[s].op \in {"confirm", "reaped"} /\ chain = t
  /\ session[t].op = "mark" /\ rowLock[session[t].key] = s

Victim(s) ==
  /\ \E t \in Sessions : Deadlocked(s, t) \/ Deadlocked(t, s)
  /\ Released(s)
  /\ UNCHANGED crashes

Tick ==
  /\ clock < MaxClock
  /\ \A s \in Sessions : session[s].op = "insert" =>
        clock < object[session[s].key].at + Stall
  /\ clock' = clock + 1
  /\ UNCHANGED <<tables, bucket, locks, crashes, session>>

Begin(s) ==
  /\ session[s] = Idle
  /\ \/ \E k \in Keys : BeginComplete(s, k) \/ BeginDelete(s, k)
     \/ \E k \in Keys, in \in Inputs : BeginUpload(s, k, in) \/ Reserve(s, k, in)
     \/ BeginReap(s)

Work(s) ==
  \/ Put(s) \/ PutFails(s) \/ Discard(s) \/ Insert(s) \/ Presign(s)
  \/ HeadObject(s) \/ RefuseClaim(s) \/ Claim(s) \/ Update(s) \/ Confirm(s)
  \/ AuditDelete(s) \/ Mark(s) \/ RemoveBytes(s)
  \/ \E k \in Keys : ReapRow(s, k)
  \/ CommitReap(s) \/ Unlink(s)
  \/ Examine(s) \/ Destroy(s) \/ DestroyFails(s)
  \/ Victim(s)

Next ==
  \/ \E s \in Sessions : Begin(s) \/ BeginSweep(s) \/ Work(s) \/ Crash(s)
  \/ \E k \in Keys : StartPut(k) \/ FinishPut(k)
  \/ Tick

Spec == Init /\ [][Next]_vars

(* Calls run on; the sweep is started again and again; an object the store
   failed to delete is deleted in the end if it is tried often enough.     *)
Fairness ==
  /\ WF_vars(Tick)
  /\ \A s \in Sessions : /\ WF_vars(Work(s))
                         /\ SF_vars(BeginSweep(s))
                         /\ SF_vars(Destroy(s))

FairSpec == Spec /\ Fairness

-----------------------------------------------------------------------------
(* Properties. *)

Reaping == [op : {"reap"}, cutoff : Int, todo : (SUBSET Keys) \ {{}}]

Call ==
  {Idle} \cup Reaping
  \cup [op : {"put", "insert"}, key : Keys, row : Row]
  \cup [op : {"presign", "head", "update", "confirm", "delete", "mark", "remove"}, key : Keys]
  \cup [op : {"claim"}, key : Keys, fits : BOOLEAN]
  \cup [op : {"reaped", "unlink"}, key : Keys, then : Reaping \cup {Idle}]
  \cup [op : {"scan"}, orphans : SUBSET Keys, todo : (SUBSET Keys) \ {{}}]
  \cup [op : {"destroy"}, orphans : (SUBSET Keys) \ {{}}]

(* Types, and the locks belong to the calls that took them: a row is held
   by a completion or a collection of it, the chain by a deletion.         *)
TypeOK ==
  /\ used \subseteq Keys
  /\ file \in [Keys -> Row \cup {None}]
  /\ object \in [Keys -> Object \cup {None}]
  /\ url \in [Keys -> Nat \cup {None}]
  /\ arriving \subseteq Keys
  /\ session \in [Sessions -> Call]
  /\ clock \in Nat /\ crashes \in Nat
  /\ chain \in Sessions \cup {None}
  /\ rowLock \in [Keys -> Sessions \cup {None}]
  /\ \A s \in Sessions : chain = s <=> session[s].op = "mark"
  /\ \A s \in Sessions, k \in Keys :
        rowLock[k] = s <=> session[s].op \in {"confirm", "reaped"} /\ session[s].key = k

(* A file that is ready has its bytes: upload writes them first, a completion
   saw them, and no deletion or collector takes them while the row stands. *)
ReadyHasBytes ==
  \A k \in Keys : file[k] # None /\ file[k].state = "ready" => object[k] # None

(* state = 'deleted' is terminal: a completion that was under way when the
   file was deleted does not bring it back.                                *)
DeletedIsFinal ==
  [][\A k \in Keys : file[k] # None /\ file[k].state = "deleted" =>
        file'[k] = file[k]]_vars

(* The only row that disappears is a reservation nobody completed, and not
   one whose completion went through in the meantime.                      *)
OnlyReservationsDisappear ==
  [][\A k \in Keys : file[k] # None /\ file'[k] = None =>
        file[k].state = "pending" /\ file[k].due < clock]_vars

(* A row has one end, and that is the end of it: no completion, deletion or
   collection that was under way when it came takes it back or comes to
   another one (filelayer.ts, completeUpload, delete,
   #collectUploadReservationsInner).                                       *)
RowsEndOnce == DeletedIsFinal /\ OnlyReservationsDisappear

Wanted(k) ==
  /\ file[k] # None
  /\ \/ file[k].state # "deleted"
     \/ file[k].retain # None /\ file[k].retain > clock

(* Bytes are removed only when no row wants them: not those of a ready file,
   not those that arrived for an open reservation, and not those of a file
   under a retention hold, whichever of the five places that remove bytes
   does it, and however long ago it decided to.                            *)
OnlyGarbageIsRemoved ==
  [][\A k \in Keys : object[k] # None /\ object'[k] = None => ~Wanted(k)]_vars

(* A file, whatever calls are in flight: what its row says; without a row it is
   new until the upload that has its key ends, and gone from then on.      *)
OnItsWay(k) ==
  \E s \in Sessions : session[s].op \in {"put", "insert"} /\ session[s].key = k

Stage(k) == IF file[k] # None THEN file[k].state
            ELSE IF k \notin used \/ OnItsWay(k) THEN "new" ELSE "gone"

(* All of it -- five places that remove bytes, two that make a file ready,
   locks, grace periods and crashes -- implements the life of a file: each
   call in flight takes effect in one step or not at all, in an order that
   leaves no ready file without bytes and undoes no end (FileLife).         *)
Life == INSTANCE FileLife WITH
  Files <- Keys,
  life  <- [k \in Keys |->
              [stage  |-> Stage(k),
               retain |-> IF file[k] = None THEN None ELSE file[k].retain,
               due    |-> IF file[k] = None THEN None ELSE file[k].due]],
  bytes <- [k \in Keys |-> object[k] # None],
  now   <- clock

ImplementsLife == Life!Spec

(* Bytes nothing refers to go away in the end: what a crash, a failed delete,
   or a PUT that came too late left behind.                                *)
Orphan(k) == object[k] # None /\ ~Wanted(k)
OrphansAreCollected == \A k \in Keys : Orphan(k) ~> ~Orphan(k)

(* SEMANTICS.md: the audit chain lock is always taken before any row lock.
   Whoever holds a row holds the chain.                                    *)
ChainBeforeRow ==
  \A k \in Keys : rowLock[k] # None => chain = rowLock[k]
=============================================================================
