-------------------------- MODULE FileStore_proofs --------------------------
(***************************************************************************)
(* Proofs about FileStore: rows, objects, locks and calls keep their       *)
(* shape, a file that is ready has its bytes, a row has one end, and       *)
(* nobody removes bytes that a row wants -- for any number of calls and    *)
(* keys, with crashes at any step.                                         *)
(***************************************************************************)
EXTENDS FileStore, TLAPS

Uploading(s) == session[s].op \in {"put", "insert"}

(* The key has been given to a file and no upload is on its way to it.  Once
   that is so it stays so: a key is minted once.                            *)
Settled(k) == k \in used /\ \A s \in Sessions : Uploading(s) => session[s].key # k

Pending(k) == file[k] # None /\ file[k].state = "pending"

(* Nobody will want the object of this key again. *)
Doomed(k) == Settled(k) /\ ~Wanted(k)

(* An upload has its key to itself; its object is younger than the assumed
   bound of its transaction.                                                *)
UploadsAreAlone ==
  \A s \in Sessions : Uploading(s) =>
    LET k == session[s].key
    IN  /\ k \in used /\ file[k] = None /\ url[k] = None /\ k \notin arriving
        /\ \A t \in Sessions \ {s} : Uploading(t) => session[t].key # k
        /\ session[s].op = "put" => object[k] = None
        /\ session[s].op = "insert" => object[k] # None /\ clock <= object[k].at + Stall
        /\ session[s].row.state = "ready"

(* Whatever else there is of a key, is of a settled one. *)
KeysAreKnown ==
  \A k \in Keys :
    /\ file[k] # None \/ url[k] # None \/ k \in arriving => Settled(k)
    /\ object[k] # None => k \in used

(* What a call has found out and nothing can have changed since. *)
Reaps(c) == c.op = "reap" => c.cutoff <= clock /\ \A k \in c.todo : Settled(k)

Established(s) ==
  LET c == session[s]
  IN  /\ c.op \in {"presign", "head", "claim", "update", "confirm", "delete", "mark", "remove",
                   "reaped", "unlink"} => Settled(c.key)
      /\ c.op \in {"claim", "update", "confirm"} /\ Pending(c.key) => object[c.key] # None
      /\ c.op \in {"confirm", "reaped"} => Pending(c.key)
      /\ c.op = "reaped" => file[c.key].due # None /\ file[c.key].due < clock
      /\ c.op \in {"delete", "mark"} /\ file[c.key] # None =>
           file[c.key].retain = None \/ file[c.key].retain <= clock
      /\ c.op \in {"remove", "unlink"} => Doomed(c.key)
      /\ c.op = "unlink" => file[c.key] = None
      /\ Reaps(c)
      /\ c.op \in {"reaped", "unlink"} => Reaps(c.then)
      /\ c.op = "scan" => \A k \in c.todo : Settled(k)
      /\ c.op \in {"scan", "destroy"} => \A k \in c.orphans : Doomed(k)

IInv ==
  /\ TypeOK
  /\ ReadyHasBytes
  /\ UploadsAreAlone
  /\ KeysAreKnown
  /\ \A s \in Sessions : Established(s)

-----------------------------------------------------------------------------
LEMMA Parameters ==
  /\ Stall \in Nat /\ Ttl \in Nat /\ OrphanGrace \in Nat /\ ReservationGrace \in Nat
  /\ Stall < OrphanGrace /\ ReservationGrace > 0
  /\ \A s \in Sessions : s # None
  /\ \A r \in Row : r # None
  /\ \A o \in Object : o # None
BY FileStoreAssumption

-----------------------------------------------------------------------------
(* The calls by what they are at, and what a step makes of them. *)

LEMMA Shapes ==
  ASSUME NEW c \in Call
  PROVE  /\ c.op \in {"put", "insert"} => c.key \in Keys /\ c.row \in Row
         /\ c.op \in {"presign", "head", "claim", "update", "confirm", "delete", "mark",
                     "remove", "reaped", "unlink"} => c.key \in Keys
         /\ c.op = "claim" => c.fits \in BOOLEAN
         /\ c.op = "reap" => c \in Reaping
         /\ c.op \in {"reaped", "unlink"} => c.then \in Reaping \cup {Idle}
         /\ c.op = "scan" => c.orphans \subseteq Keys /\ c.todo \subseteq Keys
         /\ c.op = "destroy" => c.orphans \subseteq Keys
BY DEF Call, Reaping, Idle

LEMMA BecomesCall ==
  ASSUME TypeOK, NEW s \in Sessions, NEW r \in Call, Becomes(s, r)
  PROVE  /\ session' \in [Sessions -> Call]
         /\ session'[s] = r
         /\ \A t \in Sessions \ {s} : session'[t] = session[t]
BY DEF TypeOK, Becomes

LEMMA EndsCall ==
  ASSUME TypeOK, NEW s \in Sessions, Ends(s)
  PROVE  /\ session' \in [Sessions -> Call]
         /\ session'[s] = Idle
         /\ \A t \in Sessions \ {s} : session'[t] = session[t]
BY DEF TypeOK, Ends, Call

LEMMA RowUpdate ==
  ASSUME NEW r \in Row, NEW st \in FileState
  PROVE  LET n == [r EXCEPT !.state = st]
         IN  /\ n \in Row /\ n.state = st
             /\ n.expires = r.expires /\ n.retain = r.retain /\ n.due = r.due
             /\ r.state = st => n = r
BY DEF Row

LEMMA NewRowIsRow ==
  ASSUME TypeOK, NEW in \in Inputs, NEW st \in FileState, NEW due \in Nat \cup {None}
  PROVE  NewRow(in, st, due) \in Row
BY FileStoreAssumption DEF TypeOK, NewRow, After, Row

-----------------------------------------------------------------------------
(* Which actions write which variable. *)

LEMMA WhoWritesRows ==
  ASSUME Next, file' # file
  PROVE  \E s \in Sessions :
           \/ Insert(s) \/ Confirm(s) \/ Mark(s) \/ CommitReap(s)
           \/ session[s] = Idle /\ \E k \in Keys, in \in Inputs : Reserve(s, k, in)
<1>1. ASSUME NEW s \in Sessions, Begin(s)
      PROVE  session[s] = Idle /\ \E k \in Keys, in \in Inputs : Reserve(s, k, in)
  BY <1>1 DEF Begin, BeginComplete, BeginDelete, BeginUpload, BeginReap, tables
<1>2. ASSUME NEW s \in Sessions, Work(s)
      PROVE  Insert(s) \/ Confirm(s) \/ Mark(s) \/ CommitReap(s)
  BY <1>2 DEF Work, Put, PutFails, Discard, Presign, HeadObject, RefuseClaim, Claim, Update,
              AuditDelete, RemoveBytes, ReapRow, Unlink, Examine, Destroy, DestroyFails,
              Victim, Released, tables
<1>3. ASSUME NEW s \in Sessions, BeginSweep(s) \/ Crash(s)
      PROVE  FALSE
  BY <1>3 DEF BeginSweep, Crash, Released, tables
<1>4. ASSUME Tick \/ \E k \in Keys : StartPut(k) \/ FinishPut(k)
      PROVE  FALSE
  BY <1>4 DEF Tick, StartPut, FinishPut, tables
<1> QED
  BY <1>1, <1>2, <1>3, <1>4 DEF Next

LEMMA WhoWritesObjects ==
  ASSUME Next, object' # object
  PROVE  \/ \E s \in Sessions : Put(s) \/ Discard(s) \/ RemoveBytes(s) \/ Unlink(s) \/ Destroy(s)
         \/ \E k \in Keys : FinishPut(k)
<1>1. ASSUME NEW s \in Sessions, Begin(s)
      PROVE  FALSE
  BY <1>1 DEF Begin, BeginComplete, BeginDelete, BeginUpload, BeginReap, Reserve, bucket
<1>2. ASSUME NEW s \in Sessions, Work(s)
      PROVE  Put(s) \/ Discard(s) \/ RemoveBytes(s) \/ Unlink(s) \/ Destroy(s)
  BY <1>2 DEF Work, PutFails, Insert, Presign, HeadObject, RefuseClaim, Claim, Update, Confirm,
              AuditDelete, Mark, ReapRow, CommitReap, Examine, DestroyFails,
              Victim, Released, bucket
<1>3. ASSUME NEW s \in Sessions, BeginSweep(s) \/ Crash(s)
      PROVE  FALSE
  BY <1>3 DEF BeginSweep, Crash, Released, bucket
<1>4. ASSUME Tick \/ \E k \in Keys : StartPut(k)
      PROVE  FALSE
  BY <1>4 DEF Tick, StartPut, bucket
<1> QED
  BY <1>1, <1>2, <1>3, <1>4 DEF Next

LEMMA WhoWritesTheRest ==
  ASSUME Next
  PROVE  /\ url' = url \/ \E s \in Sessions : Presign(s)
         /\ arriving' = arriving \/ \E k \in Keys : StartPut(k) \/ FinishPut(k)
         /\ crashes' \in {crashes, crashes + 1}
         /\ clock' = clock \/ Tick
<1> DEFINE Goal == /\ url' = url \/ \E s \in Sessions : Presign(s)
                   /\ arriving' = arriving \/ \E k \in Keys : StartPut(k) \/ FinishPut(k)
                   /\ crashes' \in {crashes, crashes + 1}
                   /\ clock' = clock \/ Tick
<1> USE DEF bucket, bounds
<1>1. ASSUME NEW s \in Sessions, Begin(s) \/ BeginSweep(s) \/ Crash(s)
      PROVE  Goal
  BY <1>1 DEF Begin, BeginComplete, BeginDelete, BeginUpload, BeginReap, Reserve, BeginSweep,
              Crash, Released
<1>2. ASSUME NEW s \in Sessions, Work(s)
      PROVE  Goal
  BY <1>2 DEF Work, Put, PutFails, Discard, Insert, Presign, HeadObject, RefuseClaim, Claim, Update,
              Confirm, AuditDelete, Mark, RemoveBytes, ReapRow, CommitReap, Unlink, Examine,
              Destroy, DestroyFails, Victim, Released
<1>3. ASSUME Tick \/ \E k \in Keys : StartPut(k) \/ FinishPut(k)
      PROVE  Goal
  BY <1>3 DEF Tick, StartPut, FinishPut
<1> QED
  BY <1>1, <1>2, <1>3 DEF Next

(* Time and the keys given out only grow; an upload is one that was there,
   or that has just written its object, or that has just begun.            *)
LEMMA WhoUploads ==
  ASSUME TypeOK, Next
  PROVE  /\ used \subseteq used' /\ used' \subseteq Keys
         /\ clock <= clock' /\ clock' \in Nat
         /\ \A t \in Sessions : Uploading(t)' =>
               \/ session'[t] = session[t]
               \/ Put(t)
               \/ \E k \in Keys, in \in Inputs : BeginUpload(t, k, in)
<1> DEFINE Good == /\ used \subseteq used' /\ used' \subseteq Keys
                   /\ clock <= clock' /\ clock' \in Nat
                   /\ \A t \in Sessions : Uploading(t)' =>
                         \/ session'[t] = session[t]
                         \/ Put(t)
                         \/ \E k \in Keys, in \in Inputs : BeginUpload(t, k, in)
           Same == used' = used /\ clock' = clock
<1>1. ASSUME NEW s \in Sessions, NEW r, Becomes(s, r), Same, r.op \notin {"put", "insert"}
      PROVE  Good
  BY <1>1 DEF Uploading, Becomes, TypeOK
<1>2. ASSUME NEW s \in Sessions, Ends(s), Same
      PROVE  Good
  BY <1>1, <1>2 DEF Ends, Becomes, Idle
<1>3. ASSUME session' = session, used' = used, clock' \in {clock, clock + 1}
      PROVE  Good
  BY <1>3 DEF Uploading, TypeOK
<1> USE DEF tables, bounds
<1>4. ASSUME NEW s \in Sessions, NEW k \in Keys, NEW in \in Inputs, BeginUpload(s, k, in)
      PROVE  Good
  <2>1. used \subseteq used' /\ used' \subseteq Keys /\ clock <= clock' /\ clock' \in Nat
    BY <1>4 DEF BeginUpload, Mints, TypeOK
  <2>2. \A t \in Sessions \ {s} : session'[t] = session[t]
    BY <1>4 DEF BeginUpload, Becomes, TypeOK
  <2> QED
    BY <1>4, <2>1, <2>2
<1>5. ASSUME NEW s \in Sessions, NEW k \in Keys, NEW in \in Inputs, Reserve(s, k, in)
      PROVE  Good
  BY <1>5 DEF Reserve, Uploading, Becomes, Mints, TypeOK
<1>6. ASSUME NEW s \in Sessions, Put(s)
      PROVE  Good
  <2>1. used \subseteq used' /\ used' \subseteq Keys /\ clock <= clock' /\ clock' \in Nat
    BY <1>6 DEF Put, TypeOK
  <2>2. \A t \in Sessions \ {s} : session'[t] = session[t]
    BY <1>6 DEF Put, Becomes, TypeOK
  <2> QED
    BY <1>6, <2>1, <2>2
<1>7. ASSUME NEW s \in Sessions, Unlink(s)
      PROVE  Good
  <2>1. session[s] \in Call /\ session[s].then \in Reaping \cup {Idle}
    BY <1>7, Shapes DEF TypeOK, Unlink
  <2> QED
    BY <1>1, <1>7, <2>1 DEF Unlink, Reaping, Idle
<1>8. ASSUME NEW s \in Sessions, CommitReap(s)
      PROVE  Good
  <2>1. session[s] \in Call
    BY DEF TypeOK
  <2> QED
    BY <1>1, <1>8, <2>1 DEF CommitReap, Call, Reaping, Idle
<1>9. ASSUME NEW s \in Sessions,
             \/ \E k \in Keys : BeginComplete(s, k) \/ BeginDelete(s, k)
             \/ BeginReap(s) \/ BeginSweep(s)
      PROVE  Good
  BY <1>1, <1>9 DEF BeginComplete, BeginDelete, BeginReap, BeginSweep
<1>10. ASSUME NEW s \in Sessions,
              \/ PutFails(s) \/ Discard(s) \/ Insert(s) \/ Presign(s) \/ RefuseClaim(s)
              \/ Confirm(s) \/ RemoveBytes(s) \/ DestroyFails(s) \/ Crash(s) \/ Victim(s)
       PROVE  Good
  BY <1>2, <1>10 DEF PutFails, Discard, Insert, Presign, RefuseClaim, Confirm, RemoveBytes,
                     DestroyFails, Crash, Victim, Released
<1>11. ASSUME NEW s \in Sessions, HeadObject(s) \/ Claim(s) \/ Update(s) \/ AuditDelete(s) \/ Mark(s)
       PROVE  Good
  BY <1>1, <1>2, <1>11 DEF HeadObject, Claim, Update, AuditDelete, Mark
<1>12. ASSUME NEW s \in Sessions, NEW k \in Keys, ReapRow(s, k)
       PROVE  Good
  BY <1>1, <1>12 DEF ReapRow, Passed, Idle
<1>13. ASSUME NEW s \in Sessions, Examine(s) \/ Destroy(s)
       PROVE  Good
  BY <1>1, <1>2, <1>13 DEF Examine, Destroy, Idle
<1>14. ASSUME Tick \/ \E k \in Keys : StartPut(k) \/ FinishPut(k)
       PROVE  Good
  BY <1>3, <1>14 DEF Tick, StartPut, FinishPut
<1> QED
  BY <1>4, <1>5, <1>6, <1>7, <1>8, <1>9, <1>10, <1>11, <1>12, <1>13, <1>14 DEF Next, Begin, Work

-----------------------------------------------------------------------------
(* What any step may do to a key that is settled. *)

LEMMA PutGoesOn ==
  ASSUME TypeOK, NEW s \in Sessions, Put(s)
  PROVE  /\ Uploading(s) /\ session'[s] \in Call /\ session'[s].op = "insert"
         /\ session'[s].key = session[s].key /\ session'[s].row = session[s].row
<1>1. session[s].op = "put" /\ session' = [session EXCEPT ![s] = [session[s] EXCEPT !.op = "insert"]]
  BY DEF Put, Becomes
<1>2. session[s] \in Call
  BY DEF TypeOK
<1> QED
  BY <1>1, <1>2 DEF Call, TypeOK, Reaping, Idle, Uploading

LEMMA UploadsKeepKeys ==
  ASSUME TypeOK, Next, NEW t \in Sessions, Uploading(t)'
  PROVE  \/ Uploading(t) /\ session'[t].key = session[t].key
         \/ session'[t].key \in used' \ used
<1>1. CASE session'[t] = session[t]
  BY <1>1 DEF Uploading
<1>2. CASE Put(t)
  BY <1>2, PutGoesOn
<1>3. CASE \E k \in Keys, in \in Inputs : BeginUpload(t, k, in)
  BY <1>3 DEF BeginUpload, Mints, Becomes, TypeOK
<1> QED
  BY <1>1, <1>2, <1>3, WhoUploads

LEMMA SettledStays ==
  ASSUME TypeOK, Next, NEW k \in Keys, Settled(k)
  PROVE  Settled(k)'
BY WhoUploads, UploadsKeepKeys DEF Settled

LEMMA RowMoves ==
  ASSUME IInv, Next, NEW k \in Keys, Settled(k), file'[k] # file[k]
  PROVE  /\ file[k] # None
         /\ \/ rowLock[k] = None /\ file'[k] # None /\ file'[k].state = "deleted"
            \/ Pending(k) /\ object[k] # None /\ file'[k] # None /\ file'[k].state = "ready"
            \/ Pending(k) /\ file'[k] = None /\ file[k].due # None /\ file[k].due < clock
         /\ file'[k] # None => file'[k].retain = file[k].retain
         /\ file[k].state = "deleted" => file'[k] = None
         /\ file' \in [Keys -> Row \cup {None}]
         /\ rowLock[k] # None => session'[rowLock[k]] # session[rowLock[k]]
<1>1. TypeOK /\ file \in [Keys -> Row \cup {None}] /\ {"ready", "deleted"} \subseteq FileState
  BY DEF IInv, TypeOK, FileState
<1>2. PICK s \in Sessions :
        \/ Insert(s) \/ Confirm(s) \/ Mark(s) \/ CommitReap(s)
        \/ session[s] = Idle /\ \E j \in Keys, in \in Inputs : Reserve(s, j, in)
  BY WhoWritesRows
<1>3. session[s] \in Call
  BY DEF IInv, TypeOK
<1>4. CASE Insert(s) \/ \E j \in Keys, in \in Inputs : Reserve(s, j, in)
  BY <1>1, <1>4 DEF Insert, Reserve, Mints, Settled, Uploading
<1>5. CASE Confirm(s)
  <2>1. session[s].key = k /\ rowLock[k] = s /\ session'[s] = Idle /\ session[s].op = "confirm"
    BY <1>1, <1>3, <1>5, Shapes, EndsCall DEF Confirm, TypeOK
  <2>2. file[k] \in Row /\ Pending(k) /\ object[k] # None
    BY <1>1, <2>1 DEF IInv, Established, Pending
  <2>3. file'[k] = [file[k] EXCEPT !.state = "ready"]
    BY <1>1, <1>5, <2>1 DEF Confirm
  <2>4. file'[k] \in Row /\ file'[k].state = "ready" /\ file'[k].retain = file[k].retain
    BY <1>1, <2>2, <2>3, RowUpdate
  <2>5. file' \in [Keys -> Row \cup {None}]
    BY <1>1, <1>5, <2>1, <2>3, <2>4 DEF Confirm
  <2>6. session'[s] # session[s]
    BY <2>1 DEF Idle
  <2>7. file'[k] # None
    BY <2>4, FileStoreAssumption
  <2> QED
    BY <2>1, <2>2, <2>4, <2>5, <2>6, <2>7 DEF Pending
<1>6. CASE Mark(s)
  <2>1. session[s].key = k /\ rowLock[k] = None /\ file[k] # None
        /\ file' = [file EXCEPT ![k].state = "deleted"]
    BY <1>1, <1>3, <1>6, Shapes DEF Mark, TypeOK
  <2>2. file[k] \in Row
    BY <1>1, <2>1
  <2>3. file'[k] = [file[k] EXCEPT !.state = "deleted"]
    BY <1>1, <2>1
  <2>4. file'[k] \in Row /\ file'[k].state = "deleted" /\ file'[k].retain = file[k].retain
        /\ file[k].state # "deleted"
    BY <1>1, <2>2, <2>3, RowUpdate
  <2>5. file' \in [Keys -> Row \cup {None}]
    BY <1>1, <2>1, <2>3, <2>4
  <2>6. file'[k] # None
    BY <2>4, FileStoreAssumption
  <2> QED
    BY <2>1, <2>4, <2>5, <2>6
<1>7. CASE CommitReap(s)
  <2>1. session[s].key = k /\ rowLock[k] = s /\ session[s].op = "reaped" /\ file'[k] = None
        /\ file' \in [Keys -> Row \cup {None}]
    BY <1>1, <1>3, <1>7, Shapes DEF CommitReap, TypeOK
  <2>2. Pending(k) /\ file[k].due # None /\ file[k].due < clock
    BY <2>1 DEF IInv, Established
  <2>3. session'[s].op = "unlink"
    BY <1>1, <1>3, <1>7, <2>1 DEF CommitReap, Becomes, TypeOK, Call, Reaping, Idle
  <2> QED
    BY <2>1, <2>2, <2>3 DEF Pending
<1> QED
  BY <1>2, <1>4, <1>5, <1>6, <1>7

LEMMA ObjectMoves ==
  ASSUME IInv, Next, NEW k \in Keys
  PROVE  /\ object[k] # None /\ object'[k] = None =>
              Doomed(k) \/ \E s \in Sessions : Uploading(s) /\ session[s].key = k
         /\ object' \in [Keys -> Object \cup {None}]
<1>1. TypeOK /\ object \in [Keys -> Object \cup {None}]
  BY DEF IInv, TypeOK
<1> DEFINE Goal == /\ object[k] # None /\ object'[k] = None =>
                        Doomed(k) \/ \E s \in Sessions : Uploading(s) /\ session[s].key = k
                   /\ object' \in [Keys -> Object \cup {None}]
<1>2. CASE object' = object
  BY <1>1, <1>2
<1>3. ASSUME NEW s \in Sessions, Put(s)
      PROVE  Goal
  <2>1. object' = [object EXCEPT ![session[s].key] = [at |-> clock, fits |-> TRUE]] /\ Uploading(s)
    BY <1>3 DEF Put, Written, Uploading
  <2> QED
    BY <1>1, <2>1 DEF TypeOK, Object
<1>4. ASSUME NEW j \in Keys, FinishPut(j)
      PROVE  Goal
  <2>1. PICK fits \in BOOLEAN : object' = [object EXCEPT ![j] = [at |-> clock, fits |-> fits]]
    BY <1>4, FileStoreAssumption DEF FinishPut, Written
  <2>2. [at |-> clock, fits |-> fits] \in Object
    BY <1>1 DEF TypeOK, Object
  <2>3. [at |-> clock, fits |-> fits] # None
    BY <2>2, FileStoreAssumption
  <2> QED
    BY <1>1, <2>1, <2>2, <2>3
<1>5. ASSUME NEW s \in Sessions, Discard(s)
      PROVE  Goal
  BY <1>1, <1>5 DEF Discard, Erased, Uploading
<1>6. ASSUME NEW s \in Sessions, RemoveBytes(s) \/ Unlink(s)
      PROVE  Goal
  <2>1. Doomed(session[s].key)
    BY <1>6 DEF RemoveBytes, Unlink, IInv, Established
  <2> QED
    BY <1>1, <1>6, <2>1 DEF RemoveBytes, Unlink, Erased
<1>7. ASSUME NEW s \in Sessions, Destroy(s)
      PROVE  Goal
  <2>1. PICK j \in Keys : j \in session[s].orphans /\ Erased(j)
    BY <1>7 DEF Destroy, First
  <2>2. Doomed(j)
    BY <1>7, <2>1 DEF Destroy, IInv, Established
  <2> QED
    BY <1>1, <2>1, <2>2 DEF Erased
<1> QED
  BY <1>2, <1>3, <1>4, <1>5, <1>6, <1>7, WhoWritesObjects

LEMMA DoomedStays ==
  ASSUME IInv, Next, NEW k \in Keys, Doomed(k)
  PROVE  Doomed(k)'
<1>1. Settled(k)'
  BY SettledStays DEF Doomed, IInv
<1>2. TypeOK /\ clock <= clock' /\ clock \in Nat /\ clock' \in Nat
  BY WhoUploads DEF IInv, TypeOK
<1>3. ~Wanted(k)'
  <2>1. CASE file'[k] = file[k]
    <3>1. file[k] # None => file[k] \in Row
      BY <1>2 DEF TypeOK
    <3> QED
      BY <1>2, <2>1, <3>1 DEF Doomed, Wanted, Row
  <2>2. CASE file'[k] # file[k]
    BY <2>2, RowMoves DEF Doomed, Wanted
  <2> QED
    BY <2>1, <2>2
<1> QED
  BY <1>1, <1>3 DEF Doomed

(* What a call has found out stays true while others move. *)
LEMMA Undisturbed ==
  ASSUME IInv, Next, NEW t \in Sessions, session'[t] = session[t]
  PROVE  Established(t)'
<1> DEFINE c == session[t]
<1>1. /\ TypeOK /\ Established(t) /\ c \in Call /\ session'[t] = c
      /\ clock \in Nat /\ clock' \in Nat /\ clock <= clock'
  BY WhoUploads DEF IInv, TypeOK
<1>2. \A k \in Keys : Settled(k) => Settled(k)'
  BY <1>1, SettledStays
<1>3. \A k \in Keys : Doomed(k) => Doomed(k)'
  BY DoomedStays
<1>4. ASSUME c.op \in {"presign", "head", "claim", "update", "confirm", "delete", "mark", "remove",
                       "reaped", "unlink"}
      PROVE  c.key \in Keys /\ Settled(c.key) /\ Settled(c.key)'
  BY <1>1, <1>2, <1>4, Shapes DEF Established
<1>5. c.op \in {"claim", "update", "confirm"} /\ Pending(c.key)' => object'[c.key] # None
  <2> SUFFICES ASSUME c.op \in {"claim", "update", "confirm"}, Pending(c.key)'
               PROVE  object'[c.key] # None
    OBVIOUS
  <2>1. Pending(c.key)
    BY <1>4, RowMoves DEF Pending
  <2>2. object[c.key] # None
    BY <1>1, <2>1 DEF Established
  <2>3. ~Doomed(c.key)
    BY <2>1 DEF Doomed, Pending, Wanted
  <2> QED
    BY <1>4, <2>2, <2>3, ObjectMoves DEF Settled
<1>6. c.op \in {"confirm", "reaped"} => file'[c.key] = file[c.key]
  <2> SUFFICES ASSUME c.op \in {"confirm", "reaped"}
               PROVE  file'[c.key] = file[c.key]
    OBVIOUS
  <2>1. c.key \in Keys /\ Settled(c.key)
    BY <1>4
  <2>2. rowLock[c.key] = t
    BY <1>1, <2>1 DEF TypeOK
  <2>3. t # None
    BY FileStoreAssumption
  <2> QED
    BY <2>1, <2>2, <2>3, RowMoves
<1>7. c.op \in {"confirm", "reaped"} => Pending(c.key)'
  BY <1>1, <1>6 DEF Established, Pending
<1>8. c.op = "reaped" => file'[c.key].due # None /\ file'[c.key].due < clock'
  <2> SUFFICES ASSUME c.op = "reaped"
               PROVE  file'[c.key].due # None /\ file'[c.key].due < clock'
    OBVIOUS
  <2>1. file[c.key] \in Row /\ file[c.key].due # None /\ file[c.key].due < clock
    BY <1>1, <1>4 DEF Established, TypeOK, Pending
  <2>2. file[c.key].due \in Nat
    BY <2>1 DEF Row
  <2> QED
    BY <1>1, <1>6, <2>1, <2>2
<1>9. c.op \in {"delete", "mark"} /\ file'[c.key] # None =>
        file'[c.key].retain = None \/ file'[c.key].retain <= clock'
  <2> SUFFICES ASSUME c.op \in {"delete", "mark"}, file'[c.key] # None
               PROVE  file'[c.key].retain = None \/ file'[c.key].retain <= clock'
    OBVIOUS
  <2>1. file[c.key] # None /\ file'[c.key].retain = file[c.key].retain
    BY <1>4, RowMoves
  <2>2. file[c.key].retain = None \/ file[c.key].retain <= clock
    BY <1>1, <2>1 DEF Established
  <2>3. file[c.key].retain \in Nat \cup {None}
    BY <1>1, <1>4, <2>1 DEF TypeOK, Row
  <2> QED
    BY <1>1, <2>1, <2>2, <2>3
<1>10. c.op \in {"remove", "unlink"} => Doomed(c.key)'
  BY <1>1, <1>3, <1>4 DEF Established
<1>11. c.op = "unlink" => file'[c.key] = None
  BY <1>1, <1>4, RowMoves DEF Established
<1>12. Reaps(c)' /\ (c.op \in {"reaped", "unlink"} => Reaps(c.then)')
  <2>1. ASSUME NEW d \in Reaping \cup {Idle}, Reaps(d)
        PROVE  Reaps(d)'
    BY <1>1, <1>2, <2>1 DEF Reaps, Reaping, Idle
  <2>2. c.op = "reap" => c \in Reaping
    BY <1>1, Shapes
  <2>3. c.op \in {"reaped", "unlink"} => c.then \in Reaping \cup {Idle}
    BY <1>1, Shapes
  <2> QED
    BY <1>1, <2>1, <2>2, <2>3 DEF Established, Reaps
<1>13. c.op = "scan" => \A k \in c.todo : Settled(k)'
  BY <1>1, <1>2, Shapes DEF Established
<1>14. c.op \in {"scan", "destroy"} => \A k \in c.orphans : Doomed(k)'
  BY <1>1, <1>3, Shapes DEF Established
<1> QED
  BY <1>1, <1>4, <1>5, <1>7, <1>8, <1>9, <1>10, <1>11, <1>12, <1>13, <1>14 DEF Established

-----------------------------------------------------------------------------
(* The data part of the invariant. *)

LEMMA NewRows ==
  ASSUME IInv, Next, NEW k \in Keys, ~Settled(k), file'[k] # file[k]
  PROVE  \/ \E s \in Sessions : Insert(s) /\ session[s].key = k
         \/ \E s \in Sessions, in \in Inputs : Reserve(s, k, in)
<1>1. TypeOK /\ file \in [Keys -> Row \cup {None}]
  BY DEF IInv, TypeOK
<1>2. PICK s \in Sessions :
        \/ Insert(s) \/ Confirm(s) \/ Mark(s) \/ CommitReap(s)
        \/ session[s] = Idle /\ \E j \in Keys, in \in Inputs : Reserve(s, j, in)
  BY WhoWritesRows
<1>3. CASE Insert(s) \/ \E j \in Keys, in \in Inputs : Reserve(s, j, in)
  BY <1>1, <1>3 DEF Insert, Reserve
<1>4. CASE Confirm(s) \/ Mark(s) \/ CommitReap(s)
  <2>1. session[s].key # k
    BY <1>4 DEF Confirm, Mark, CommitReap, IInv, Established
  <2> QED
    BY <1>1, <1>4, <2>1 DEF Confirm, Mark, CommitReap
<1> QED
  BY <1>2, <1>3, <1>4

LEMMA InsertsOwn ==
  ASSUME IInv, NEW s \in Sessions, Insert(s)
  PROVE  /\ session[s].key \in Keys /\ session[s].row \in Row /\ session[s].row.state = "ready"
         /\ object[session[s].key] # None
BY Shapes DEF Insert, IInv, TypeOK, UploadsAreAlone, Uploading

LEMMA DataTypes ==
  ASSUME IInv, Next
  PROVE  /\ used' \subseteq Keys /\ clock' \in Nat /\ crashes' \in Nat
         /\ file' \in [Keys -> Row \cup {None}]
         /\ object' \in [Keys -> Object \cup {None}]
         /\ url' \in [Keys -> Nat \cup {None}]
         /\ arriving' \subseteq Keys
<1>1. TypeOK /\ used' \subseteq Keys /\ clock' \in Nat
  BY WhoUploads DEF IInv
<1>2. file' \in [Keys -> Row \cup {None}]
  <2>1. CASE file' = file
    BY <1>1, <2>1 DEF TypeOK
  <2>2. CASE file' # file
    <3>1. ASSUME NEW s \in Sessions, Insert(s)
          PROVE  file' \in [Keys -> Row \cup {None}]
      BY <1>1, <3>1, InsertsOwn DEF Insert, TypeOK
    <3>2. ASSUME NEW s \in Sessions, NEW k \in Keys, NEW in \in Inputs, Reserve(s, k, in)
          PROVE  file' \in [Keys -> Row \cup {None}]
      <4>1. NewRow(in, "pending", clock + Ttl) \in Row
        BY <1>1, FileStoreAssumption, NewRowIsRow DEF TypeOK, FileState
      <4> QED
        BY <1>1, <3>2, <4>1 DEF Reserve, TypeOK
    <3>3. ASSUME NEW s \in Sessions, Confirm(s) \/ Mark(s) \/ CommitReap(s)
          PROVE  file' \in [Keys -> Row \cup {None}]
      <4>1. session[s].key \in Keys /\ Settled(session[s].key)
        BY <3>3, Shapes DEF Confirm, Mark, CommitReap, IInv, TypeOK, Established
      <4>2. CASE file'[session[s].key] # file[session[s].key]
        BY <4>1, <4>2, RowMoves
      <4>3. CASE file'[session[s].key] = file[session[s].key]
        <5>1. file' = file
          BY <1>1, <3>3, <4>1, <4>3 DEF Confirm, Mark, CommitReap, TypeOK
        <5> QED
          BY <1>1, <5>1 DEF TypeOK
      <4> QED
        BY <4>2, <4>3
    <3> QED
      BY <2>2, <3>1, <3>2, <3>3, WhoWritesRows
  <2> QED
    BY <2>1, <2>2
<1>3. object' \in [Keys -> Object \cup {None}]
  <2>1. CASE object' = object
    BY <1>1, <2>1 DEF TypeOK
  <2>2. CASE \E k \in Keys : TRUE
    BY <2>2, ObjectMoves
  <2>3. CASE object' # object /\ Keys = {}
    <3>1. PICK s \in Sessions : Put(s) \/ Discard(s) \/ RemoveBytes(s) \/ Unlink(s)
      BY <2>3, WhoWritesObjects DEF Destroy
    <3>2. session[s].key \in Keys
      BY <1>1, <3>1, Shapes DEF Put, Discard, RemoveBytes, Unlink, TypeOK
    <3> QED
      BY <2>3, <3>2
  <2> QED
    BY <2>1, <2>2, <2>3
<1>4. url' \in [Keys -> Nat \cup {None}]
  <2>1. CASE url' = url
    BY <1>1, <2>1 DEF TypeOK
  <2>2. ASSUME NEW s \in Sessions, Presign(s)
        PROVE  url' \in [Keys -> Nat \cup {None}]
    <3>1. clock + Ttl \in Nat
      BY <1>1, FileStoreAssumption DEF TypeOK
    <3> QED
      BY <1>1, <2>2, <3>1 DEF Presign, TypeOK
  <2> QED
    BY <2>1, <2>2, WhoWritesTheRest
<1>5. arriving' \subseteq Keys
  BY <1>1, WhoWritesTheRest DEF TypeOK, StartPut, FinishPut
<1>6. crashes' \in Nat
  BY <1>1, WhoWritesTheRest DEF TypeOK
<1> QED
  BY <1>1, <1>2, <1>3, <1>4, <1>5, <1>6

LEMMA BytesStay ==
  ASSUME IInv, Next
  PROVE  ReadyHasBytes'
<1> SUFFICES ASSUME NEW k \in Keys, file'[k] # None, file'[k].state = "ready"
             PROVE  object'[k] # None
  BY DEF ReadyHasBytes
<1>1. TypeOK /\ ReadyHasBytes /\ UploadsAreAlone /\ KeysAreKnown
  BY DEF IInv
<1>2. CASE Settled(k)
  <2>1. object[k] # None /\ ~Doomed(k)
    BY <1>1, <1>2, RowMoves DEF ReadyHasBytes, Doomed, Wanted, Pending
  <2> QED
    BY <1>2, <2>1, ObjectMoves DEF Settled
<1>3. CASE ~Settled(k)
  <2>1. file[k] = None /\ file'[k] # file[k]
    BY <1>1, <1>3 DEF KeysAreKnown
  <2>2. CASE \E s \in Sessions : Insert(s) /\ session[s].key = k
    BY <2>2, InsertsOwn DEF Insert, bucket
  <2>3. CASE \E s \in Sessions, in \in Inputs : Reserve(s, k, in)
    BY <1>1, <2>3 DEF Reserve, NewRow, TypeOK
  <2> QED
    BY <1>3, <2>1, <2>2, <2>3, NewRows
<1> QED
  BY <1>2, <1>3

LEMMA UploadsStayAlone ==
  ASSUME IInv, Next
  PROVE  UploadsAreAlone'
<1>1. TypeOK /\ UploadsAreAlone /\ KeysAreKnown
  BY DEF IInv
<1>2. ASSUME NEW s \in Sessions, Uploading(s), Uploading(s)', session'[s].key = session[s].key
      PROVE  LET k == session[s].key
             IN  /\ k \in Keys /\ k \in used' /\ file'[k] = None /\ url'[k] = None
                 /\ k \notin arriving'
                 /\ \A t \in Sessions \ {s} : Uploading(t)' => session'[t].key # k
                 /\ \A t \in Sessions : Discard(t) => session[t].key # k
                 /\ ~Settled(k)
  <2> DEFINE k == session[s].key
  <2>1. k \in Keys /\ k \in used /\ file[k] = None /\ url[k] = None /\ k \notin arriving /\ ~Settled(k)
    BY <1>1, <1>2, Shapes DEF UploadsAreAlone, Uploading, Settled, TypeOK
  <2>2. \A t \in Sessions : Uploading(t) /\ session[t].key = k => t = s
    BY <1>1, <1>2 DEF UploadsAreAlone
  <2>3. \A t \in Sessions : Insert(t) \/ Discard(t) => session[t].key # k
    <3>1. ASSUME NEW t \in Sessions, Insert(t) \/ Discard(t), session[t].key = k
          PROVE  FALSE
      <4>1. t = s
        BY <2>2, <3>1 DEF Insert, Discard, Uploading
      <4> QED
        BY <1>1, <1>2, <3>1, <4>1, EndsCall DEF Insert, Discard, Uploading, Idle
    <3> QED
      BY <3>1
  <2>4. file'[k] = None
    BY <2>1, <2>3, NewRows DEF Reserve, Mints
  <2>5. url'[k] = None
    <3>1. ASSUME NEW t \in Sessions, Presign(t)
          PROVE  url'[k] = None
      BY <1>1, <2>1, <3>1 DEF Presign, IInv, Established, TypeOK
    <3> QED
      BY <2>1, <3>1, WhoWritesTheRest
  <2>6. k \notin arriving'
    BY <2>1, WhoWritesTheRest DEF StartPut, FinishPut
  <2>7. \A t \in Sessions \ {s} : Uploading(t)' => session'[t].key # k
    BY <1>1, <2>1, <2>2, UploadsKeepKeys
  <2> QED
    BY <1>1, <2>1, <2>3, <2>4, <2>5, <2>6, <2>7, WhoUploads
<1>3. ASSUME NEW s \in Sessions, Uploading(s), session'[s] = session[s]
      PROVE  LET k == session'[s].key
             IN  /\ session'[s].op = "put" => object'[k] = None
                 /\ session'[s].op = "insert" => object'[k] # None /\ clock' <= object'[k].at + Stall
  <2> DEFINE k == session[s].key
  <2>1. /\ k \in Keys /\ ~Settled(k) /\ \A t \in Sessions : Discard(t) => session[t].key # k
        /\ \A t \in Sessions : Uploading(t) /\ session[t].key = k => t = s
        /\ k \notin arriving
    BY <1>1, <1>2, <1>3 DEF Uploading, UploadsAreAlone
  <2>2. object'[k] = object[k]
    <3>1. ASSUME NEW t \in Sessions, Put(t) \/ Discard(t) \/ RemoveBytes(t) \/ Unlink(t) \/ Destroy(t)
          PROVE  object'[k] = object[k]
      <4>1. CASE Put(t)
        <5>1. t # s
          BY <1>1, <1>3, <4>1, PutGoesOn DEF Put
        <5>2. session[t].key # k
          BY <2>1, <4>1, <5>1 DEF Put, Uploading
        <5> QED
          BY <1>1, <4>1, <5>2 DEF Put, Written, TypeOK
      <4>2. CASE Discard(t)
        BY <1>1, <2>1, <4>2 DEF Discard, Erased, TypeOK
      <4>3. CASE RemoveBytes(t) \/ Unlink(t)
        <5>1. session[t].key # k
          BY <2>1, <4>3 DEF RemoveBytes, Unlink, IInv, Established, Doomed
        <5> QED
          BY <1>1, <2>1, <4>3, <5>1 DEF RemoveBytes, Unlink, Erased, TypeOK
      <4>4. CASE Destroy(t)
        <5>1. \A j \in session[t].orphans : Settled(j)
          BY <4>4 DEF Destroy, IInv, Established, Doomed
        <5>2. PICK j \in Keys : j \in session[t].orphans /\ Erased(j)
          BY <4>4 DEF Destroy, First
        <5>3. j # k
          BY <2>1, <5>1, <5>2
        <5>4. object' = [object EXCEPT ![j] = None]
          BY <5>2 DEF Erased
        <5>5. object \in [Keys -> Object \cup {None}] /\ k \in Keys
          BY <1>1, <2>1 DEF TypeOK
        <5> QED
          BY <5>3, <5>4, <5>5
      <4> QED
        BY <3>1, <4>1, <4>2, <4>3, <4>4
    <3>2. ASSUME NEW j \in Keys, FinishPut(j)
          PROVE  object'[k] = object[k]
      BY <1>1, <2>1, <3>2 DEF FinishPut, Written, TypeOK
    <3> QED
      BY <3>1, <3>2, WhoWritesObjects
  <2>3. session[s].op = "insert" => clock' <= object[k].at + Stall
    <3> SUFFICES ASSUME session[s].op = "insert"
                 PROVE  clock' <= object[k].at + Stall
      OBVIOUS
    <3>1. object[k] # None /\ clock <= object[k].at + Stall
      BY <1>1, <1>3 DEF UploadsAreAlone
    <3>2. object[k].at \in Nat /\ clock \in Nat /\ Stall \in Nat
      BY <1>1, <2>1, <3>1, Parameters DEF TypeOK, Object
    <3>3. CASE Tick
      BY <3>1, <3>2, <3>3 DEF Tick
    <3> QED
      BY <3>1, <3>2, <3>3, WhoWritesTheRest
  <2> QED
    BY <1>1, <1>3, <2>1, <2>2, <2>3 DEF UploadsAreAlone
<1>4. ASSUME NEW s \in Sessions, Put(s)
      PROVE  LET k == session'[s].key
             IN  /\ session'[s].op = "insert"
                 /\ object'[k] # None /\ clock' <= object'[k].at + Stall
  <2> DEFINE k == session[s].key
             o == [at |-> clock, fits |-> TRUE]
  <2>1. k \in Keys /\ session'[s].key = k /\ session'[s].op = "insert"
    BY <1>1, <1>4, PutGoesOn, Shapes DEF Put, TypeOK
  <2>2. object'[k] = o /\ clock' = clock
    BY <1>1, <1>4, <2>1 DEF Put, Written, TypeOK, bounds
  <2>3. o \in Object /\ clock \in Nat /\ Stall \in Nat
    BY <1>1, FileStoreAssumption DEF TypeOK, Object
  <2>4. o # None
    BY <2>3, Parameters
  <2>5. o.at = clock /\ clock <= clock + Stall
    BY <2>3
  <2> HIDE DEF o
  <2> QED
    BY <2>1, <2>2, <2>4, <2>5
<1>5. ASSUME NEW s \in Sessions, NEW k \in Keys, NEW in \in Inputs, BeginUpload(s, k, in)
      PROVE  /\ session'[s].key = k /\ session'[s].op = "put" /\ session'[s].row.state = "ready"
             /\ k \in used' /\ file'[k] = None /\ url'[k] = None /\ k \notin arriving'
             /\ \A t \in Sessions \ {s} : Uploading(t)' => session'[t].key # k
             /\ object'[k] = None
  <2>1. k \notin used /\ k \in used' /\ UNCHANGED <<file, object, url, arriving>>
    BY <1>5 DEF BeginUpload, Mints, bucket
  <2>2. file[k] = None /\ url[k] = None /\ k \notin arriving /\ object[k] = None
    BY <1>1, <2>1 DEF KeysAreKnown, Settled
  <2>3. session'[s] = [op |-> "put", key |-> k, row |-> NewRow(in, "ready", None)]
        /\ \A t \in Sessions \ {s} : session'[t] = session[t]
    BY <1>1, <1>5 DEF BeginUpload, Becomes, TypeOK
  <2>4. \A t \in Sessions \ {s} : Uploading(t)' => session'[t].key # k
    BY <1>1, <2>1, <2>3 DEF Uploading, UploadsAreAlone
  <2> QED
    BY <2>1, <2>2, <2>3, <2>4 DEF NewRow
<1>6. ASSUME NEW s \in Sessions, Uploading(s)'
      PROVE  LET k == session'[s].key
             IN  /\ k \in used' /\ file'[k] = None /\ url'[k] = None /\ k \notin arriving'
                 /\ \A t \in Sessions \ {s} : Uploading(t)' => session'[t].key # k
                 /\ session'[s].op = "put" => object'[k] = None
                 /\ session'[s].op = "insert" => object'[k] # None /\ clock' <= object'[k].at + Stall
                 /\ session'[s].row.state = "ready"
  <2>1. CASE session'[s] = session[s]
    <3>1. Uploading(s)
      BY <1>6, <2>1 DEF Uploading
    <3>2. session[s].row.state = "ready"
      BY <1>1, <3>1 DEF UploadsAreAlone
    <3> QED
      BY <1>2, <1>3, <1>6, <2>1, <3>1, <3>2
  <2>2. CASE Put(s)
    <3>1. Uploading(s) /\ session'[s].key = session[s].key /\ session'[s].row = session[s].row
      BY <1>1, <2>2, PutGoesOn
    <3>2. session[s].row.state = "ready"
      BY <1>1, <3>1 DEF UploadsAreAlone
    <3> QED
      BY <1>2, <1>4, <1>6, <2>2, <3>1, <3>2
  <2>3. CASE \E k \in Keys, in \in Inputs : BeginUpload(s, k, in)
    BY <1>5, <2>3
  <2> QED
    BY <1>1, <1>6, <2>1, <2>2, <2>3, WhoUploads
<1> QED
  BY <1>6 DEF UploadsAreAlone

LEMMA KeysStayKnown ==
  ASSUME IInv, Next
  PROVE  KeysAreKnown'
<1>1. TypeOK /\ KeysAreKnown /\ UploadsAreAlone
  BY DEF IInv
<1>2. ASSUME NEW k \in Keys, Settled(k)
      PROVE  Settled(k)'
  BY <1>1, <1>2, SettledStays
<1>3. ASSUME NEW s \in Sessions, NEW k \in Keys, Insert(s), session[s].key = k
      PROVE  Settled(k)'
  <2>1. session'[s] = Idle /\ used' = used
    BY <1>1, <1>3, EndsCall DEF Insert
  <2>2. k \in used /\ \A t \in Sessions \ {s} : Uploading(t) => session[t].key # k
    BY <1>1, <1>3 DEF Insert, UploadsAreAlone, Uploading
  <2>3. ASSUME NEW t \in Sessions, Uploading(t)'
        PROVE  session'[t].key # k
    <3>1. t # s
      BY <2>1, <2>3 DEF Uploading, Idle
    <3> QED
      BY <1>1, <2>1, <2>2, <2>3, <3>1, UploadsKeepKeys
  <2> QED
    BY <2>1, <2>2, <2>3 DEF Settled, Uploading
<1>4. ASSUME NEW s \in Sessions, NEW k \in Keys, NEW in \in Inputs, Reserve(s, k, in)
      PROVE  Settled(k)'
  <2>1. k \notin used /\ k \in used'
    BY <1>4 DEF Reserve, Mints
  <2>2. session'[s] = [op |-> "presign", key |-> k] /\ \A t \in Sessions \ {s} : session'[t] = session[t]
    BY <1>1, <1>4 DEF Reserve, Becomes, TypeOK
  <2>3. ASSUME NEW t \in Sessions, Uploading(t)'
        PROVE  session'[t].key # k
    <3>1. t # s
      BY <2>2, <2>3 DEF Uploading
    <3>2. Uploading(t) /\ session'[t] = session[t]
      BY <2>2, <2>3, <3>1 DEF Uploading
    <3> QED
      BY <1>1, <2>1, <3>2 DEF UploadsAreAlone
  <2> QED
    BY <2>1, <2>3 DEF Settled, Uploading
<1>5. ASSUME NEW k \in Keys, file'[k] # None
      PROVE  Settled(k)'
  <2>1. CASE file'[k] = file[k]
    BY <1>1, <1>2, <1>5, <2>1 DEF KeysAreKnown
  <2>2. CASE Settled(k)
    BY <1>2, <2>2
  <2>3. CASE file'[k] # file[k] /\ ~Settled(k)
    BY <1>3, <1>4, <2>3, NewRows
  <2> QED
    BY <2>1, <2>2, <2>3
<1>6. ASSUME NEW k \in Keys, url'[k] # None
      PROVE  Settled(k)'
  <2>1. CASE url'[k] = url[k]
    BY <1>1, <1>2, <1>6, <2>1 DEF KeysAreKnown
  <2>2. CASE url'[k] # url[k]
    <3>1. PICK s \in Sessions : Presign(s)
      BY <2>2, WhoWritesTheRest
    <3>2. session[s].key = k
      BY <1>1, <2>2, <3>1 DEF Presign, TypeOK
    <3>3. Settled(k)
      BY <3>1, <3>2 DEF Presign, IInv, Established
    <3> QED
      BY <1>2, <3>3
  <2> QED
    BY <2>1, <2>2
<1>7. ASSUME NEW k \in Keys, k \in arriving'
      PROVE  Settled(k)'
  <2>1. k \in arriving \/ url[k] # None
    BY <1>7, WhoWritesTheRest DEF StartPut, FinishPut
  <2> QED
    BY <1>1, <1>2, <2>1 DEF KeysAreKnown
<1>8. ASSUME NEW k \in Keys, object'[k] # None
      PROVE  k \in used'
  <2>1. used \subseteq used'
    BY <1>1, WhoUploads
  <2>2. CASE object[k] # None
    BY <1>1, <2>1, <2>2 DEF KeysAreKnown
  <2>3. CASE object[k] = None
    <3>1. ASSUME NEW s \in Sessions, Put(s)
          PROVE  k \in used
      <4>1. session[s].key = k
        BY <1>1, <1>8, <2>3, <3>1 DEF Put, Written, TypeOK
      <4> QED
        BY <1>1, <3>1, <4>1 DEF Put, UploadsAreAlone, Uploading
    <3>2. ASSUME NEW j \in Keys, FinishPut(j)
          PROVE  k \in used
      <4>1. j = k
        BY <1>1, <1>8, <2>3, <3>2 DEF FinishPut, Written, TypeOK
      <4> QED
        BY <1>1, <3>2, <4>1 DEF FinishPut, KeysAreKnown, Settled
    <3>3. ASSUME NEW s \in Sessions, Discard(s) \/ RemoveBytes(s) \/ Unlink(s)
          PROVE  FALSE
      BY <1>1, <1>8, <2>3, <3>3 DEF Discard, RemoveBytes, Unlink, Erased, TypeOK
    <3>4. ASSUME NEW s \in Sessions, Destroy(s)
          PROVE  FALSE
      BY <1>1, <1>8, <2>3, <3>4 DEF Destroy, Erased, TypeOK
    <3> QED
      BY <1>8, <2>1, <2>3, <3>1, <3>2, <3>3, <3>4, WhoWritesObjects
  <2> QED
    BY <2>2, <2>3
<1> QED
  BY <1>5, <1>6, <1>7, <1>8 DEF KeysAreKnown

-----------------------------------------------------------------------------
(* The calls and the locks they hold. *)

Locking == {"mark", "confirm", "reaped"}

LocksOK ==
  /\ chain \in Sessions \cup {None}
  /\ rowLock \in [Keys -> Sessions \cup {None}]
  /\ \A s \in Sessions : chain = s <=> session[s].op = "mark"
  /\ \A s \in Sessions, k \in Keys :
        rowLock[k] = s <=> session[s].op \in {"confirm", "reaped"} /\ session[s].key = k

LEMMA LocksKept ==
  ASSUME TypeOK, NEW s \in Sessions, NEW r, Becomes(s, r), UNCHANGED locks,
         session[s].op \notin Locking, r.op \notin Locking
  PROVE  LocksOK'
<1>1. session'[s] = r /\ \A t \in Sessions \ {s} : session'[t] = session[t]
  BY DEF Becomes, TypeOK
<1>2. chain' = chain /\ rowLock' = rowLock
  BY DEF locks
<1>3. \A t \in Sessions : chain' = t <=> session'[t].op = "mark"
  BY <1>1, <1>2 DEF TypeOK, Locking
<1>4. \A t \in Sessions, k \in Keys :
        rowLock'[k] = t <=> session'[t].op \in {"confirm", "reaped"} /\ session'[t].key = k
  BY <1>1, <1>2 DEF TypeOK, Locking
<1> QED
  BY <1>2, <1>3, <1>4 DEF TypeOK, LocksOK

LEMMA RowTaken ==
  ASSUME TypeOK, NEW s \in Sessions, NEW k \in Keys, NEW r, Becomes(s, r), chain' = chain,
         rowLock[k] = None, rowLock' = [rowLock EXCEPT ![k] = s],
         session[s].op \notin Locking, r.op \in {"confirm", "reaped"}, r.key = k
  PROVE  LocksOK'
<1>1. session'[s] = r /\ \A t \in Sessions \ {s} : session'[t] = session[t]
  BY DEF Becomes, TypeOK
<1>2. \A t \in Sessions : chain' = t <=> session'[t].op = "mark"
  BY <1>1 DEF TypeOK, Locking
<1>3. \A t \in Sessions, j \in Keys :
        rowLock'[j] = t <=> session'[t].op \in {"confirm", "reaped"} /\ session'[t].key = j
  BY <1>1, Parameters DEF TypeOK, Locking
<1> QED
  BY <1>2, <1>3 DEF TypeOK, LocksOK

LEMMA RowGiven ==
  ASSUME TypeOK, NEW s \in Sessions, NEW k \in Keys, NEW r, Becomes(s, r), chain' = chain,
         rowLock' = [rowLock EXCEPT ![k] = None],
         session[s].op \in {"confirm", "reaped"}, session[s].key = k, r.op \notin Locking
  PROVE  LocksOK'
<1>1. session'[s] = r /\ \A t \in Sessions \ {s} : session'[t] = session[t]
  BY DEF Becomes, TypeOK
<1>2. \A t \in Sessions : chain' = t <=> session'[t].op = "mark"
  BY <1>1 DEF TypeOK, Locking
<1>3. \A t \in Sessions, j \in Keys :
        rowLock'[j] = t <=> session'[t].op \in {"confirm", "reaped"} /\ session'[t].key = j
  BY <1>1, Parameters DEF TypeOK, Locking
<1> QED
  BY <1>2, <1>3 DEF TypeOK, LocksOK

-----------------------------------------------------------------------------
(* What the call that moves has found out: action by action. *)

GoesOn(s) ==
  /\ session'[s] \in Call
  /\ \A t \in Sessions \ {s} : session'[t] = session[t]
  /\ session' \in [Sessions -> Call]
  /\ Established(s)'
  /\ LocksOK'

LEMMA EndsWell ==
  ASSUME IInv, NEW s \in Sessions, Ends(s), LocksOK'
  PROVE  GoesOn(s)
<1>1. /\ session'[s] = Idle /\ session'[s] \in Call
      /\ \A t \in Sessions \ {s} : session'[t] = session[t]
      /\ session' \in [Sessions -> Call]
  BY EndsCall DEF IInv, Call
<1>2. Established(s)'
  BY <1>1 DEF Established, Reaps, Idle
<1> QED
  BY <1>1, <1>2 DEF GoesOn

LEMMA EndsQuietly ==
  ASSUME IInv, NEW s \in Sessions, Ends(s), UNCHANGED locks, session[s].op \notin Locking
  PROVE  GoesOn(s)
<1>1. Becomes(s, Idle) /\ Idle.op \notin Locking
  BY DEF Ends, Becomes, Idle, Locking
<1>2. LocksOK'
  BY <1>1, LocksKept DEF IInv
<1> QED
  BY <1>2, EndsWell

(* The next step of a call rests on what Established says of it, for the
   steps that touch no lock.                                               *)
LEMMA GoesQuietly ==
  ASSUME IInv, NEW s \in Sessions, NEW r \in Call, Becomes(s, r), UNCHANGED locks,
         session[s].op \notin Locking, r.op \notin Locking,
         session'[s] = r => Established(s)'
  PROVE  GoesOn(s)
<1>1. session'[s] = r /\ session' \in [Sessions -> Call]
      /\ \A t \in Sessions \ {s} : session'[t] = session[t]
  BY BecomesCall DEF IInv
<1>2. LocksOK'
  BY LocksKept DEF IInv
<1> QED
  BY <1>1, <1>2 DEF GoesOn

LEMMA KeyOf ==
  ASSUME IInv, NEW s \in Sessions,
         session[s].op \in {"presign", "head", "claim", "update", "confirm", "delete", "mark",
                            "remove", "reaped", "unlink"}
  PROVE  session[s].key \in Keys /\ Settled(session[s].key)
BY Shapes DEF IInv, TypeOK, Established

LEMMA UploadGoesOn ==
  ASSUME IInv, Next, NEW s \in Sessions, session[s] = Idle \/ Uploading(s),
         \/ \E k \in Keys, in \in Inputs : BeginUpload(s, k, in)
         \/ Put(s) \/ PutFails(s) \/ Discard(s) \/ Insert(s)
  PROVE  GoesOn(s)
<1>1. TypeOK /\ session[s].op \notin Locking
  BY DEF IInv, Uploading, Idle, Locking
<1>2. CASE \E k \in Keys, in \in Inputs : BeginUpload(s, k, in)
  <2>1. PICK k \in Keys, in \in Inputs : BeginUpload(s, k, in)
    BY <1>2
  <2>2. NewRow(in, "ready", None) \in Row
    BY <1>1, NewRowIsRow DEF FileState
  <2> DEFINE r == [op |-> "put", key |-> k, row |-> NewRow(in, "ready", None)]
  <2>3. r \in Call /\ r.op \notin Locking
    BY <2>2 DEF Call, Locking
  <2>4. session'[s] = r => Established(s)'
    BY DEF Established, Reaps
  <2> QED
    BY <1>1, <2>1, <2>3, <2>4, GoesQuietly DEF BeginUpload
<1>3. CASE Put(s)
  <2> DEFINE r == [session[s] EXCEPT !.op = "insert"]
  <2>1. session[s] \in Call /\ session[s].op = "put"
    BY <1>1, <1>3 DEF Put, TypeOK
  <2>2. r \in Call /\ r.op = "insert"
    BY <2>1 DEF Call, Reaping, Idle
  <2>3. session'[s] = r => Established(s)'
    BY <2>2 DEF Established, Reaps
  <2> HIDE DEF r
  <2>4. Becomes(s, r)
    BY <1>3 DEF Put, r
  <2>5. UNCHANGED locks
    BY <1>3 DEF Put
  <2> QED
    BY <1>1, <2>2, <2>3, <2>4, <2>5, GoesQuietly DEF Locking
<1>4. CASE PutFails(s) \/ Discard(s)
  BY <1>1, <1>4, EndsQuietly DEF PutFails, Discard
<1>5. CASE Insert(s)
  BY <1>1, <1>5, EndsQuietly DEF Insert
<1> QED
  BY <1>2, <1>3, <1>4, <1>5

LEMMA ReservationGoesOn ==
  ASSUME IInv, Next, NEW s \in Sessions,
         \/ session[s] = Idle /\ \E k \in Keys, in \in Inputs : Reserve(s, k, in)
         \/ Presign(s)
  PROVE  GoesOn(s)
<1>1. TypeOK /\ session[s].op \notin Locking
  BY DEF IInv, Idle, Locking, Presign
<1>2. CASE \E k \in Keys, in \in Inputs : Reserve(s, k, in)
  <2>1. PICK k \in Keys, in \in Inputs : Reserve(s, k, in)
    BY <1>2
  <2> DEFINE r == [op |-> "presign", key |-> k]
  <2>2. r \in Call /\ r.op \notin Locking
    BY DEF Call, Locking
  <2>3. Becomes(s, r) /\ UNCHANGED locks
    BY <2>1 DEF Reserve
  <2>4. Settled(k)'
    <3>1. file'[k] # None
      <4>1. NewRow(in, "pending", clock + Ttl) \in Row
        BY <1>1, Parameters, NewRowIsRow DEF TypeOK, FileState
      <4> QED
        BY <1>1, <2>1, <4>1, Parameters DEF Reserve, TypeOK
    <3> QED
      BY <3>1, KeysStayKnown DEF KeysAreKnown
  <2>5. session'[s] = r => Established(s)'
    BY <2>4 DEF Established, Reaps
  <2> QED
    BY <1>1, <2>2, <2>3, <2>5, GoesQuietly
<1>3. CASE Presign(s)
  BY <1>1, <1>3, EndsQuietly DEF Presign
<1> QED
  BY <1>2, <1>3

LEMMA DeletableIsReleased ==
  ASSUME NEW r, NEW now \in Nat, r.retain \in Nat \cup {None},
         LifecycleDenial(r, "delete", now) = None
  PROVE  r.retain = None \/ r.retain <= now
BY NoneIsNoReason, NoneIsNoNumber DEF LifecycleDenial

(* A step that goes on with the key it has. *)
LEMMA StillSettled ==
  ASSUME IInv, Next, NEW k \in Keys, file[k] # None \/ Settled(k)
  PROVE  Settled(k) /\ Settled(k)'
BY SettledStays DEF IInv, KeysAreKnown

LEMMA CompletionGoesOn ==
  ASSUME IInv, Next, NEW s \in Sessions,
         \/ session[s] = Idle /\ \E k \in Keys : BeginComplete(s, k)
         \/ HeadObject(s) \/ RefuseClaim(s) \/ Claim(s) \/ Update(s) \/ Confirm(s)
  PROVE  GoesOn(s)
<1>1. TypeOK /\ LocksOK /\ session[s] \in Call /\ Established(s)
  BY DEF IInv, TypeOK, LocksOK
<1>2. CASE session[s] = Idle /\ \E k \in Keys : BeginComplete(s, k)
  <2>1. PICK k \in Keys : BeginComplete(s, k)
    BY <1>2
  <2> DEFINE r == [op |-> "head", key |-> k]
  <2>2. r \in Call /\ r.op \notin Locking /\ session[s].op \notin Locking
    BY <1>2 DEF Call, Locking, Idle
  <2>3. Becomes(s, r) /\ UNCHANGED locks /\ file[k] # None
    BY <2>1 DEF BeginComplete
  <2>4. session'[s] = r => Established(s)'
    BY <2>3, StillSettled DEF Established, Reaps
  <2> QED
    BY <2>2, <2>3, <2>4, GoesQuietly
<1>3. CASE HeadObject(s)
  <2>0. PICK k \in Keys : k = session[s].key
    BY <1>3, KeyOf DEF HeadObject
  <2> DEFINE r == [op |-> "claim", key |-> k, fits |-> object[k].fits]
  <2>1. k = session[s].key /\ Settled(k) /\ session[s].op \notin Locking /\ UNCHANGED <<locks, file, object>>
    BY <1>3, <2>0, KeyOf DEF HeadObject, Locking, tables, bucket
  <2>2. CASE object[k] = None
    BY <1>3, <2>1, <2>2, EndsQuietly DEF HeadObject
  <2>3. CASE object[k] # None
    <3>1. object[k].fits \in BOOLEAN
      BY <1>1, <2>1, <2>3 DEF TypeOK, Object
    <3>2. r \in Call /\ r.op \notin Locking
      BY <2>1, <3>1 DEF Call, Locking
    <3>3. Becomes(s, r)
      BY <1>3, <2>1, <2>3 DEF HeadObject, Becomes
    <3>4. Settled(k)'
      BY <2>1, StillSettled
    <3>5. session'[s] = r => Established(s)'
      BY <2>1, <2>3, <3>4 DEF Established, Reaps
    <3> QED
      BY <2>1, <3>2, <3>3, <3>5, GoesQuietly
  <2> QED
    BY <2>2, <2>3
<1>4. CASE RefuseClaim(s)
  BY <1>4, EndsQuietly DEF RefuseClaim, Locking
<1>5. CASE Claim(s)
  <2>0. PICK k \in Keys : k = session[s].key
    BY <1>5, KeyOf DEF Claim
  <2> DEFINE r == [op |-> "update", key |-> k]
  <2>1. k = session[s].key /\ Settled(k) /\ session[s].op = "claim"
    BY <1>5, <2>0, KeyOf DEF Claim
  <2>2. Becomes(s, r) /\ UNCHANGED <<locks, file, object>>
    BY <1>5, <2>1 DEF Claim, Becomes, tables, bucket
  <2>3. r \in Call
    BY <2>1 DEF Call
  <2>4. Pending(k)' => object'[k] # None
    BY <1>1, <2>1, <2>2 DEF Established, Pending
  <2>5. Settled(k)'
    BY <2>1, StillSettled
  <2>6. session'[s] = r => Established(s)'
    BY <2>4, <2>5 DEF Established, Reaps
  <2> QED
    BY <2>1, <2>2, <2>3, <2>6, GoesQuietly DEF Locking
<1>6. CASE Update(s)
  <2>0. PICK k \in Keys : k = session[s].key
    BY <1>6, KeyOf DEF Update
  <2> DEFINE r == [op |-> "confirm", key |-> k]
  <2>1. k = session[s].key /\ Settled(k) /\ session[s].op = "update" /\ rowLock[k] = None
    BY <1>6, <2>0, KeyOf DEF Update
  <2>2. UNCHANGED <<file, object, chain>>
    BY <1>6 DEF Update, tables, bucket
  <2>3. CASE file[k] # None /\ file[k].state = "pending"
    <3>1. Becomes(s, r) /\ rowLock' = [rowLock EXCEPT ![k] = s]
      BY <1>6, <2>1, <2>3 DEF Update, Becomes
    <3>2. r \in Call
      BY <2>1 DEF Call
    <3>3. LocksOK'
      BY <1>1, <2>1, <2>2, <3>1, RowTaken DEF Locking
    <3>4. Pending(k)' /\ object'[k] # None
      BY <1>1, <2>1, <2>2, <2>3 DEF Established, Pending
    <3>5. Settled(k)'
      BY <2>1, StillSettled
    <3>6. /\ session'[s] = r /\ session' \in [Sessions -> Call]
          /\ \A t \in Sessions \ {s} : session'[t] = session[t]
      BY <1>1, <3>1, <3>2, BecomesCall
    <3>7. Established(s)'
      BY <3>4, <3>5, <3>6 DEF Established, Reaps
    <3> QED
      BY <3>2, <3>3, <3>6, <3>7 DEF GoesOn
  <2>4. CASE ~(file[k] # None /\ file[k].state = "pending")
    BY <1>6, <2>1, <2>2, <2>4, EndsQuietly DEF Update, locks, Locking
  <2> QED
    BY <2>3, <2>4
<1>7. CASE Confirm(s)
  <2>1. session[s].key \in Keys
    BY <1>7, KeyOf DEF Confirm
  <2>2. Becomes(s, Idle)
    BY <1>7 DEF Confirm, Ends, Becomes
  <2>3. LocksOK'
    BY <1>1, <1>7, <2>1, <2>2, RowGiven DEF Confirm, Idle, Locking
  <2> QED
    BY <1>7, <2>3, EndsWell DEF Confirm
<1> QED
  BY <1>2, <1>3, <1>4, <1>5, <1>6, <1>7

LEMMA DeletionGoesOn ==
  ASSUME IInv, Next, NEW s \in Sessions,
         \/ session[s] = Idle /\ \E k \in Keys : BeginDelete(s, k)
         \/ AuditDelete(s) \/ Mark(s) \/ RemoveBytes(s)
  PROVE  GoesOn(s)
<1>1. TypeOK /\ LocksOK /\ session[s] \in Call /\ Established(s)
  BY DEF IInv, TypeOK, LocksOK
<1>2. CASE session[s] = Idle /\ \E k \in Keys : BeginDelete(s, k)
  <2>1. PICK k \in Keys : BeginDelete(s, k)
    BY <1>2
  <2> DEFINE r == [op |-> "delete", key |-> k]
  <2>2. r \in Call /\ r.op \notin Locking /\ session[s].op \notin Locking
    BY <1>2 DEF Call, Locking, Idle
  <2>3. Becomes(s, r) /\ file[k] # None /\ UNCHANGED <<file, locks, clock>>
    BY <2>1 DEF BeginDelete, tables, bounds
  <2>4. file[k].retain = None \/ file[k].retain <= clock
    <3>1. file[k].retain \in Nat \cup {None} /\ clock \in Nat
      BY <1>1, <2>3 DEF TypeOK, Row
    <3>2. LifecycleDenial(file[k], "delete", clock) = None
      BY <2>1 DEF BeginDelete
    <3> QED
      BY <3>1, <3>2, DeletableIsReleased
  <2>5. Settled(k)'
    BY <2>3, StillSettled
  <2>6. session'[s] = r => Established(s)'
    BY <2>3, <2>4, <2>5 DEF Established, Reaps
  <2> QED
    BY <2>2, <2>3, <2>6, GoesQuietly
<1>3. CASE AuditDelete(s)
  <2>0. PICK k \in Keys : k = session[s].key
    BY <1>3, KeyOf DEF AuditDelete
  <2> DEFINE r == [op |-> "mark", key |-> k]
  <2>1. k = session[s].key /\ Settled(k) /\ session[s].op = "delete" /\ chain = None
    BY <1>3, <2>0, KeyOf DEF AuditDelete
  <2>2. UNCHANGED <<file, clock, rowLock>>
    BY <1>3 DEF AuditDelete, tables, bounds
  <2>3. CASE file[k] = None
    BY <1>3, <2>1, <2>2, <2>3, EndsQuietly DEF AuditDelete, locks, Locking
  <2>4. CASE file[k] # None
    <3>1. chain' = s /\ Becomes(s, r)
      BY <1>3, <2>1, <2>4 DEF AuditDelete, Becomes
    <3>2. r \in Call
      BY <2>1 DEF Call
    <3>3. /\ session'[s] = r /\ session' \in [Sessions -> Call]
          /\ \A t \in Sessions \ {s} : session'[t] = session[t]
      BY <1>1, <3>1, <3>2, BecomesCall
    <3>4. LocksOK'
      BY <1>1, <2>1, <2>2, <3>1, <3>3, Parameters DEF LocksOK
    <3>5. Settled(k)'
      BY <2>1, StillSettled
    <3>6. Established(s)'
      BY <1>1, <2>1, <2>2, <2>4, <3>3, <3>5 DEF Established, Reaps
    <3> QED
      BY <3>2, <3>3, <3>4, <3>6 DEF GoesOn
  <2> QED
    BY <2>3, <2>4
<1>4. CASE Mark(s)
  <2>0. PICK k \in Keys : k = session[s].key
    BY <1>4, KeyOf DEF Mark
  <2> DEFINE r == [op |-> "remove", key |-> k]
  <2>1. k = session[s].key /\ Settled(k) /\ session[s].op = "mark" /\ chain = s
    BY <1>1, <1>4, <2>0, KeyOf DEF Mark, LocksOK
  <2>2. chain' = None /\ Becomes(s, r) /\ UNCHANGED <<rowLock, clock>>
    BY <1>4, <2>1 DEF Mark, Becomes, bounds
  <2>3. r \in Call
    BY <2>1 DEF Call
  <2>4. /\ session'[s] = r /\ session' \in [Sessions -> Call]
        /\ \A t \in Sessions \ {s} : session'[t] = session[t]
    BY <1>1, <2>2, <2>3, BecomesCall
  <2>5. LocksOK'
    BY <1>1, <2>1, <2>2, <2>4, Parameters DEF LocksOK
  <2>6. ~Wanted(k)'
    <3>1. CASE file[k] = None
      BY <1>4, <3>1 DEF Mark, Wanted
    <3>2. CASE file[k] # None
      <4>1. file[k] \in Row /\ clock \in Nat
        BY <1>1, <2>1, <3>2 DEF TypeOK
      <4>2. file'[k] = [file[k] EXCEPT !.state = "deleted"]
        BY <1>1, <1>4, <2>1, <3>2 DEF Mark, TypeOK
      <4>3. file'[k].state = "deleted" /\ file'[k].retain = file[k].retain
        BY <4>1, <4>2, RowUpdate DEF FileState
      <4>4. file[k].retain = None \/ (file[k].retain \in Nat /\ file[k].retain <= clock)
        BY <1>1, <2>1, <3>2, <4>1 DEF Established, Row
      <4> QED
        BY <2>2, <4>1, <4>3, <4>4 DEF Wanted
    <3> QED
      BY <3>1, <3>2
  <2>7. Settled(k)'
    BY <2>1, StillSettled
  <2>8. Doomed(k)'
    BY <2>6, <2>7 DEF Doomed
  <2>9. Established(s)'
    BY <2>4, <2>7, <2>8 DEF Established, Reaps
  <2> QED
    BY <2>3, <2>4, <2>5, <2>9 DEF GoesOn
<1>5. CASE RemoveBytes(s)
  BY <1>5, EndsQuietly DEF RemoveBytes, Locking
<1> QED
  BY <1>2, <1>3, <1>4, <1>5

LEMMA ReapsStays ==
  ASSUME IInv, Next, NEW d \in Reaping \cup {Idle}, Reaps(d)
  PROVE  Reaps(d)'
<1>1. TypeOK /\ clock \in Nat /\ clock' \in Nat /\ clock <= clock'
  BY WhoUploads DEF IInv, TypeOK
<1> QED
  BY <1>1, SettledStays DEF Reaps, Reaping, Idle

LEMMA ReapingIsEstablished ==
  ASSUME NEW s \in Sessions, NEW d \in Reaping \cup {Idle}, session'[s] = d, Reaps(d)'
  PROVE  Established(s)'
<1>1. d.op \in {"reap", "idle"}
  BY DEF Reaping, Idle
<1> QED
  BY <1>1 DEF Established, Reaps

(* What is left of a collection after one more reservation of its list. *)
LEMMA PassedOn ==
  ASSUME IInv, Next, NEW s \in Sessions, session[s].op = "reap", NEW k \in session[s].todo,
         NEW p, p = Passed(s, k)
  PROVE  /\ k \in Keys /\ Settled(k)
         /\ p \in Reaping \cup {Idle} /\ p.op \notin Locking
         /\ Reaps(p)'
<1>1. TypeOK /\ session[s] \in Reaping /\ Reaps(session[s])
  BY Shapes DEF IInv, TypeOK, Established
<1>2. k \in Keys /\ Settled(k)
  BY <1>1 DEF Reaps, Reaping
<1>3. clock \in Nat /\ clock' \in Nat /\ clock <= clock'
  BY <1>1, WhoUploads DEF TypeOK
<1>4. CASE session[s].todo = {k}
  BY <1>2, <1>4 DEF Passed, Idle, Reaps, Locking
<1>5. CASE session[s].todo # {k}
  <2> DEFINE cutoff == session[s].cutoff
             todo == session[s].todo \ {k}
  <2>1. /\ cutoff \in Int /\ cutoff <= clock /\ session[s].todo \subseteq Keys
        /\ \A j \in session[s].todo : Settled(j)
    BY <1>1 DEF Reaping, Reaps
  <2>2. p = [op |-> "reap", cutoff |-> cutoff, todo |-> todo]
    BY <1>5 DEF Passed
  <2>3. p \in Reaping /\ p.op = "reap"
    BY <1>5, <2>1, <2>2 DEF Reaping
  <2>4. \A j \in p.todo : Settled(j)'
    BY <1>1, <2>1, <2>2, SettledStays
  <2>5. p.cutoff <= clock'
    BY <1>3, <2>1, <2>2
  <2> QED
    BY <1>2, <2>3, <2>4, <2>5 DEF Reaps, Locking
<1> QED
  BY <1>4, <1>5

LEMMA ReapingGoesOn ==
  ASSUME IInv, Next, NEW s \in Sessions,
         \/ session[s] = Idle /\ BeginReap(s)
         \/ \E k \in Keys : ReapRow(s, k)
         \/ CommitReap(s) \/ Unlink(s)
  PROVE  GoesOn(s)
<1>1. TypeOK /\ LocksOK /\ session[s] \in Call /\ Established(s) /\ clock \in Nat
  BY DEF IInv, TypeOK, LocksOK
<1>2. CASE session[s] = Idle /\ BeginReap(s)
  <2>1. PICK cutoff, todo : /\ cutoff = clock - ReservationGrace
                            /\ todo = {k \in Keys : Abandoned(file[k], cutoff)}
    OBVIOUS
  <2> DEFINE r == [op |-> "reap", cutoff |-> cutoff, todo |-> todo]
  <2>2. todo # {} /\ Becomes(s, r) /\ UNCHANGED <<locks, clock>>
    BY <1>2, <2>1 DEF BeginReap, bounds
  <2>3. cutoff \in Int /\ cutoff <= clock
    BY <1>1, <2>1, Parameters
  <2>4. r \in Call /\ r.op \notin Locking /\ session[s].op \notin Locking
    BY <1>2, <2>1, <2>2, <2>3 DEF Call, Reaping, Locking, Idle
  <2>5. \A k \in todo : Settled(k)'
    BY <2>1, StillSettled DEF Abandoned
  <2>6. session'[s] = r => Established(s)'
    BY <2>2, <2>3, <2>5 DEF Established, Reaps
  <2> QED
    BY <2>2, <2>4, <2>6, GoesQuietly
<1>3. ASSUME NEW k \in Keys, ReapRow(s, k)
      PROVE  GoesOn(s)
  <2>1. session[s].op = "reap" /\ k \in session[s].todo /\ rowLock[k] = None
    BY <1>3 DEF ReapRow
  <2>2. PICK p : p = Passed(s, k)
    OBVIOUS
  <2>3. /\ Settled(k) /\ p \in Reaping \cup {Idle} /\ p.op \notin Locking
        /\ Reaps(p)'
    BY <2>1, <2>2, PassedOn
  <2>4. UNCHANGED <<file, chain, clock>>
    BY <1>3 DEF ReapRow, tables, bounds
  <2>5. CASE Abandoned(file[k], session[s].cutoff)
    <3> DEFINE r == [op |-> "reaped", key |-> k, then |-> p]
    <3>1. Becomes(s, r) /\ rowLock' = [rowLock EXCEPT ![k] = s]
      BY <1>3, <2>2, <2>5 DEF ReapRow
    <3>2. r \in Call
      BY <2>3 DEF Call
    <3>3. LocksOK'
      BY <1>1, <2>1, <2>4, <3>1, RowTaken DEF Locking
    <3>4. /\ session'[s] = r /\ session' \in [Sessions -> Call]
          /\ \A t \in Sessions \ {s} : session'[t] = session[t]
      BY <1>1, <3>1, <3>2, BecomesCall
    <3>5. Pending(k)' /\ file'[k].due # None /\ file'[k].due < clock'
      <4>1. session[s].cutoff \in Int /\ session[s].cutoff <= clock
        BY <1>1, <2>1, Shapes DEF Established, Reaps, Reaping
      <4>2. Pending(k) /\ file[k].due # None /\ file[k].due < session[s].cutoff
        BY <2>5 DEF Abandoned, Pending
      <4>3. file[k].due \in Nat
        BY <1>1, <4>2 DEF TypeOK, Row, Pending
      <4> QED
        BY <1>1, <2>4, <4>1, <4>2, <4>3 DEF Pending
    <3>6. Settled(k)'
      BY <2>3, StillSettled
    <3>7. Established(s)'
      BY <2>3, <3>4, <3>5, <3>6 DEF Established, Reaps
    <3> QED
      BY <3>2, <3>3, <3>4, <3>7 DEF GoesOn
  <2>6. CASE ~Abandoned(file[k], session[s].cutoff)
    <3>1. Becomes(s, p) /\ UNCHANGED locks /\ p \in Call
      BY <1>3, <2>2, <2>3, <2>4, <2>6 DEF ReapRow, locks, Call
    <3>2. session'[s] = p => Established(s)'
      BY <2>3, ReapingIsEstablished
    <3> QED
      BY <2>1, <2>3, <3>1, <3>2, GoesQuietly DEF Locking
  <2> QED
    BY <2>5, <2>6
<1>4. CASE CommitReap(s)
  <2>1. PICK k \in Keys : k = session[s].key /\ Settled(k)
    BY <1>4, KeyOf DEF CommitReap
  <2>2. PICK r : r = [session[s] EXCEPT !.op = "unlink"]
    OBVIOUS
  <2>3. session[s].op = "reaped" /\ Becomes(s, r) /\ file'[k] = None /\ chain' = chain
        /\ rowLock' = [rowLock EXCEPT ![k] = None]
    BY <1>1, <1>4, <2>1, <2>2 DEF CommitReap, TypeOK
  <2>4. r \in Call /\ r.op = "unlink" /\ r.key = k /\ r.then = session[s].then
    BY <1>1, <2>1, <2>2, <2>3 DEF Call, Reaping, Idle
  <2>5. LocksOK'
    BY <1>1, <2>1, <2>3, <2>4, RowGiven DEF Locking
  <2>6. /\ session'[s] = r /\ session' \in [Sessions -> Call]
        /\ \A t \in Sessions \ {s} : session'[t] = session[t]
    BY <1>1, <2>3, <2>4, BecomesCall
  <2>7. Settled(k)' /\ Doomed(k)'
    BY <2>1, <2>3, StillSettled DEF Doomed, Wanted
  <2>8. Reaps(r.then)'
    <3>1. PICK d \in Reaping \cup {Idle} : d = session[s].then
      BY <1>1, <2>3, Shapes
    <3>2. Reaps(d)'
      BY <1>1, <2>3, <3>1, ReapsStays DEF Established
    <3> QED
      BY <2>4, <3>1, <3>2
  <2>9. Established(s)'
    BY <2>3, <2>4, <2>6, <2>7, <2>8 DEF Established, Reaps
  <2> QED
    BY <2>4, <2>5, <2>6, <2>9 DEF GoesOn
<1>5. CASE Unlink(s)
  <2>1. session[s].op = "unlink" /\ Becomes(s, session[s].then) /\ UNCHANGED locks
    BY <1>5 DEF Unlink
  <2>2. PICK d \in Reaping \cup {Idle} : d = session[s].then
    BY <1>1, <2>1, Shapes
  <2>3. Reaps(d)'
    BY <1>1, <2>1, <2>2, ReapsStays DEF Established
  <2>4. d \in Call /\ d.op \notin Locking
    BY <2>2 DEF Call, Reaping, Idle, Locking
  <2>5. session'[s] = d => Established(s)'
    BY <2>2, <2>3, ReapingIsEstablished
  <2> QED
    BY <2>1, <2>2, <2>4, <2>5, GoesQuietly DEF Locking
<1> QED
  BY <1>2, <1>3, <1>4, <1>5

LEMMA SweepGoesOn ==
  ASSUME IInv, Next, NEW s \in Sessions,
         BeginSweep(s) \/ Examine(s) \/ Destroy(s) \/ DestroyFails(s)
  PROVE  GoesOn(s)
<1>1. TypeOK /\ session[s] \in Call /\ Established(s) /\ clock \in Nat
  BY DEF IInv, TypeOK
<1>2. CASE BeginSweep(s)
  <2>1. PICK todo : todo = {k \in Keys : Old(k)}
    OBVIOUS
  <2> DEFINE r == [op |-> "scan", orphans |-> {}, todo |-> todo]
  <2>2. todo # {} /\ Becomes(s, r) /\ UNCHANGED locks /\ session[s] = Idle
    BY <1>2, <2>1 DEF BeginSweep
  <2>3. r \in Call /\ r.op \notin Locking /\ session[s].op \notin Locking
    BY <2>1, <2>2 DEF Call, Locking, Idle
  <2>4. ASSUME NEW k \in todo
        PROVE  k \in Keys /\ Settled(k)'
    <3>1. k \in Keys /\ object[k] # None /\ object[k].at <= clock - OrphanGrace
      BY <2>1 DEF Old
    <3>2. object[k].at \in Nat
      BY <1>1, <3>1 DEF TypeOK, Object
    <3>3. ASSUME NEW t \in Sessions, Uploading(t), session[t].key = k
          PROVE  FALSE
      <4>1. session[t].op = "insert" /\ clock <= object[k].at + Stall
        BY <3>1, <3>3 DEF IInv, UploadsAreAlone, Uploading
      <4> QED
        BY <1>1, <3>1, <3>2, <4>1, Parameters
    <3>4. Settled(k)
      BY <3>1, <3>3 DEF Settled, IInv, KeysAreKnown
    <3> QED
      BY <3>1, <3>4, StillSettled
  <2>5. session'[s] = r => Established(s)'
    BY <2>4 DEF Established, Reaps
  <2> QED
    BY <2>2, <2>3, <2>5, GoesQuietly
<1>3. CASE Examine(s)
  <2>1. session[s].op = "scan" /\ UNCHANGED <<locks, file, clock>>
    BY <1>3 DEF Examine, tables, bounds
  <2>2. PICK k, orphans, todo :
          /\ k \in Keys /\ k \in session[s].todo
          /\ orphans = session[s].orphans \cup (IF Shielded(k) THEN {} ELSE {k})
          /\ todo = session[s].todo \ {k}
          /\ \/ todo # {} /\ Becomes(s, [op |-> "scan", orphans |-> orphans, todo |-> todo])
             \/ orphans # {} /\ Becomes(s, [op |-> "destroy", orphans |-> orphans])
             \/ Ends(s)
    BY <1>3 DEF Examine, First, Ends, Becomes
  <2>3. /\ session[s].orphans \subseteq Keys /\ session[s].todo \subseteq Keys
        /\ \A j \in session[s].todo : Settled(j)
        /\ \A j \in session[s].orphans : Doomed(j)
    BY <1>1, <2>1, Shapes DEF Established
  <2>4. Settled(k)
    BY <2>2, <2>3
  <2>5. ~Shielded(k) => Doomed(k)
    BY <2>4 DEF Shielded, Doomed, Wanted
  <2>6. orphans \subseteq Keys /\ \A j \in orphans : Doomed(j)
    BY <2>2, <2>3, <2>5
  <2>7. todo \subseteq Keys /\ \A j \in todo : Settled(j)
    BY <2>2, <2>3
  <2>8. \A j \in orphans : Doomed(j)'
    BY <2>6, DoomedStays
  <2>9. \A j \in todo : Settled(j)'
    BY <2>7, StillSettled
  <2>10. session[s].op \notin Locking
    BY <2>1 DEF Locking
  <2>11. CASE todo # {} /\ Becomes(s, [op |-> "scan", orphans |-> orphans, todo |-> todo])
    <3> DEFINE r == [op |-> "scan", orphans |-> orphans, todo |-> todo]
    <3>1. r \in Call /\ r.op \notin Locking
      BY <2>6, <2>7, <2>11 DEF Call, Locking
    <3>2. session'[s] = r => Established(s)'
      BY <2>8, <2>9 DEF Established, Reaps
    <3> QED
      BY <2>1, <2>10, <2>11, <3>1, <3>2, GoesQuietly
  <2>12. CASE orphans # {} /\ Becomes(s, [op |-> "destroy", orphans |-> orphans])
    <3> DEFINE r == [op |-> "destroy", orphans |-> orphans]
    <3>1. r \in Call /\ r.op \notin Locking
      BY <2>6, <2>12 DEF Call, Locking
    <3>2. session'[s] = r => Established(s)'
      BY <2>8 DEF Established, Reaps
    <3> QED
      BY <2>1, <2>10, <2>12, <3>1, <3>2, GoesQuietly
  <2>13. CASE Ends(s)
    BY <2>1, <2>10, <2>13, EndsQuietly
  <2> QED
    BY <2>2, <2>11, <2>12, <2>13
<1>4. CASE Destroy(s)
  <2>1. session[s].op = "destroy" /\ UNCHANGED locks /\ session[s].op \notin Locking
    BY <1>4 DEF Destroy, Locking
  <2>2. PICK k, orphans :
          /\ orphans = session[s].orphans \ {k}
          /\ \/ Ends(s)
             \/ orphans # {} /\ Becomes(s, [op |-> "destroy", orphans |-> orphans])
    <3>1. PICK k \in Keys : /\ First(k, session[s].orphans)
                            /\ IF session[s].orphans = {k} THEN Ends(s)
                               ELSE Becomes(s, [op |-> "destroy", orphans |-> session[s].orphans \ {k}])
      BY <1>4 DEF Destroy
    <3> QED
      BY <3>1 DEF First
  <2>3. orphans \subseteq Keys /\ \A j \in orphans : Doomed(j)
    BY <1>1, <2>1, <2>2, Shapes DEF Established
  <2>4. CASE Ends(s)
    BY <2>1, <2>4, EndsQuietly
  <2>5. CASE orphans # {} /\ Becomes(s, [op |-> "destroy", orphans |-> orphans])
    <3> DEFINE r == [op |-> "destroy", orphans |-> orphans]
    <3>1. r \in Call /\ r.op \notin Locking
      BY <2>3, <2>5 DEF Call, Locking
    <3>2. \A j \in orphans : Doomed(j)'
      BY <2>3, DoomedStays
    <3>3. session'[s] = r => Established(s)'
      BY <3>2 DEF Established, Reaps
    <3> QED
      BY <2>1, <2>5, <3>1, <3>3, GoesQuietly
  <2> QED
    BY <2>2, <2>4, <2>5
<1>5. CASE DestroyFails(s)
  BY <1>5, EndsQuietly DEF DestroyFails, Locking
<1> QED
  BY <1>2, <1>3, <1>4, <1>5

(* A crash, or a victim of a deadlock, leaves no lock behind. *)
LEMMA ReleasedGoesOn ==
  ASSUME IInv, NEW s \in Sessions, Released(s)
  PROVE  GoesOn(s)
<1>1. TypeOK /\ Ends(s)
  BY DEF IInv, Released
<1>2. session'[s] = Idle /\ \A t \in Sessions \ {s} : session'[t] = session[t]
  BY <1>1, EndsCall
<1>3. chain' = IF chain = s THEN None ELSE chain
  BY DEF Released
<1>4. rowLock' = [k \in Keys |-> IF rowLock[k] = s THEN None ELSE rowLock[k]]
  BY DEF Released
<1>5. \A t \in Sessions : chain' = t <=> session'[t].op = "mark"
  BY <1>1, <1>2, <1>3, Parameters DEF TypeOK, Idle
<1>6. ASSUME NEW t \in Sessions, NEW k \in Keys
      PROVE  rowLock'[k] = t <=> session'[t].op \in {"confirm", "reaped"} /\ session'[t].key = k
  <2>1. rowLock'[k] = IF rowLock[k] = s THEN None ELSE rowLock[k]
    BY <1>4
  <2>2. CASE t = s
    BY <1>2, <2>1, <2>2, Parameters DEF Idle
  <2>3. CASE t # s
    BY <1>1, <1>2, <2>1, <2>3, Parameters DEF TypeOK
  <2> QED
    BY <2>2, <2>3
<1>7. chain' \in Sessions \cup {None} /\ rowLock' \in [Keys -> Sessions \cup {None}]
  BY <1>1, <1>3, <1>4 DEF TypeOK
<1>8. LocksOK'
  BY <1>5, <1>6, <1>7 DEF LocksOK
<1> QED
  BY <1>1, <1>8, EndsWell

-----------------------------------------------------------------------------
(* The invariant. *)

LEMMA EveryStepGoesOn ==
  ASSUME IInv, Next
  PROVE  \/ \E s \in Sessions : GoesOn(s)
         \/ session' = session /\ UNCHANGED locks
<1>1. ASSUME NEW s \in Sessions, Begin(s) \/ BeginSweep(s) \/ Work(s) \/ Crash(s)
      PROVE  GoesOn(s)
  <2>1. CASE Begin(s)
    BY <2>1, UploadGoesOn, ReservationGoesOn, CompletionGoesOn, DeletionGoesOn, ReapingGoesOn
       DEF Begin
  <2>2. CASE BeginSweep(s)
    BY <2>2, SweepGoesOn
  <2>3. CASE Work(s)
    <3>1. CASE Put(s) \/ PutFails(s) \/ Discard(s) \/ Insert(s)
      <4>1. Uploading(s)
        BY <3>1 DEF Put, PutFails, Discard, Insert, Uploading
      <4> QED
        BY <3>1, <4>1, UploadGoesOn
    <3>2. CASE Victim(s)
      BY <3>2, ReleasedGoesOn DEF Victim
    <3> QED
      BY <2>3, <3>1, <3>2, ReservationGoesOn, CompletionGoesOn, DeletionGoesOn, ReapingGoesOn,
         SweepGoesOn DEF Work
  <2>4. CASE Crash(s)
    BY <2>4, ReleasedGoesOn DEF Crash
  <2> QED
    BY <1>1, <2>1, <2>2, <2>3, <2>4
<1>2. ASSUME Tick \/ \E k \in Keys : StartPut(k) \/ FinishPut(k)
      PROVE  session' = session /\ UNCHANGED locks
  BY <1>2 DEF Tick, StartPut, FinishPut
<1> QED
  BY <1>1, <1>2 DEF Next

LEMMA InitIsInvariant ==
  ASSUME Init
  PROVE  IInv
<1>1. Idle \in Call /\ Idle.op = "idle"
  BY DEF Call, Idle
<1>2. \A s \in Sessions : session[s] = Idle
  BY DEF Init
<1>3. TypeOK
  <2>1. \A s \in Sessions : chain = s <=> session[s].op = "mark"
    BY <1>1, <1>2, Parameters DEF Init
  <2>2. \A s \in Sessions, k \in Keys :
          rowLock[k] = s <=> session[s].op \in {"confirm", "reaped"} /\ session[s].key = k
    BY <1>1, <1>2, Parameters DEF Init
  <2>3. session \in [Sessions -> Call]
    BY <1>1 DEF Init
  <2> QED
    BY <2>1, <2>2, <2>3 DEF Init, TypeOK
<1>4. ReadyHasBytes /\ UploadsAreAlone /\ KeysAreKnown
  BY <1>1, <1>2 DEF Init, ReadyHasBytes, UploadsAreAlone, KeysAreKnown, Uploading
<1>5. \A s \in Sessions : Established(s)
  BY <1>1, <1>2 DEF Established, Reaps
<1> QED
  BY <1>3, <1>4, <1>5 DEF IInv

LEMMA NextKeepsInvariant ==
  ASSUME IInv, Next
  PROVE  IInv'
<1>1. TypeOK /\ LocksOK /\ session \in [Sessions -> Call]
  BY DEF IInv, TypeOK, LocksOK
<1>2. LocksOK' /\ session' \in [Sessions -> Call]
  <2>1. CASE \E s \in Sessions : GoesOn(s)
    BY <2>1 DEF GoesOn
  <2>2. CASE session' = session /\ UNCHANGED locks
    BY <1>1, <2>2 DEF LocksOK, locks
  <2> QED
    BY <2>1, <2>2, EveryStepGoesOn
<1>3. TypeOK'
  BY <1>2, DataTypes DEF TypeOK, LocksOK
<1>4. ASSUME NEW t \in Sessions
      PROVE  Established(t)'
  <2>1. CASE session'[t] = session[t]
    BY <2>1, Undisturbed
  <2>2. CASE session'[t] # session[t]
    BY <2>2, EveryStepGoesOn DEF GoesOn
  <2> QED
    BY <2>1, <2>2
<1> QED
  BY <1>3, <1>4, BytesStay, UploadsStayAlone, KeysStayKnown DEF IInv

LEMMA StutterKeepsInvariant ==
  ASSUME IInv, UNCHANGED vars
  PROVE  IInv'
<1>1. /\ UNCHANGED <<used, file, object, url, arriving>>
      /\ UNCHANGED <<chain, rowLock, session, clock, crashes>>
  BY DEF vars, tables, bucket, locks, bounds
<1>2. TypeOK' /\ ReadyHasBytes' /\ KeysAreKnown'
  BY <1>1 DEF IInv, TypeOK, ReadyHasBytes, KeysAreKnown, Settled, Uploading
<1>3. UploadsAreAlone'
  BY <1>1 DEF IInv, UploadsAreAlone, Uploading
<1>4. \A s \in Sessions : Established(s)'
  BY <1>1 DEF IInv, Established, Reaps, Pending, Doomed, Settled, Uploading, Wanted
<1> QED
  BY <1>2, <1>3, <1>4 DEF IInv

LEMMA Invariance == Spec => []IInv
<1>1. Init => IInv
  BY InitIsInvariant
<1>2. IInv /\ [Next]_vars => IInv'
  BY NextKeepsInvariant, StutterKeepsInvariant
<1> QED
  BY <1>1, <1>2, PTL DEF Spec

-----------------------------------------------------------------------------
(* What follows. *)

(* Every variable keeps its type, the chain is held by the deletion that is
   marking its row and by nobody else, and a row's lock by the completion or
   the collection that took it: a crash and an aborted deadlock leave none
   behind (filelayer.ts, completeUpload, delete, #collectUploadReservationsInner). *)
THEOREM TypeCorrect == Spec => []TypeOK
<1>1. IInv => TypeOK
  BY DEF IInv
<1> QED
  BY <1>1, Invariance, PTL

(* A file that says ready has its bytes, for any number of uploads,
   completions, deletions and collectors in flight, whatever they decided and
   however long ago, as long as an upload's transaction commits within the
   sweep's grace period (filelayer.ts, upload, completeUpload,
   #collectStorageOrphansInner).                                            *)
THEOREM BytesAreThere == Spec => []ReadyHasBytes
<1>1. IInv => ReadyHasBytes
  BY DEF IInv
<1> QED
  BY <1>1, Invariance, PTL

(* A deleted row stays deleted, and only a reservation that is overdue and
   still pending disappears: the completion, deletion or collection that
   lost the race changes nothing (filelayer.ts, completeUpload, delete).    *)
THEOREM RowsEndOnceHolds == Spec => RowsEndOnce
<1>1. ASSUME IInv, Next
      PROVE  \A k \in Keys : file[k] # None /\ file[k].state = "deleted" => file'[k] = file[k]
  <2> SUFFICES ASSUME NEW k \in Keys, file[k] # None, file[k].state = "deleted",
                      file'[k] # file[k]
               PROVE  FALSE
    OBVIOUS
  <2>1. Settled(k)
    BY <1>1 DEF IInv, KeysAreKnown
  <2> QED
    BY <1>1, <2>1, RowMoves DEF Pending
<1>2. ASSUME IInv, Next
      PROVE  \A k \in Keys : file[k] # None /\ file'[k] = None =>
                file[k].state = "pending" /\ file[k].due < clock
  <2> SUFFICES ASSUME NEW k \in Keys, file[k] # None, file'[k] = None
               PROVE  file[k].state = "pending" /\ file[k].due < clock
    OBVIOUS
  <2>1. Settled(k)
    BY <1>2 DEF IInv, KeysAreKnown
  <2> QED
    BY <1>2, <2>1, RowMoves DEF Pending
<1>3. IInv /\ [Next]_vars =>
        [\A k \in Keys : file[k] # None /\ file[k].state = "deleted" => file'[k] = file[k]]_vars
  BY <1>1
<1>4. IInv /\ [Next]_vars =>
        [\A k \in Keys : file[k] # None /\ file'[k] = None =>
            file[k].state = "pending" /\ file[k].due < clock]_vars
  BY <1>2
<1>5. Spec => DeletedIsFinal
  BY <1>3, Invariance, PTL DEF Spec, DeletedIsFinal
<1>6. Spec => OnlyReservationsDisappear
  BY <1>4, Invariance, PTL DEF Spec, OnlyReservationsDisappear
<1> QED
  BY <1>5, <1>6 DEF RowsEndOnce

(* Nobody removes bytes that a row wants.  The five places that remove bytes
   decide before they act; what each decided, that the key is doomed or that
   the upload is its own, no step of anybody else undoes (filelayer.ts,
   upload, delete, #collectUploadReservationsInner,
   #collectStorageOrphansInner).                                            *)
THEOREM NoWantedByteIsLost == Spec => OnlyGarbageIsRemoved
<1>1. ASSUME IInv, Next
      PROVE  \A k \in Keys : object[k] # None /\ object'[k] = None => ~Wanted(k)
  <2> SUFFICES ASSUME NEW k \in Keys, object[k] # None, object'[k] = None
               PROVE  ~Wanted(k)
    OBVIOUS
  <2>1. CASE Doomed(k)
    BY <2>1 DEF Doomed
  <2>2. CASE \E s \in Sessions : Uploading(s) /\ session[s].key = k
    BY <1>1, <2>2 DEF IInv, UploadsAreAlone, Wanted
  <2> QED
    BY <1>1, <2>1, <2>2, ObjectMoves
<1>2. IInv /\ [Next]_vars =>
        [\A k \in Keys : object[k] # None /\ object'[k] = None => ~Wanted(k)]_vars
  BY <1>1
<1> QED
  BY <1>2, Invariance, PTL DEF Spec, OnlyGarbageIsRemoved

-----------------------------------------------------------------------------
(* The refinement of FileLife: what a step does to the life of each file.   *)

LifeRow(k) == [stage  |-> Stage(k),
               retain |-> IF file[k] = None THEN None ELSE file[k].retain,
               due    |-> IF file[k] = None THEN None ELSE file[k].due]

Lives    == [k \in Keys |-> LifeRow(k)]
HasBytes == [k \in Keys |-> object[k] # None]

(* A file without a row is gone when its key is settled, and new before. *)
LEMMA LifeIs ==
  ASSUME IInv, NEW k \in Keys
  PROVE  /\ file[k] # None =>
              /\ Settled(k)
              /\ LifeRow(k) = [stage |-> file[k].state, retain |-> file[k].retain,
                               due |-> file[k].due]
         /\ file[k] = None /\ Settled(k) => LifeRow(k) = Life!Blank("gone")
         /\ ~Settled(k) => file[k] = None /\ LifeRow(k) = Life!Blank("new")
<1>1. file[k] # None => Settled(k)
  BY DEF IInv, KeysAreKnown
<1>2. Settled(k) <=> k \in used /\ ~OnItsWay(k)
  BY DEF Settled, OnItsWay, Uploading
<1> QED
  BY <1>1, <1>2 DEF LifeRow, Stage, Life!Blank

(* A key is given out by an upload that begins, or with its row. *)
LEMMA WhoMints ==
  ASSUME Next, NEW k \in Keys, k \notin used, k \in used'
  PROVE  \E s \in Sessions, in \in Inputs :
           session[s] = Idle /\ (BeginUpload(s, k, in) \/ Reserve(s, k, in))
<1>1. ASSUME NEW s \in Sessions, Begin(s)
      PROVE  \E in \in Inputs : session[s] = Idle /\ (BeginUpload(s, k, in) \/ Reserve(s, k, in))
  BY <1>1 DEF Begin, BeginComplete, BeginDelete, BeginUpload, Reserve, BeginReap, Mints, tables
<1>2. ASSUME NEW s \in Sessions, Work(s)
      PROVE  FALSE
  BY <1>2 DEF Work, Put, PutFails, Discard, Insert, Presign, HeadObject, RefuseClaim, Claim, Update,
              Confirm, AuditDelete, Mark, RemoveBytes, ReapRow, CommitReap, Unlink, Examine,
              Destroy, DestroyFails, Victim, Released, tables
<1>3. ASSUME NEW s \in Sessions, BeginSweep(s) \/ Crash(s)
      PROVE  FALSE
  BY <1>3 DEF BeginSweep, Crash, Released, tables
<1>4. ASSUME Tick \/ \E j \in Keys : StartPut(j) \/ FinishPut(j)
      PROVE  FALSE
  BY <1>4 DEF Tick, StartPut, FinishPut, tables
<1> QED
  BY <1>1, <1>2, <1>3, <1>4 DEF Next

(* The upload that has the key has let it go. *)
LetGo(s, k) ==
  /\ Uploading(s) /\ session[s].key = k
  /\ session'[s] # session[s]
  /\ ~(Uploading(s)' /\ session'[s].key = k)

(* While its row stands as it is, all that can happen to a file is that the
   upload it waits for ends.                                               *)
LEMMA LifeMoves ==
  ASSUME IInv, IInv', Next, NEW k \in Keys, file'[k] = file[k], LifeRow(k)' # LifeRow(k)
  PROVE  /\ LifeRow(k) = Life!Blank("new") /\ LifeRow(k)' = Life!Blank("gone")
         /\ \E s \in Sessions : LetGo(s, k)
<1>1. file[k] = None
  BY LifeIs DEF LifeRow, Stage
<1>2. LifeRow(k) = IF Settled(k) THEN Life!Blank("gone") ELSE Life!Blank("new")
  BY <1>1, LifeIs
<1>3. LifeRow(k)' = IF Settled(k)' THEN Life!Blank("gone") ELSE Life!Blank("new")
  <2>1. file'[k] = None
    BY <1>1
  <2>2. Settled(k)' <=> k \in used' /\ ~OnItsWay(k)'
    BY DEF Settled, OnItsWay, Uploading
  <2> QED
    BY <2>1, <2>2 DEF LifeRow, Stage, Life!Blank
<1>4. ~Settled(k) /\ Settled(k)'
  BY <1>2, <1>3, SettledStays DEF IInv
<1>5. k \in used'
  BY <1>4 DEF Settled
<1>6. CASE k \notin used
  <2>1. PICK s \in Sessions, in \in Inputs : BeginUpload(s, k, in) \/ Reserve(s, k, in)
    BY <1>5, <1>6, WhoMints
  <2>2. CASE BeginUpload(s, k, in)
    <3>1. Uploading(s)' /\ session'[s].key = k
      BY <2>2 DEF BeginUpload, Becomes, Uploading, IInv, TypeOK
    <3> QED
      BY <1>4, <3>1 DEF Settled
  <2>3. CASE Reserve(s, k, in)
    <3>1. file'[k] = NewRow(in, "pending", clock + Ttl)
      BY <2>3 DEF Reserve, IInv, TypeOK
    <3>2. file'[k] # None
      <4>1. clock + Ttl \in Nat
        BY Parameters DEF IInv, TypeOK
      <4>2. "pending" \in FileState
        BY DEF FileState
      <4> QED
        BY <3>1, <4>1, <4>2, NewRowIsRow, Parameters DEF IInv
    <3> QED
      BY <1>1, <3>2
  <2> QED
    BY <2>1, <2>2, <2>3
<1>7. CASE k \in used
  <2>1. PICK s \in Sessions : Uploading(s) /\ session[s].key = k
    BY <1>4, <1>7 DEF Settled
  <2>2. ~(Uploading(s)' /\ session'[s].key = k)
    BY <1>4 DEF Settled
  <2>3. session'[s] # session[s]
    BY <2>1, <2>2 DEF Uploading
  <2> QED
    BY <1>2, <1>3, <1>4, <2>1, <2>2, <2>3 DEF LetGo
<1> QED
  BY <1>6, <1>7

(* A step is a step of one call. *)
LEMMA OneCallMoves ==
  ASSUME TypeOK, Next, NEW s \in Sessions, NEW t \in Sessions,
         session'[s] # session[s], session'[t] # session[t]
  PROVE  s = t
<1> DEFINE Only(u) == \A x \in Sessions : x # u => session'[x] = session[x]
<1>1. ASSUME NEW u \in Sessions, NEW r, Becomes(u, r)
      PROVE  Only(u)
  BY <1>1 DEF Becomes, TypeOK
<1>2. ASSUME NEW u \in Sessions, Ends(u)
      PROVE  Only(u)
  BY <1>2 DEF Ends, TypeOK
<1>3. ASSUME NEW u \in Sessions, Begin(u) \/ BeginSweep(u)
      PROVE  Only(u)
  <2>1. ASSUME NEW k \in Keys, BeginComplete(u, k) \/ BeginDelete(u, k)
        PROVE  Only(u)
    BY <1>1, <2>1 DEF BeginComplete, BeginDelete
  <2>2. ASSUME NEW k \in Keys, NEW in \in Inputs, BeginUpload(u, k, in) \/ Reserve(u, k, in)
        PROVE  Only(u)
    BY <1>1, <2>2 DEF BeginUpload, Reserve
  <2>3. ASSUME BeginReap(u) \/ BeginSweep(u)
        PROVE  Only(u)
    BY <1>1, <2>3 DEF BeginReap, BeginSweep
  <2> HIDE DEF Only
  <2> QED
    BY <1>3, <2>1, <2>2, <2>3 DEF Begin
<1>4. ASSUME NEW u \in Sessions, Work(u) \/ Crash(u)
      PROVE  Only(u)
  <2>1. ASSUME \/ PutFails(u) \/ Discard(u) \/ Insert(u) \/ Presign(u) \/ RefuseClaim(u)
               \/ Confirm(u) \/ RemoveBytes(u) \/ DestroyFails(u) \/ Crash(u) \/ Victim(u)
        PROVE  Only(u)
    BY <1>2, <2>1 DEF PutFails, Discard, Insert, Presign, RefuseClaim, Confirm, RemoveBytes,
                      DestroyFails, Crash, Victim, Released
  <2>2. ASSUME \/ Put(u) \/ HeadObject(u) \/ Claim(u) \/ Update(u) \/ AuditDelete(u) \/ Mark(u)
        PROVE  Only(u)
    BY <1>1, <1>2, <2>2 DEF Put, HeadObject, Claim, Update, AuditDelete, Mark
  <2>3. ASSUME NEW k \in Keys, ReapRow(u, k)
        PROVE  Only(u)
    BY <1>1, <2>3 DEF ReapRow
  <2>4. ASSUME CommitReap(u) \/ Unlink(u) \/ Examine(u) \/ Destroy(u)
        PROVE  Only(u)
    BY <1>1, <1>2, <2>4 DEF CommitReap, Unlink, Examine, Destroy
  <2> HIDE DEF Only
  <2> QED
    BY <1>4, <2>1, <2>2, <2>3, <2>4 DEF Work
<1>5. ASSUME Tick \/ \E k \in Keys : StartPut(k) \/ FinishPut(k)
      PROVE  session' = session
  BY <1>5 DEF Tick, StartPut, FinishPut
<1> QED
  BY <1>3, <1>4, <1>5 DEF Next

(* Only the file of the call that moves can move. *)
LEMMA OtherLivesStand ==
  ASSUME IInv, IInv', Next, NEW s \in Sessions, NEW k \in Keys,
         Uploading(s) => session[s].key = k,
         \A t \in Sessions \ {s} : session'[t] = session[t],
         \A j \in Keys \ {k} : file'[j] = file[j]
  PROVE  /\ \A j \in Keys \ {k} : LifeRow(j)' = LifeRow(j)
         /\ \A from, to : LifeRow(k).stage = from /\ LifeRow(k)'.stage = to => Life!Moves(k, from, to)
<1>1. ASSUME NEW j \in Keys \ {k}
      PROVE  LifeRow(j)' = LifeRow(j)
  <2>1. \A t \in Sessions : ~LetGo(t, j)
    BY DEF LetGo
  <2> QED
    BY <2>1, LifeMoves
<1>2. Lives' = [Lives EXCEPT ![k] = LifeRow(k)']
  BY <1>1 DEF Lives
<1>3. Lives[k] = LifeRow(k) /\ Lives'[k] = LifeRow(k)'
  BY DEF Lives
<1>4. ASSUME NEW from, NEW to, LifeRow(k).stage = from, LifeRow(k)'.stage = to
      PROVE  Life!Moves(k, from, to)
  BY <1>2, <1>3, <1>4 DEF Life!Moves, Lives, LifeRow
<1> QED
  BY <1>1, <1>4

LEMMA LivesStand ==
  ASSUME IInv, IInv', Next, file' = file, \A s \in Sessions, k \in Keys : ~LetGo(s, k)
  PROVE  Lives' = Lives
BY LifeMoves DEF Lives

(* The steps that write a row: each is a step of that file's life. *)
LEMMA RowsAreLives ==
  ASSUME IInv, IInv', Next, file' # file
  PROVE  Life!LNext
<1>1. TypeOK /\ file \in [Keys -> Row \cup {None}] /\ clock \in Nat
  BY DEF IInv, TypeOK
<1>2. PICK s \in Sessions :
        \/ Insert(s) \/ Confirm(s) \/ Mark(s) \/ CommitReap(s)
        \/ session[s] = Idle /\ \E j \in Keys, in \in Inputs : Reserve(s, j, in)
  BY WhoWritesRows
<1>3. session[s] \in Call
  BY <1>1 DEF TypeOK
<1>4. ASSUME NEW k, k = session[s].key, Insert(s)
      PROVE  Life!LNext
  <2>1. /\ k \in Keys /\ session[s].row \in Row /\ session[s].row.state = "ready"
        /\ object[k] # None /\ Uploading(s)
    BY <1>4, InsertsOwn DEF Insert, Uploading
  <2>2. /\ file' = [file EXCEPT ![k] = session[s].row] /\ UNCHANGED <<object, clock>>
        /\ \A t \in Sessions \ {s} : session'[t] = session[t]
    BY <1>1, <1>4, EndsCall DEF Insert, bucket, bounds
  <2>3. LifeRow(k) = Life!Blank("new")
    BY <1>4, <2>1, LifeIs DEF Settled
  <2>4. LifeRow(k)'.stage = "ready"
    BY <1>1, <2>1, <2>2, Parameters DEF LifeRow, Stage
  <2>5. Life!Moves(k, "new", "ready")
    BY <1>4, <2>1, <2>2, <2>3, <2>4, OtherLivesStand DEF Life!Blank
  <2>6. Life!Store(k)
    BY <2>1, <2>2, <2>5 DEF Life!Store
  <2> QED
    BY <2>1, <2>6 DEF Life!LNext
<1>5. ASSUME session[s] = Idle, NEW j \in Keys, NEW in \in Inputs, Reserve(s, j, in)
      PROVE  Life!LNext
  <2> DEFINE r == NewRow(in, "pending", clock + Ttl)
  <2>1. ~Uploading(s) /\ ~Settled(j)
    BY <1>5 DEF Idle, Uploading, Reserve, Mints, Settled
  <2>2. /\ file' = [file EXCEPT ![j] = r] /\ UNCHANGED <<object, clock>>
        /\ \A t \in Sessions \ {s} : session'[t] = session[t]
    BY <1>1, <1>5 DEF Reserve, Becomes, bucket, bounds, TypeOK
  <2>3. r \in Row /\ r.state = "pending" /\ r.due = clock + Ttl /\ r # None
    <3>1. clock + Ttl \in Nat /\ "pending" \in FileState
      BY <1>1, Parameters DEF FileState
    <3>2. r \in Row
      BY <1>1, <1>5, <3>1, NewRowIsRow
    <3> QED
      BY <3>2, Parameters DEF NewRow
  <2> HIDE DEF r
  <2>4. LifeRow(j) = Life!Blank("new")
    BY <2>1, LifeIs
  <2>5. LifeRow(j)'.stage = "pending" /\ LifeRow(j)'.due = clock + Ttl
    BY <1>1, <2>2, <2>3 DEF LifeRow, Stage
  <2>6. Life!Moves(j, "new", "pending")
    BY <1>1, <2>1, <2>2, <2>4, <2>5, OtherLivesStand DEF Life!Blank
  <2>7. Lives'[j].due > clock
    <3>1. clock + Ttl > clock
      BY <1>1, FileStoreAssumption
    <3> QED
      BY <2>5, <3>1 DEF Lives
  <2>8. Life!Reserve(j)
    BY <2>2, <2>6, <2>7 DEF Life!Reserve, Lives, LifeRow
  <2> QED
    BY <2>8 DEF Life!LNext
<1>6. ASSUME NEW k, k = session[s].key, Confirm(s) \/ Mark(s) \/ CommitReap(s)
      PROVE  /\ k \in Keys /\ ~Uploading(s) /\ Settled(k) /\ file'[k] # file[k]
             /\ UNCHANGED <<object, clock>>
             /\ \A t \in Sessions \ {s} : session'[t] = session[t]
             /\ \A j \in Keys \ {k} : file'[j] = file[j]
  <2>1. k \in Keys /\ ~Uploading(s) /\ Settled(k)
    BY <1>3, <1>6, Shapes DEF Confirm, Mark, CommitReap, Uploading, IInv, Established
  <2>2. UNCHANGED <<object, clock>> /\ \A t \in Sessions \ {s} : session'[t] = session[t]
    BY <1>1, <1>6 DEF Confirm, Mark, CommitReap, bucket, bounds, Ends, Becomes, TypeOK
  <2>3. \A j \in Keys \ {k} : file'[j] = file[j]
    BY <1>1, <1>6 DEF Confirm, Mark, CommitReap
  <2>4. file' \in [Keys -> Row \cup {None}]
    BY DEF IInv, TypeOK
  <2>5. file'[k] # file[k]
    BY <1>1, <2>1, <2>3, <2>4
  <2> QED
    BY <2>1, <2>2, <2>3, <2>5
<1>7. ASSUME NEW k, k = session[s].key, Confirm(s) \/ Mark(s), NEW to \in {"ready", "deleted"},
             file' = [file EXCEPT ![k].state = to], file[k] # None
      PROVE  /\ Life!Moves(k, file[k].state, to) /\ Life!Keeps(k)
             /\ Lives[k].retain = file[k].retain
  <2>1. file[k] \in Row /\ file'[k] = [file[k] EXCEPT !.state = to] /\ to \in FileState
    BY <1>1, <1>6, <1>7 DEF FileState
  <2>2. /\ file'[k].state = to /\ file'[k].retain = file[k].retain /\ file'[k].due = file[k].due
        /\ file'[k] # None
    BY <2>1, RowUpdate, Parameters
  <2>3. /\ LifeRow(k).stage = file[k].state /\ LifeRow(k)'.stage = to
        /\ LifeRow(k).retain = file[k].retain /\ LifeRow(k)'.retain = file[k].retain
        /\ LifeRow(k).due = file[k].due /\ LifeRow(k)'.due = file[k].due
    BY <1>7, <2>2 DEF LifeRow, Stage
  <2>4. Life!Moves(k, file[k].state, to)
    BY <1>6, <1>7, <2>3, OtherLivesStand
  <2>5. Lives[k] = LifeRow(k) /\ Lives'[k] = LifeRow(k)'
    BY <1>6, <1>7 DEF Lives
  <2>6. Life!Keeps(k)
    BY <2>3, <2>5 DEF Life!Keeps, Lives, LifeRow
  <2> QED
    BY <2>3, <2>4, <2>5, <2>6
<1>8. ASSUME NEW k, k = session[s].key, Confirm(s)
      PROVE  Life!LNext
  <2>1. Pending(k) /\ object[k] # None
    BY <1>8 DEF Confirm, IInv, Established
  <2>2. Life!Moves(k, "pending", "ready") /\ Life!Keeps(k)
    BY <1>7, <1>8, <2>1 DEF Confirm, Pending
  <2>3. Life!Complete(k)
    BY <1>6, <1>8, <2>1, <2>2 DEF Life!Complete
  <2> QED
    BY <1>6, <1>8, <2>3 DEF Life!LNext
<1>9. ASSUME NEW k, k = session[s].key, Mark(s)
      PROVE  Life!LNext
  <2>1. file[k] # None /\ file' = [file EXCEPT ![k].state = "deleted"]
    BY <1>9 DEF Mark
  <2>2. file[k].retain = None \/ file[k].retain <= clock
    BY <1>9, <2>1 DEF Mark, IInv, Established
  <2>3. Life!Moves(k, file[k].state, "deleted") /\ Life!Keeps(k) /\ Lives[k].retain = file[k].retain
    BY <1>7, <1>9, <2>1
  <2>4. file[k].state \in {"pending", "ready"}
    <3>1. file[k] \in Row /\ file'[k] = [file[k] EXCEPT !.state = "deleted"]
      BY <1>1, <1>6, <1>9, <2>1
    <3>2. "deleted" \in FileState
      BY DEF FileState
    <3>3. file[k].state # "deleted"
      BY <1>6, <1>9, <3>1, <3>2, RowUpdate
    <3> QED
      BY <3>1, <3>3 DEF Row, FileState
  <2>5. Lives[k].retain = None \/ Lives[k].retain <= clock
    BY <2>2, <2>3
  <2>6. Life!Delete(k)
    BY <1>6, <1>9, <2>3, <2>4, <2>5 DEF Life!Delete, Lives, LifeRow
  <2> QED
    BY <1>6, <1>9, <2>6 DEF Life!LNext
<1>10. ASSUME NEW k, k = session[s].key, CommitReap(s)
      PROVE  Life!LNext
  <2>1. Pending(k) /\ file[k].due # None /\ file[k].due < clock
    BY <1>10 DEF CommitReap, IInv, Established
  <2>2. file'[k] = None /\ k \in used
    BY <1>1, <1>6, <1>10 DEF CommitReap, Settled
  <2>3. ~OnItsWay(k)' /\ k \in used'
    BY <1>6, <1>10, SettledStays, <1>1 DEF Settled, OnItsWay, Uploading
  <2>4. LifeRow(k).stage = "pending" /\ LifeRow(k)'.stage = "gone" /\ LifeRow(k).due = file[k].due
    BY <2>1, <2>2, <2>3 DEF LifeRow, Stage, Pending
  <2>5. Life!Moves(k, "pending", "gone")
    BY <1>6, <1>10, <2>4, OtherLivesStand
  <2>6. Lives[k] = LifeRow(k)
    BY <1>6, <1>10 DEF Lives
  <2>7. Lives[k].due # None /\ Lives[k].due < clock
    BY <2>1, <2>4, <2>6
  <2>8. Life!Collect(k)
    BY <1>6, <1>10, <2>5, <2>7 DEF Life!Collect, Lives, LifeRow
  <2> QED
    BY <1>6, <1>10, <2>8 DEF Life!LNext
<1> QED
  BY <1>2, <1>4, <1>5, <1>8, <1>9, <1>10

(* The steps that write an object and no row. *)
LEMMA ObjectsAreLives ==
  ASSUME IInv, IInv', Next, file' = file, object' # object
  PROVE  Life!LNext
<1>1. TypeOK /\ object \in [Keys -> Object \cup {None}] /\ clock \in Nat
  BY DEF IInv, TypeOK
<1>2. ASSUME NEW k \in Keys, NEW fits, object' = [object EXCEPT ![k] = [at |-> clock, fits |-> fits]],
             fits \in BOOLEAN
      PROVE  HasBytes' = [HasBytes EXCEPT ![k] = TRUE]
  <2>1. [at |-> clock, fits |-> fits] # None
    BY <1>1, <1>2, Parameters DEF Object
  <2> QED
    BY <1>1, <1>2, <2>1 DEF HasBytes
<1>3. ASSUME NEW k \in Keys, Erased(k)
      PROVE  HasBytes' = [HasBytes EXCEPT ![k] = FALSE]
  BY <1>1, <1>3 DEF Erased, HasBytes
<1>4. ASSUME NEW s \in Sessions, Put(s)
      PROVE  Life!LNext
  <2>1. PICK k \in Keys : k = session[s].key
    BY <1>1, <1>4, Shapes DEF Put, TypeOK
  <2>2. Uploading(s)' /\ session'[s].key = k
    BY <1>1, <1>4, <2>1, PutGoesOn DEF Uploading
  <2>3. \A t \in Sessions \ {s} : session'[t] = session[t]
    BY <1>1, <1>4 DEF Put, Becomes, TypeOK
  <2>4. \A t \in Sessions, j \in Keys : ~LetGo(t, j)
    BY <2>1, <2>2, <2>3 DEF LetGo
  <2>5. Lives' = Lives
    BY <2>4, LivesStand
  <2>6. object' = [object EXCEPT ![k] = [at |-> clock, fits |-> TRUE]] /\ clock' = clock
    BY <1>4, <2>1 DEF Put, Written, bounds
  <2>7. HasBytes' = [HasBytes EXCEPT ![k] = TRUE]
    BY <1>2, <2>6
  <2>8. Life!Arrive(k)
    BY <2>5, <2>6, <2>7 DEF Life!Arrive, Lives, LifeRow, HasBytes
  <2> QED
    BY <2>8 DEF Life!LNext
<1>5. ASSUME NEW k \in Keys, FinishPut(k)
      PROVE  Life!LNext
  <2>1. PICK fits \in BOOLEAN : object' = [object EXCEPT ![k] = [at |-> clock, fits |-> fits]]
    BY <1>5, FileStoreAssumption DEF FinishPut, Written
  <2>2. session' = session /\ clock' = clock
    BY <1>5 DEF FinishPut, bounds
  <2>3. Lives' = Lives
    BY <2>2, LivesStand DEF LetGo
  <2>4. HasBytes' = [HasBytes EXCEPT ![k] = TRUE]
    BY <1>2, <2>1
  <2>5. Life!Arrive(k)
    BY <2>2, <2>3, <2>4 DEF Life!Arrive, Lives, LifeRow, HasBytes
  <2> QED
    BY <2>5 DEF Life!LNext
<1>6. ASSUME NEW s \in Sessions, Discard(s)
      PROVE  Life!LNext
  <2>1. PICK k \in Keys : k = session[s].key
    BY <1>1, <1>6, Shapes DEF Discard, TypeOK
  <2>2. Uploading(s) /\ Erased(k) /\ clock' = clock /\ used' = used
    BY <1>6, <2>1 DEF Discard, Uploading, bounds, tables
  <2>3. session'[s] = Idle /\ \A t \in Sessions \ {s} : session'[t] = session[t]
    BY <1>1, <1>6, EndsCall DEF Discard
  <2>4. k \in used /\ file[k] = None /\ ~Settled(k)
    BY <2>1, <2>2 DEF IInv, UploadsAreAlone, Settled
  <2>5. ~OnItsWay(k)'
    BY <2>1, <2>2, <2>3 DEF IInv, UploadsAreAlone, Uploading, OnItsWay, Idle
  <2>6. LifeRow(k).stage = "new" /\ LifeRow(k)'.stage = "gone"
    <3>1. LifeRow(k) = Life!Blank("new")
      BY <2>4, LifeIs
    <3> QED
      BY <2>2, <2>4, <2>5, <3>1 DEF LifeRow, Stage, Life!Blank
  <2>7. Life!Moves(k, "new", "gone")
    BY <2>1, <2>3, <2>6, OtherLivesStand
  <2>8. HasBytes' = [HasBytes EXCEPT ![k] = FALSE]
    BY <1>3, <2>2
  <2>9. Life!GiveUp(k)
    BY <2>2, <2>7, <2>8 DEF Life!GiveUp, HasBytes
  <2> QED
    BY <2>9 DEF Life!LNext
<1>7. ASSUME NEW s \in Sessions, RemoveBytes(s) \/ Unlink(s) \/ Destroy(s)
      PROVE  Life!LNext
  <2>1. PICK k \in Keys : Doomed(k) /\ Erased(k)
    <3>1. CASE RemoveBytes(s) \/ Unlink(s)
      BY <1>1, <3>1, Shapes DEF RemoveBytes, Unlink, IInv, Established, TypeOK
    <3>2. CASE Destroy(s)
      BY <3>2 DEF Destroy, First, IInv, Established
    <3> QED
      BY <1>7, <3>1, <3>2
  <2>2. ~Uploading(s) /\ clock' = clock
    BY <1>7 DEF RemoveBytes, Unlink, Destroy, Uploading, bounds
  <2>3. \A t \in Sessions \ {s} : session'[t] = session[t]
    BY <1>1, <1>7 DEF RemoveBytes, Unlink, Destroy, Ends, Becomes, TypeOK
  <2>4. \A t \in Sessions, j \in Keys : ~LetGo(t, j)
    BY <2>2, <2>3 DEF LetGo
  <2>5. Lives' = Lives
    BY <2>4, LivesStand
  <2>6. Lives[k].stage \in {"deleted", "gone"}
    <3>1. LifeRow(k).stage \in {"deleted", "gone"}
      BY <2>1, LifeIs DEF Doomed, Wanted, Life!Blank
    <3> QED
      BY <3>1 DEF Lives
  <2>7. HasBytes' = [HasBytes EXCEPT ![k] = FALSE]
    BY <1>3, <2>1
  <2>8. Life!Remove(k)
    BY <2>2, <2>5, <2>6, <2>7 DEF Life!Remove, Lives, LifeRow, HasBytes
  <2> QED
    BY <2>8 DEF Life!LNext
<1> QED
  BY <1>4, <1>5, <1>6, <1>7, WhoWritesObjects

(* Of the others, some end an upload, and time passes. *)
LEMMA OthersAreLives ==
  ASSUME IInv, IInv', Next, file' = file, object' = object
  PROVE  Life!LNext \/ (Lives' = Lives /\ HasBytes' = HasBytes /\ clock' = clock)
<1>1. TypeOK /\ HasBytes' = HasBytes
  BY DEF IInv, HasBytes
<1>2. CASE Tick
  <2>1. session' = session /\ clock' = clock + 1
    BY <1>2 DEF Tick
  <2>2. Lives' = Lives
    BY <2>1, LivesStand DEF LetGo
  <2>3. Life!Tick
    BY <1>1, <2>1, <2>2 DEF Life!Tick, Lives, LifeRow, HasBytes
  <2> QED
    BY <2>3 DEF Life!LNext
<1>3. CASE clock' = clock /\ Lives' # Lives
  <2>1. PICK k \in Keys : LifeRow(k)' # LifeRow(k)
    BY <1>3 DEF Lives
  <2>2. PICK s \in Sessions : LetGo(s, k)
    BY <2>1, LifeMoves
  <2>3. \A t \in Sessions \ {s} : session'[t] = session[t]
    BY <1>1, <2>2, OneCallMoves DEF LetGo
  <2>4. LifeRow(k).stage = "new" /\ LifeRow(k)'.stage = "gone"
    BY <2>1, LifeMoves DEF Life!Blank
  <2>5. session[s].key = k
    BY <2>2 DEF LetGo
  <2>6. Life!Moves(k, "new", "gone")
    BY <2>3, <2>4, <2>5, OtherLivesStand
  <2>7. Life!GiveUp(k)
    BY <1>1, <1>3, <2>6 DEF Life!GiveUp, HasBytes
  <2> QED
    BY <2>7 DEF Life!LNext
<1> QED
  BY <1>1, <1>2, <1>3, WhoWritesTheRest

(* FileStore implements FileLife: whatever calls are in flight, each file is
   reserved or stored, completed, deleted or collected in one step and once;
   it has its bytes when it becomes ready and keeps them until it has ended;
   and none is deleted under a retention hold (filelayer.ts, upload,
   createUpload, completeUpload, delete and the two collectors).            *)
THEOREM LivesAreImplemented == Spec => ImplementsLife
<1>1. Init => Life!LInit
  BY DEF Init, Life!LInit, Life!Blank, Stage, OnItsWay, Idle
<1>2. ASSUME IInv, IInv', [Next]_vars
      PROVE  [Life!LNext]_Life!lvars
  <2>1. CASE Next
    <3>1. Life!LNext \/ (Lives' = Lives /\ HasBytes' = HasBytes /\ clock' = clock)
      BY <1>2, <2>1, RowsAreLives, ObjectsAreLives, OthersAreLives
    <3> QED
      BY <3>1 DEF Life!lvars, Lives, LifeRow, HasBytes
  <2>2. CASE UNCHANGED vars
    BY <2>2 DEF vars, tables, bucket, locks, bounds, Life!lvars, Stage, OnItsWay
  <2> QED
    BY <1>2, <2>1, <2>2
<1> QED
  BY <1>1, <1>2, Invariance, PTL DEF Spec, ImplementsLife, Life!Spec
=============================================================================
