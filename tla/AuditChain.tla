----------------------------- MODULE AuditChain -----------------------------
(***************************************************************************)
(* One organisation's audit chain: audit_append of schema.sql, and the     *)
(* methods of store.ts that append, trim, erase, seal and verify.          *)
(*                                                                         *)
(* An event stands for its row and its hash at once: the digest commits to *)
(* the event and, through prev_hash, to everything before it, so the id    *)
(* identifies the hash.  A prev of 0 is a NULL prev_hash.  Rows are never  *)
(* updated (the table's rules refuse it), so hash_mismatch cannot occur.   *)
(***************************************************************************)
EXTENDS Integers, FiniteSets

CONSTANTS Writers,        \* transactions that append, by whatever process
          People,         \* the actors events are about
          Erasable,       \* the actors somebody asks to have erased
          Page,           \* rows verifyAuditChain reads at a time: 2000
          MaxId,          \* bound on the ids handed out
          MaxLost,        \* bound on events lost outside the library
          MaxTrims, MaxSeals   \* bounds on checkpoints

ASSUME AuditAssumption ==
  /\ Page \in Nat \ {0}
  /\ Erasable \subseteq People
  /\ {MaxId, MaxLost, MaxTrims, MaxSeals} \subseteq Nat
  /\ 0 \notin Writers

VARIABLES events,       \* audit_event, committed: [id, actor, prev]
          nextId,       \* the id sequence
          checkpoints,  \* audit_checkpoint: [kind, through]
          lock,         \* holder of the chain's advisory lock, or 0
          pending,      \* the rows each writer has appended, uncommitted
          keeper,       \* the transaction of a trim or an erasure
          sealing,      \* the head sealAuditChain has read, or 0
          verify,       \* a run of verifyAuditChain; `at' is history: the
                        \* checkpoints there were when it began
          overrun,      \* history: a removal took more than it attested
          lost          \* history: rows lost without a record

vars == <<events, nextId, checkpoints, lock, pending, keeper, sealing,
          verify, overrun, lost>>

Idle == [phase |-> "idle"]

HeadOf(ev) == IF ev = {} THEN 0
              ELSE (CHOOSE e \in ev : \A f \in ev : f.id <= e.id).id

Trims == {c.through : c \in {k \in checkpoints : k.kind = "trim"}}
Seals == {c.through : c \in {k \in checkpoints : k.kind = "seal"}}

Init ==
  /\ events = {}
  /\ nextId = 1
  /\ checkpoints = {}
  /\ lock = 0
  /\ pending = [w \in Writers |-> {}]
  /\ keeper = Idle
  /\ sealing = 0
  /\ verify = Idle
  /\ overrun = FALSE
  /\ lost = {}

-----------------------------------------------------------------------------
(* Mutants: the head is read without waiting for the lock; a transaction does
   not see the rows it has appended itself.                                *)
Append_Unlocked(w, a) ==
  /\ nextId <= MaxId
  /\ lock' = w
  /\ pending' = [pending EXCEPT ![w] = @ \cup
       {[id |-> nextId, actor |-> a, prev |-> HeadOf(events \cup @)]}]
  /\ nextId' = nextId + 1
  /\ UNCHANGED <<events, checkpoints, keeper, sealing, verify, overrun, lost>>

Append_CommittedHead(w, a) ==
  /\ nextId <= MaxId
  /\ lock \in {0, w}
  /\ lock' = w
  /\ pending' = [pending EXCEPT ![w] = @ \cup
       {[id |-> nextId, actor |-> a, prev |-> HeadOf(events)]}]
  /\ nextId' = nextId + 1
  /\ UNCHANGED <<events, checkpoints, keeper, sealing, verify, overrun, lost>>

(* audit_append.  The lock is kept to the end of the transaction, which may
   append again; the head is read after the lock is granted.               *)

Append(w, a) ==
  /\ nextId <= MaxId
  /\ lock \in {0, w}
  /\ lock' = w
  /\ pending' = [pending EXCEPT ![w] = @ \cup
       {[id |-> nextId, actor |-> a, prev |-> HeadOf(events \cup @)]}]
  /\ nextId' = nextId + 1
  /\ UNCHANGED <<events, checkpoints, keeper, sealing, verify, overrun, lost>>

Commit(w) ==
  /\ lock = w
  /\ events' = events \cup pending[w]
  /\ pending' = [pending EXCEPT ![w] = {}]
  /\ lock' = 0
  /\ UNCHANGED <<nextId, checkpoints, keeper, sealing, verify, overrun, lost>>

(* A rollback or a crash: the rows are gone, their ids are spent. *)
Abort(w) ==
  /\ lock = w
  /\ pending' = [pending EXCEPT ![w] = {}]
  /\ lock' = 0
  /\ UNCHANGED <<events, nextId, checkpoints, keeper, sealing, verify, overrun, lost>>

-----------------------------------------------------------------------------
(* trimAuditChain and eraseActorFromAuditChain: one transaction each, under
   an advisory lock of their own, which audit_append does not take.  Each
   statement sees what is committed when it starts.                        *)

Targets(op) == IF op.kind = "trim" THEN {e \in events : e.id <= op.edge}
                                   ELSE {e \in events : e.actor = op.actor}

(* Mutant: one checkpoint for the whole erasure. *)
RunEnds_LastOnly(T) == {e \in T : \A f \in T : f.id <= e.id}

(* The last event of each contiguous run of the targets: the one the first
   survivor after the hole points at.                                      *)
RunEnds(T) ==
  {e \in T : \A f \in T : f.id > e.id => \E g \in events \ T : e.id < g.id /\ g.id < f.id}

ReadBoundary(op) ==
  /\ keeper = Idle
  /\ Targets(op) # {}
  /\ Cardinality(Trims) < MaxTrims
  /\ keeper' = [phase |-> "read", op |-> op, seen |-> Targets(op),
                attest |-> {e.id : e \in RunEnds(Targets(op))}, doomed |-> {}]
  /\ UNCHANGED <<events, nextId, checkpoints, lock, pending, sealing, verify, overrun, lost>>

(* keepLast may put the edge at any event; so may a date. *)
StartTrim  == \E e \in events : ReadBoundary([kind |-> "trim", edge |-> e.id])
StartErase == \E a \in Erasable : ReadBoundary([kind |-> "erase", actor |-> a])

Delete ==
  /\ keeper.phase = "read"
  /\ keeper' = [keeper EXCEPT !.phase = "deleted", !.doomed = Targets(keeper.op)]
  /\ UNCHANGED <<events, nextId, checkpoints, lock, pending, sealing, verify, overrun, lost>>

(* "Read back that the rows are gone": a row that matches and is not, say
   one committed since, aborts the whole transaction.                      *)
ReadBack ==
  /\ keeper.phase = "deleted"
  /\ keeper' = IF Targets(keeper.op) \subseteq keeper.doomed
               THEN [keeper EXCEPT !.phase = "checked"] ELSE Idle
  /\ UNCHANGED <<events, nextId, checkpoints, lock, pending, sealing, verify, overrun, lost>>

CommitRemoval ==
  /\ keeper.phase = "checked"
  /\ events' = events \ keeper.doomed
  /\ checkpoints' = checkpoints \cup
       {[kind |-> "trim", through |-> i] : i \in keeper.attest}
  /\ overrun' = (overrun \/ ~(keeper.doomed \subseteq keeper.seen))
  /\ keeper' = Idle
  /\ UNCHANGED <<nextId, lock, pending, sealing, verify, lost>>

-----------------------------------------------------------------------------
(* sealAuditChain: two statements, no transaction, no lock. *)

SealRead ==
  /\ sealing = 0
  /\ Cardinality(Seals) < MaxSeals
  /\ sealing' = HeadOf(events)
  /\ UNCHANGED <<events, nextId, checkpoints, lock, pending, keeper, verify, overrun, lost>>

(* Mutant: an empty chain is sealed too. *)
SealWrite_Empty ==
  /\ checkpoints' = checkpoints \cup {[kind |-> "seal", through |-> sealing]}
  /\ sealing' = 0
  /\ UNCHANGED <<events, nextId, lock, pending, keeper, verify, overrun, lost>>

SealWrite ==
  /\ sealing # 0
  /\ checkpoints' = checkpoints \cup {[kind |-> "seal", through |-> sealing]}
  /\ sealing' = 0
  /\ UNCHANGED <<events, nextId, lock, pending, keeper, verify, overrun, lost>>

-----------------------------------------------------------------------------
(* verifyAuditChain: the head, then the checkpoints, then the chain page by
   page, each in a statement of its own.                                   *)

(* The head is behind the highest seal and no trim reaches that far. *)
Truncated(head, trims, seals) ==
  \E s \in seals : /\ \A u \in seals : u <= s
                   /\ head < s
                   /\ \A t \in trims : t < s

(* Mutants: the first row of a page is taken as it comes; no page carries its
   last row over to the next.                                              *)
Broken_FirstUnchecked(rows, prev, attested) ==
  {e \in rows :
     /\ \E f \in rows : f.id < e.id
     /\ e.prev # HeadOf({f \in rows : f.id < e.id})
     /\ ~(e.prev # 0 /\ e.prev \in attested)}

Broken_NoCarry(rows, prev, attested) ==
  {e \in rows :
     /\ e.prev # HeadOf({f \in rows : f.id < e.id})
     /\ ~(e.prev # 0 /\ e.prev \in attested)}

(* What an event must point at: the row before it, or carried over from the
   last page; an attested hash will do instead.                            *)
Broken(rows, prev, attested) ==
  {e \in rows :
     /\ e.prev # (IF \E f \in rows : f.id < e.id
                  THEN HeadOf({f \in rows : f.id < e.id}) ELSE prev)
     /\ ~(e.prev # 0 /\ e.prev \in attested)}

VerifyHead ==
  /\ verify.phase \in {"idle", "done"}
  /\ verify' = [phase |-> "head", at |-> checkpoints, head |-> HeadOf(events)]
  /\ UNCHANGED <<events, nextId, checkpoints, lock, pending, keeper, sealing, overrun, lost>>

VerifyCheckpoints ==
  /\ verify.phase = "head"
  /\ verify' = IF Truncated(verify.head, Trims, Seals)
               THEN [phase |-> "done", at |-> verify.at, problem |-> "truncated_past_seal"]
               ELSE [phase |-> "paging", at |-> verify.at, attested |-> Trims, prev |-> 0]
  /\ UNCHANGED <<events, nextId, checkpoints, lock, pending, keeper, sealing, overrun, lost>>

(* afterId is the last id checked, which is also the hash carried over. *)
VerifyPage ==
  LET rest == {e \in events : e.id > verify.prev}
      page == {e \in rest : Cardinality({f \in rest : f.id <= e.id}) <= Page}
  IN  /\ verify.phase = "paging"
      /\ verify' = CASE Broken(page, verify.prev, verify.attested) # {} ->
                          [phase |-> "done", at |-> verify.at, problem |-> "prev_hash_mismatch"]
                     [] /\ Broken(page, verify.prev, verify.attested) = {}
                        /\ Cardinality(page) < Page ->
                          [phase |-> "done", at |-> verify.at, problem |-> "none"]
                     [] OTHER -> [verify EXCEPT !.prev = HeadOf(page)]
      /\ UNCHANGED <<events, nextId, checkpoints, lock, pending, keeper, sealing, overrun, lost>>

-----------------------------------------------------------------------------
(* A row disappears without any of this: a partial restore, a stray DELETE
   with the rule lifted.                                                   *)
Lose(e) ==
  /\ Cardinality(lost) < MaxLost
  /\ events' = events \ {e}
  /\ lost' = lost \cup {e}
  /\ UNCHANGED <<nextId, checkpoints, lock, pending, keeper, sealing, verify, overrun>>

Write(w) == (\E a \in People : Append(w, a)) \/ Commit(w) \/ Abort(w)
Keep     == StartTrim \/ StartErase \/ Delete \/ ReadBack \/ CommitRemoval
Verify   == VerifyHead \/ VerifyCheckpoints \/ VerifyPage

Next ==
  \/ \E w \in Writers : Write(w)
  \/ Keep
  \/ SealRead \/ SealWrite
  \/ Verify
  \/ \E e \in events : Lose(e)

Spec == Init /\ [][Next]_vars

-----------------------------------------------------------------------------
(* Properties. *)

Id         == Nat \ {0}
Event      == [id : Id, actor : People, prev : Nat]
Checkpoint == [kind : {"trim", "seal"}, through : Id]
Removal    == [kind : {"trim"}, edge : Id] \cup [kind : {"erase"}, actor : Erasable]

Removing   == [phase : {"read", "deleted", "checked"}, op : Removal,
               seen : SUBSET Event, attest : SUBSET Id, doomed : SUBSET Event]

(* Every table holds what its columns allow: an id is never 0, so nothing
   can be sealed, trimmed or attested that was not an event.               *)
TypeOK ==
  /\ events \subseteq Event
  /\ nextId \in Id
  /\ checkpoints \subseteq Checkpoint
  /\ lock \in Writers \cup {0}
  /\ pending \in [Writers -> SUBSET Event]
  /\ keeper \in {Idle} \cup Removing
  /\ sealing \in Nat
  /\ verify \in {Idle} \cup
       [phase : {"head"}, at : SUBSET Checkpoint, head : Nat] \cup
       [phase : {"paging"}, at : SUBSET Checkpoint, attested : SUBSET Id, prev : Nat] \cup
       [phase : {"done"}, at : SUBSET Checkpoint,
        problem : {"none", "prev_hash_mismatch", "truncated_past_seal"}]
  /\ overrun \in BOOLEAN
  /\ lost \subseteq Event

(* The chain does not fork: no two rows in the table, committed or about to
   be, claim the same predecessor, however many writers there are.         *)
Known == events \cup UNION {pending[w] : w \in Writers}

NoFork == \A e, f \in Known : e.prev = f.prev => e = f

(* ... and nothing sits between a row and what it points at, so reading the
   table in id order is walking the chain.                                 *)
Linked == \A e \in Known : \A f \in Known : ~(e.prev < f.id /\ f.id < e.id)

(* The rows are one chain in the order of their ids, however many transactions
   append at once, abort, and leave gaps (schema.sql, audit_append).       *)
OneChain == NoFork /\ Linked

(* What a verification would answer if nothing else ran. *)
Sound ==
  /\ ~Truncated(HeadOf(events), Trims, Seals)
  /\ Broken(events, 0, Trims) = {}

(* As long as rows go only through trims and erasures, the chain verifies --
   unless a removal took an event that was not there when it worked out
   what to attest.                                                         *)
OnlyOverrunsBreakTheChain == lost = {} /\ ~overrun => Sound

(* A trim never does: its edge is a row, and rows behind it stay behind it. *)
TrimsAttestAllTheyRemove ==
  [][keeper # Idle /\ keeper'= Idle /\ keeper.op.kind = "trim" => overrun' = overrun]_vars

(* The holes of an erasure are attested, every one (LIMITATIONS.md, 11). *)
EveryHoleIsAttested == lost = {} => Broken(events, 0, Trims) = {}

Damaged == overrun \/ lost # {}

(* However many rows are appended while it pages, a verification reports a
   problem only where a row was lost or a removal overran its record --
   provided nobody sealed or trimmed the chain meanwhile.                  *)
AlarmIsReal ==
  verify.phase = "done" /\ verify.problem # "none" /\ verify.at = checkpoints => Damaged

(* Losing a row another row points at, or a sealed head, is seen by the next
   verification, unless a checkpoint happens to excuse that very place.    *)
LossIsSeen(e) ==
  \/ e.id \notin Trims /\ \E f \in events : f.prev = e.id
  \/ /\ e.id \in Seals /\ e.id = HeadOf(events)
     /\ \A c \in Trims \cup Seals : c <= e.id
     /\ e.id \notin Trims

UnrecordedLossIsSeen ==
  [][\A e \in events : lost' # lost /\ events' = events \ {e} /\ LossIsSeen(e) => ~Sound']_vars

(* The whole machinery -- locks, open transactions, removals in four steps,
   seals in two -- implements an append-only log with attested gaps: every
   transaction takes effect at once, behind the last row; a trim cuts off what
   is behind its edge, an erasure rows of its actor; what is gone is attested
   where a row is left that points at it (AuditLog).                        *)
Log == INSTANCE AuditLog WITH
  log    <- events,
  gaps   <- Trims,
  seals  <- Seals,
  harmed <- Damaged

ImplementsLog == Log!Spec
=============================================================================
