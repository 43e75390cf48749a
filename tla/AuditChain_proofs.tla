-------------------------- MODULE AuditChain_proofs --------------------------
(***************************************************************************)
(* What TLAPS proves about AuditChain, for any number of writers, people,  *)
(* events, trims, erasures, seals and losses.                              *)
(***************************************************************************)
EXTENDS AuditChain, WellFoundedInduction, FiniteSetTheorems, TLAPS

-----------------------------------------------------------------------------
(* The head of a chain. *)

(* A non-empty set of naturals with an upper bound has a greatest element. *)
LEMMA GreatestExists ==
  ASSUME NEW S \in SUBSET Nat, S # {}, NEW n \in Nat, \A s \in S : s <= n
  PROVE  \E m \in S : \A s \in S : s <= m
<1> DEFINE U == {u \in Nat : \A s \in S : s <= u}
<1>1. U # {} /\ U \subseteq Nat
  OBVIOUS
<1>2. PICK m \in U : \A u \in U : ~(<<u, m>> \in OpToRel(<, Nat))
  <2> HIDE DEF U
  <2> QED BY <1>1, WFMin, NatLessThanWellFounded
<1>3. \A u \in U : ~(u < m)
  BY <1>2 DEF OpToRel
<1>4. CASE m \in S
  BY <1>4
<1>5. CASE m \notin S
  <2>1. PICK s \in S : TRUE
    OBVIOUS
  <2>2. m # 0 /\ m - 1 \in U
    BY <1>5, <2>1
  <2> QED BY <1>3, <2>2
<1> QED BY <1>4, <1>5

(* The rows of a table: each with an id of its own, below n. *)
Table(ev, n) ==
  /\ ev \subseteq Event
  /\ \A e \in ev : e.id < n
  /\ \A e, f \in ev : e.id = f.id => e = f

(* The head is 0 when there is no row, the greatest id when there is one. *)
LEMMA HeadIsGreatest ==
  ASSUME NEW ev, NEW n \in Nat, Table(ev, n)
  PROVE  /\ HeadOf(ev) \in Nat
         /\ \A e \in ev : e.id <= HeadOf(ev)
         /\ ev # {} => \E e \in ev : e.id = HeadOf(ev)
         /\ ev = {} => HeadOf(ev) = 0
<1>1. CASE ev = {}
  BY <1>1 DEF HeadOf
<1>2. CASE ev # {}
  <2> DEFINE S == {e.id : e \in ev}
  <2>1. S \in SUBSET Nat /\ S # {} /\ \A s \in S : s <= n
    BY <1>2 DEF Table, Event, Id
  <2>2. PICK m \in S : \A s \in S : s <= m
    <3> HIDE DEF S
    <3> QED BY <2>1, GreatestExists
  <2>3. \E e \in ev : \A f \in ev : f.id <= e.id
    BY <2>2
  <2> DEFINE h == CHOOSE e \in ev : \A f \in ev : f.id <= e.id
  <2>4. h \in ev /\ \A f \in ev : f.id <= h.id
    BY <2>3
  <2>5. HeadOf(ev) = h.id
    BY <1>2 DEF HeadOf
  <2>6. h.id \in Nat
    BY <2>4 DEF Table, Event, Id
  <2> HIDE DEF h
  <2> QED BY <1>2, <2>4, <2>5, <2>6
<1> QED BY <1>1, <1>2

-----------------------------------------------------------------------------
(* Types.  Appending needs the head to be a number, which it is only because
   the table is bounded by the id sequence and its ids are unique: the type
   invariant is inductive together with that much of the numbering.         *)

Numbered ==
  /\ Table(Known, nextId)
  /\ \A e \in Known : e.prev < e.id
  /\ \A w \in Writers : pending[w] # {} => lock = w
  /\ \A w \in Writers : \A p \in pending[w], e \in events : e.id < p.id

LEMMA RunEndsAreTargets == ASSUME NEW T PROVE RunEnds(T) \subseteq T
BY DEF RunEnds

LEMMA TargetsAreEvents == ASSUME NEW op PROVE Targets(op) \subseteq events
BY DEF Targets

LEMMA CheckpointIds ==
  ASSUME checkpoints \subseteq Checkpoint
  PROVE  Trims \subseteq Id /\ Seals \subseteq Id
BY DEF Trims, Seals, Checkpoint

LEMMA EventsTable == ASSUME TypeOK, Numbered PROVE Table(events, nextId)
BY DEF TypeOK, Numbered, Table, Known

(* The rows a writer sees: what is committed and its own. *)
LEMMA OwnTable ==
  ASSUME TypeOK, Numbered, NEW w \in Writers PROVE Table(events \cup pending[w], nextId)
BY DEF TypeOK, Numbered, Table, Known

(* Who holds the lock, or may take it, sees every row there is. *)
LEMMA HolderSeesAll ==
  ASSUME TypeOK, Numbered, NEW w \in Writers, lock \in {0, w}
  PROVE  Known = events \cup pending[w]
<1>1. \A v \in Writers : v # w => pending[v] = {}
  BY AuditAssumption DEF Numbered
<1> QED BY <1>1 DEF Known

(* What an append adds. *)
NewRow(w, a) == [id |-> nextId, actor |-> a, prev |-> HeadOf(events \cup pending[w])]

LEMMA AppendFacts ==
  ASSUME TypeOK, Numbered, NEW w \in Writers, NEW a \in People, Append(w, a)
  PROVE  /\ NewRow(w, a) \in Event
         /\ NewRow(w, a).prev < nextId
         /\ \A e \in Known : e.id <= NewRow(w, a).prev
         /\ Known # {} => \E e \in Known : e.id = NewRow(w, a).prev
         /\ Known = {} => NewRow(w, a).prev = 0
         /\ Known' = Known \cup {NewRow(w, a)}
         /\ pending' = [pending EXCEPT ![w] = pending[w] \cup {NewRow(w, a)}]
         /\ events' = events /\ nextId' = nextId + 1 /\ lock' = w
<1>1. lock \in {0, w} /\ events' = events /\ nextId' = nextId + 1 /\ lock' = w
      /\ pending' = [pending EXCEPT ![w] = pending[w] \cup {NewRow(w, a)}]
  BY DEF Append, NewRow
<1>2. Known = events \cup pending[w]
  BY <1>1, HolderSeesAll
<1>3. nextId \in Nat /\ nextId \in Id
  BY DEF TypeOK, Id
<1>4. Table(Known, nextId)
  BY DEF Numbered
<1> DEFINE h == HeadOf(Known)
<1>5. /\ h \in Nat
      /\ \A e \in Known : e.id <= h
      /\ Known # {} => \E e \in Known : e.id = h
      /\ Known = {} => h = 0
  BY <1>3, <1>4, HeadIsGreatest
<1>6. NewRow(w, a) = [id |-> nextId, actor |-> a, prev |-> h]
  BY <1>2 DEF NewRow
<1>7. h < nextId
  <2>1. CASE Known = {}
    BY <2>1, <1>5, <1>3 DEF Id
  <2>2. CASE Known # {}
    BY <2>2, <1>5, <1>4 DEF Table
  <2> QED BY <2>1, <2>2
<1>8. Known' = Known \cup {NewRow(w, a)}
  <2>1. pending \in [Writers -> SUBSET Event]
    BY DEF TypeOK
  <2> HIDE DEF h
  <2>2. \A v \in Writers : pending'[v] = IF v = w THEN pending[w] \cup {NewRow(w, a)} ELSE pending[v]
    BY <1>1, <2>1
  <2> QED BY <1>1, <2>2 DEF Known
<1> HIDE DEF h
<1>9. NewRow(w, a) \in Event
  BY <1>3, <1>5, <1>6 DEF Event
<1> QED BY <1>1, <1>5, <1>6, <1>7, <1>8, <1>9

LEMMA TypeInit == Init => TypeOK
<1> SUFFICES ASSUME Init PROVE TypeOK
  OBVIOUS
<1>1. nextId \in Id /\ sealing \in Nat /\ lock \in Writers \cup {0}
  BY DEF Init, Id
<1>5. overrun \in BOOLEAN
  BY DEF Init
<1>2. events \subseteq Event /\ checkpoints \subseteq Checkpoint /\ lost \subseteq Event
  BY DEF Init
<1>3. pending \in [Writers -> SUBSET Event]
  BY DEF Init
<1>4. keeper = Idle /\ verify = Idle
  BY DEF Init
<1> QED BY <1>1, <1>2, <1>3, <1>4, <1>5 DEF TypeOK

LEMMA TypeStep == TypeOK /\ Numbered /\ [Next]_vars => TypeOK'
<1> SUFFICES ASSUME TypeOK, Numbered, [Next]_vars PROVE TypeOK'
  OBVIOUS
<1>0. Trims \subseteq Id /\ Seals \subseteq Id
  BY CheckpointIds DEF TypeOK
<1>h. HeadOf(events) \in Nat
  BY EventsTable, HeadIsGreatest DEF TypeOK, Id
<1>1. ASSUME NEW w \in Writers, NEW a \in People, Append(w, a) PROVE TypeOK'
  <2>1. NewRow(w, a) \in Event /\ events' = events /\ nextId' = nextId + 1 /\ lock' = w
        /\ pending' = [pending EXCEPT ![w] = pending[w] \cup {NewRow(w, a)}]
    BY <1>1, AppendFacts
  <2>2. pending' \in [Writers -> SUBSET Event]
    BY <2>1 DEF TypeOK
  <2>3. nextId' \in Id
    BY <2>1 DEF TypeOK, Id
  <2>4. UNCHANGED <<checkpoints, keeper, sealing, verify, overrun, lost>>
    BY <1>1 DEF Append
  <2> QED BY <2>1, <2>2, <2>3, <2>4 DEF TypeOK
<1>2. ASSUME NEW w \in Writers, Commit(w) \/ Abort(w) PROVE TypeOK'
  BY <1>2 DEF Commit, Abort, TypeOK
<1>3. ASSUME NEW op \in Removal, ReadBoundary(op) PROVE TypeOK'
  <2>1. Targets(op) \subseteq Event
    BY TargetsAreEvents DEF TypeOK
  <2>2. {e.id : e \in RunEnds(Targets(op))} \subseteq Id
    BY <2>1, RunEndsAreTargets DEF Event
  <2>3. keeper' \in Removing
    BY <1>3, <2>1, <2>2 DEF ReadBoundary, Removing
  <2>4. UNCHANGED <<events, nextId, checkpoints, lock, pending, sealing, verify, overrun, lost>>
    BY <1>3 DEF ReadBoundary
  <2> QED BY <2>3, <2>4 DEF TypeOK
<1>4. ASSUME StartTrim PROVE TypeOK'
  <2>1. PICK e \in events : ReadBoundary([kind |-> "trim", edge |-> e.id])
    BY <1>4 DEF StartTrim
  <2>2. [kind |-> "trim", edge |-> e.id] \in Removal
    BY DEF TypeOK, Event, Removal
  <2> QED BY <1>3, <2>1, <2>2
<1>5. ASSUME StartErase PROVE TypeOK'
  BY <1>3, <1>5 DEF StartErase, Removal
<1>6. ASSUME Delete PROVE TypeOK'
  <2>1. Targets(keeper.op) \subseteq Event
    BY TargetsAreEvents DEF TypeOK
  <2>2. keeper \in Removing
    BY <1>6 DEF Delete, TypeOK, Idle
  <2>3. keeper' \in Removing
    BY <1>6, <2>1, <2>2 DEF Delete, Removing
  <2>4. UNCHANGED <<events, nextId, checkpoints, lock, pending, sealing, verify, overrun, lost>>
    BY <1>6 DEF Delete
  <2> QED BY <2>3, <2>4 DEF TypeOK
<1>7. ASSUME ReadBack PROVE TypeOK'
  BY <1>7 DEF ReadBack, TypeOK, Idle, Removing
<1>8. ASSUME CommitRemoval PROVE TypeOK'
  <2>1. keeper.attest \subseteq Id
    BY <1>8 DEF CommitRemoval, TypeOK, Idle, Removing
  <2>2. checkpoints' \subseteq Checkpoint
    BY <1>8, <2>1 DEF CommitRemoval, TypeOK, Checkpoint
  <2> QED BY <1>8, <2>2 DEF CommitRemoval, TypeOK
<1>9. ASSUME SealRead \/ SealWrite PROVE TypeOK'
  BY <1>9, <1>h DEF SealRead, SealWrite, TypeOK, Checkpoint, Id
<1>10. ASSUME VerifyHead PROVE TypeOK'
  BY <1>10, <1>h DEF VerifyHead, TypeOK
<1>11. ASSUME VerifyCheckpoints PROVE TypeOK'
  <2>1. verify \in [phase : {"head"}, at : SUBSET Checkpoint, head : Nat]
    BY <1>11 DEF VerifyCheckpoints, TypeOK, Idle
  <2> QED BY <1>0, <1>11, <2>1 DEF VerifyCheckpoints, TypeOK
<1>12. ASSUME VerifyPage PROVE TypeOK'
  <2>1. verify \in [phase : {"paging"}, at : SUBSET Checkpoint, attested : SUBSET Id, prev : Nat]
    BY <1>12 DEF VerifyPage, TypeOK, Idle
  <2> DEFINE rest == {e \in events : e.id > verify.prev}
             page == {e \in rest : Cardinality({f \in rest : f.id <= e.id}) <= Page}
  <2>2. Table(page, nextId)
    BY EventsTable DEF Table
  <2>3. HeadOf(page) \in Nat
    <3> HIDE DEF page
    <3> QED BY <2>2, HeadIsGreatest DEF TypeOK, Id
  <2>4. verify' \in [phase : {"paging"}, at : SUBSET Checkpoint, attested : SUBSET Id, prev : Nat]
                 \cup [phase : {"done"}, at : SUBSET Checkpoint,
                       problem : {"none", "prev_hash_mismatch", "truncated_past_seal"}]
    <3>1. \/ verify' = [phase |-> "done", at |-> verify.at, problem |-> "prev_hash_mismatch"]
          \/ verify' = [phase |-> "done", at |-> verify.at, problem |-> "none"]
          \/ verify' = [verify EXCEPT !.prev = HeadOf(page)]
      BY <1>12 DEF VerifyPage
    <3> HIDE DEF page
    <3> QED BY <2>1, <2>3, <3>1
  <2>5. UNCHANGED <<events, nextId, checkpoints, lock, pending, keeper, sealing, overrun, lost>>
    BY <1>12 DEF VerifyPage
  <2> QED BY <2>4, <2>5 DEF TypeOK
<1>13. ASSUME NEW e \in events, Lose(e) PROVE TypeOK'
  BY <1>13 DEF Lose, TypeOK
<1>14. CASE UNCHANGED vars
  BY <1>14 DEF vars, TypeOK
<1> QED BY <1>1, <1>2, <1>4, <1>5, <1>6, <1>7, <1>8, <1>9, <1>10, <1>11, <1>12, <1>13, <1>14
        DEF Next, Write, Keep, Verify

-----------------------------------------------------------------------------
(* The chain does not fork, and reading it in id order is walking it.       *)

Ordered == Numbered /\ NoFork /\ Linked

LEMMA OrderInit == Init => Ordered
<1> SUFFICES ASSUME Init PROVE Ordered
  OBVIOUS
<1>1. Known = {}
  BY DEF Init, Known
<1>2. \A w \in Writers : pending[w] = {}
  BY DEF Init
<1> QED BY <1>1, <1>2 DEF Ordered, Numbered, Table, NoFork, Linked

(* Nothing but an append can disturb the order: every other step leaves the
   ids alone and adds no row.                                              *)
LEMMA FewerRows ==
  ASSUME Ordered, Known' \subseteq Known, nextId' = nextId,
         \A w \in Writers : pending'[w] # {} => lock' = w,
         \A w \in Writers : \A p \in pending'[w], e \in events' : e.id < p.id
  PROVE  Ordered'
BY DEF Ordered, Numbered, Table, NoFork, Linked

LEMMA OrderAppend ==
  ASSUME TypeOK, Ordered, NEW w \in Writers, NEW a \in People, Append(w, a)
  PROVE  Ordered'
<1> DEFINE r == NewRow(w, a)
<1>0. Numbered /\ NoFork /\ Linked /\ nextId \in Nat
  BY DEF Ordered, TypeOK, Id
<1>1. /\ r \in Event /\ r.id = nextId /\ r.prev < nextId
      /\ \A e \in Known : e.id <= r.prev
      /\ Known # {} => \E e \in Known : e.id = r.prev
      /\ Known = {} => r.prev = 0
      /\ Known' = Known \cup {r}
      /\ pending' = [pending EXCEPT ![w] = pending[w] \cup {r}]
      /\ events' = events /\ nextId' = nextId + 1 /\ lock' = w
  BY <1>0, AppendFacts DEF NewRow
<1>2. /\ Known \subseteq Event
      /\ \A e \in Known : e.id < nextId /\ e.prev < e.id /\ e.id \in Nat /\ e.prev \in Nat
      /\ \A e, f \in Known : e.id = f.id => e = f
  BY <1>0 DEF Numbered, Table, Event, Id
<1>3. \A v \in Writers : pending'[v] = IF v = w THEN pending[w] \cup {r} ELSE pending[v]
  BY <1>1 DEF TypeOK
<1>r. r.id \in Nat /\ r.prev \in Nat
  BY <1>1 DEF Event, Id
<1> HIDE DEF r
<1>4. Table(Known', nextId')
  BY <1>0, <1>1, <1>2, <1>r DEF Table
<1>5. \A e \in Known' : e.prev < e.id
  BY <1>1, <1>2
<1>6. \A v \in Writers : pending'[v] # {} => lock' = v
  <2>1. lock \in {0, w}
    BY DEF Append
  <2>2. \A v \in Writers : v # w => pending[v] = {}
    BY <1>0, <2>1, AuditAssumption DEF Numbered
  <2> QED BY <1>1, <1>3, <2>2
<1>7. \A v \in Writers : \A p \in pending'[v], e \in events' : e.id < p.id
  BY <1>0, <1>1, <1>2, <1>3 DEF Numbered, Known
<1>8. NoFork'
  <2>1. \A e \in Known : e.prev # r.prev
    BY <1>1, <1>2, <1>r
  <2> QED BY <1>0, <1>1, <2>1 DEF NoFork
<1>9. Linked'
  BY <1>0, <1>1, <1>2, <1>r DEF Linked
<1> QED BY <1>4, <1>5, <1>6, <1>7, <1>8, <1>9 DEF Ordered, Numbered

LEMMA OrderStep == TypeOK /\ Ordered /\ [Next]_vars => Ordered'
<1> SUFFICES ASSUME TypeOK, Ordered, [Next]_vars PROVE Ordered'
  OBVIOUS
<1>0. Numbered /\ pending \in [Writers -> SUBSET Event]
  BY DEF Ordered, TypeOK
<1>1. ASSUME NEW w \in Writers, NEW a \in People, Append(w, a) PROVE Ordered'
  BY <1>1, OrderAppend
<1>2. ASSUME NEW w \in Writers, Commit(w) \/ Abort(w) PROVE Ordered'
  <2>1. lock = w /\ nextId' = nextId
        /\ events' \subseteq events \cup pending[w]
        /\ pending' = [pending EXCEPT ![w] = {}]
    BY <1>2 DEF Commit, Abort
  <2>2. \A v \in Writers : pending'[v] = {}
    BY <1>0, <2>1 DEF Numbered
  <2>3. Known' \subseteq Known
    BY <2>1, <2>2 DEF Known
  <2> QED BY <2>1, <2>2, <2>3, FewerRows
<1>3. ASSUME events' \subseteq events, UNCHANGED <<nextId, pending, lock>> PROVE Ordered'
  <2>1. Known' \subseteq Known
    BY <1>3 DEF Known
  <2>2. \A w \in Writers : pending'[w] # {} => lock' = w
    BY <1>0, <1>3 DEF Numbered
  <2>3. \A w \in Writers : \A p \in pending'[w], e \in events' : e.id < p.id
    BY <1>0, <1>3 DEF Numbered
  <2> QED BY <1>3, <2>1, <2>2, <2>3, FewerRows
<1>4. CASE Keep
  BY <1>3, <1>4 DEF Keep, StartTrim, StartErase, ReadBoundary, Delete, ReadBack, CommitRemoval
<1>5. CASE SealRead \/ SealWrite \/ Verify
  BY <1>3, <1>5 DEF SealRead, SealWrite, Verify, VerifyHead, VerifyCheckpoints, VerifyPage
<1>6. ASSUME NEW e \in events, Lose(e) PROVE Ordered'
  BY <1>3, <1>6 DEF Lose
<1>7. CASE UNCHANGED vars
  BY <1>3, <1>7 DEF vars
<1> QED BY <1>1, <1>2, <1>4, <1>5, <1>6, <1>7 DEF Next, Write

(* The types of AuditChain are right in every behaviour. *)
THEOREM TypeCorrect == Spec => []TypeOK
<1>1. Init => TypeOK /\ Ordered
  BY TypeInit, OrderInit
<1>2. TypeOK /\ Ordered /\ [Next]_vars => (TypeOK /\ Ordered)'
  BY TypeStep, OrderStep DEF Ordered
<1> QED BY <1>1, <1>2, PTL DEF Spec

(* However many writers append, abort, trim and erase, the chain never forks and
   nothing comes between an event and the one it points at: what audit_append's
   advisory lock is for, and why verifyAuditChain may read by id.           *)
THEOREM ChainNeverForks == Spec => []OneChain
<1>1. Init => TypeOK /\ Ordered
  BY TypeInit, OrderInit
<1>2. TypeOK /\ Ordered /\ [Next]_vars => (TypeOK /\ Ordered)'
  BY TypeStep, OrderStep DEF Ordered
<1>3. Ordered => OneChain
  BY DEF Ordered, OneChain
<1> QED BY <1>1, <1>2, <1>3, PTL DEF Spec

-----------------------------------------------------------------------------
(* Trims.  The edge of a trim is a row, so nothing committed later can be
   behind it: what is deleted was there when the edge was read.             *)

TrimBound ==
  keeper \in Removing /\ keeper.op.kind = "trim" =>
    /\ keeper.op.edge < nextId
    /\ \A e \in Known : e.id <= keeper.op.edge => e \in keeper.seen
    /\ keeper.phase # "read" => keeper.doomed \subseteq keeper.seen

LEMMA IdleIsNoRemoval == Idle \notin Removing
BY DEF Idle, Removing

(* What ReadBoundary leaves. *)
LEMMA BoundaryRead ==
  ASSUME TypeOK, NEW op \in Removal, ReadBoundary(op)
  PROVE  /\ keeper' \in Removing /\ keeper'.phase = "read" /\ keeper'.op = op
         /\ keeper'.seen = Targets(op)
         /\ keeper'.attest = {e.id : e \in RunEnds(Targets(op))}
         /\ keeper = Idle
         /\ UNCHANGED <<events, nextId, checkpoints, lock, pending, sealing, overrun, lost>>
<1>1. keeper' \in {Idle} \cup Removing
  <2>1. Targets(op) \subseteq Event
    BY TargetsAreEvents DEF TypeOK
  <2>2. {e.id : e \in RunEnds(Targets(op))} \subseteq Id
    BY <2>1, RunEndsAreTargets DEF Event
  <2> QED BY <2>1, <2>2 DEF ReadBoundary, Removing
<1> QED BY <1>1 DEF ReadBoundary, Idle

LEMMA StartsARemoval ==
  ASSUME TypeOK, StartTrim \/ StartErase
  PROVE  \E op \in Removal : ReadBoundary(op) /\ (op.kind = "trim" => \E e \in events : op.edge = e.id)
<1>1. CASE StartTrim
  <2>1. PICK e \in events : ReadBoundary([kind |-> "trim", edge |-> e.id])
    BY <1>1 DEF StartTrim
  <2>2. [kind |-> "trim", edge |-> e.id] \in Removal
    BY DEF TypeOK, Event, Removal
  <2> QED BY <2>1, <2>2
<1>2. CASE StartErase
  BY <1>2 DEF StartErase, Removal
<1> QED BY <1>1, <1>2

LEMMA TrimInit == Init => TrimBound
BY IdleIsNoRemoval DEF Init, TrimBound

LEMMA TrimStep == TypeOK /\ TypeOK' /\ Ordered /\ TrimBound /\ [Next]_vars => TrimBound'
<1> SUFFICES ASSUME TypeOK, TypeOK', Ordered, TrimBound, [Next]_vars PROVE TrimBound'
  OBVIOUS
<1>0. Numbered /\ nextId \in Nat
  BY DEF Ordered, TypeOK, Id
<1>1. ASSUME NEW w \in Writers, NEW a \in People, Append(w, a) PROVE TrimBound'
  <2>1. NewRow(w, a).id = nextId /\ Known' = Known \cup {NewRow(w, a)} /\ nextId' = nextId + 1
    BY <1>0, <1>1, AppendFacts DEF NewRow
  <2>2. keeper' = keeper
    BY <1>1 DEF Append
  <2>3. keeper \in Removing /\ keeper.op.kind = "trim" => keeper.op.edge \in Nat
    BY DEF Removing, Removal, Id
  <2> QED BY <1>0, <2>1, <2>2, <2>3 DEF TrimBound
<1>2. ASSUME Known' \subseteq Known, nextId' = nextId, keeper' = keeper PROVE TrimBound'
  BY <1>2 DEF TrimBound
<1>3. ASSUME NEW w \in Writers, Commit(w) \/ Abort(w) PROVE TrimBound'
  <2>1. lock = w /\ nextId' = nextId /\ keeper' = keeper
        /\ events' \subseteq events \cup pending[w]
        /\ pending' = [pending EXCEPT ![w] = {}]
    BY <1>3 DEF Commit, Abort
  <2>2. Known' \subseteq Known
    BY <2>1 DEF Known, TypeOK
  <2> QED BY <1>2, <2>1, <2>2
<1>4. CASE StartTrim \/ StartErase
  <2>1. PICK op \in Removal : ReadBoundary(op) /\ (op.kind = "trim" => \E e \in events : op.edge = e.id)
    BY <1>4, StartsARemoval
  <2>2. /\ keeper' \in Removing /\ keeper'.phase = "read" /\ keeper'.op = op
        /\ keeper'.seen = Targets(op)
        /\ UNCHANGED <<events, nextId, pending>>
    BY <2>1, BoundaryRead
  <2>3. CASE op.kind = "trim"
    <3>1. PICK r \in events : op.edge = r.id
      BY <2>1, <2>3
    <3>2. r.id < nextId /\ r.id \in Nat /\ \A e \in Known : e.id \in Nat
      BY <1>0 DEF Numbered, Table, Known, Event, Id
    <3>3. \A e \in Known : e.id <= op.edge => e \in events
      BY <1>0, <3>1, <3>2 DEF Numbered, Known
    <3>4. \A e \in Known : e.id <= op.edge => e \in Targets(op)
      BY <2>3, <3>3 DEF Targets
    <3>5. Known' = Known
      BY <2>2 DEF Known
    <3> QED BY <2>2, <3>1, <3>2, <3>4, <3>5 DEF TrimBound
  <2> QED BY <2>2, <2>3 DEF TrimBound
<1>5. CASE Delete
  <2>1. /\ keeper \in Removing /\ keeper'.op = keeper.op /\ keeper'.seen = keeper.seen
        /\ keeper'.doomed = Targets(keeper.op) /\ UNCHANGED <<events, nextId, pending>>
    BY <1>5 DEF Delete, TypeOK, Idle, Removing
  <2>2. Known' = Known
    BY <2>1 DEF Known
  <2>3. keeper.op.kind = "trim" => Targets(keeper.op) \subseteq keeper.seen
    BY <2>1 DEF TrimBound, Targets, Known
  <2> QED BY <2>1, <2>2, <2>3 DEF TrimBound
<1>6. CASE ReadBack
  <2>1. /\ keeper \in Removing /\ keeper.phase = "deleted"
        /\ keeper' \in {[keeper EXCEPT !.phase = "checked"], Idle}
        /\ UNCHANGED <<events, nextId, pending>>
    BY <1>6 DEF ReadBack, TypeOK, Idle
  <2>2. Known' = Known
    BY <2>1 DEF Known
  <2> QED BY <2>1, <2>2, IdleIsNoRemoval DEF TrimBound, Removing
<1>7. CASE CommitRemoval
  BY <1>7, IdleIsNoRemoval DEF CommitRemoval, TrimBound
<1>8. ASSUME events' \subseteq events, UNCHANGED <<nextId, pending, keeper>> PROVE TrimBound'
  BY <1>2, <1>8 DEF Known
<1>9. CASE SealRead \/ SealWrite \/ Verify
  BY <1>8, <1>9 DEF SealRead, SealWrite, Verify, VerifyHead, VerifyCheckpoints, VerifyPage
<1>10. ASSUME NEW e \in events, Lose(e) PROVE TrimBound'
  BY <1>8, <1>10 DEF Lose
<1>11. CASE UNCHANGED vars
  BY <1>8, <1>11 DEF vars
<1> QED BY <1>1, <1>3, <1>4, <1>5, <1>6, <1>7, <1>9, <1>10, <1>11 DEF Next, Write, Keep

(* A trim never takes a row that was not behind its edge when it worked out
   what to attest, whatever is appended meanwhile (trimAuditChain).         *)
THEOREM TrimsAreAttested == Spec => TrimsAttestAllTheyRemove
<1> DEFINE I == TypeOK /\ Ordered /\ TrimBound
<1>1. Init => I
  BY TypeInit, OrderInit, TrimInit
<1>2. I /\ [Next]_vars => I'
  BY TypeStep, OrderStep, TrimStep DEF Ordered
<1>3. I /\ [Next]_vars =>
        [keeper # Idle /\ keeper'= Idle /\ keeper.op.kind = "trim" => overrun' = overrun]_vars
  <2> SUFFICES ASSUME I, Next, keeper # Idle, keeper' = Idle, keeper.op.kind = "trim"
               PROVE  overrun' = overrun
    OBVIOUS
  <2>1. keeper \in Removing /\ overrun \in BOOLEAN
    BY DEF TypeOK
  <2>2. CASE CommitRemoval
    <3>1. keeper.doomed \subseteq keeper.seen
      BY <2>1, <2>2 DEF TrimBound, CommitRemoval
    <3>2. overrun' = (overrun \/ ~(keeper.doomed \subseteq keeper.seen))
      BY <2>2 DEF CommitRemoval
    <3> QED BY <2>1, <3>1, <3>2
  <2>3. CASE ~CommitRemoval
    BY <2>3 DEF Next, Write, Append, Commit, Abort, Keep, StartTrim, StartErase, ReadBoundary,
       Delete, ReadBack, SealRead, SealWrite, Verify, VerifyHead, VerifyCheckpoints,
       VerifyPage, Lose
  <2> QED BY <2>2, <2>3
<1> QED BY <1>1, <1>2, <1>3, PTL DEF Spec, TrimsAttestAllTheyRemove

-----------------------------------------------------------------------------
(* The chain verifies.  While nothing has been lost and no removal has
   overrun its record:
   - a row points at a row that is there, at nothing, or at an attested one;
   - a seal is at most the head, or a trim reaches as far;
   - a removal under way will attest the last row it saw, and every row it
     saw that a row it leaves points at.                                    *)

Unharmed == lost = {} /\ ~overrun

Chained ==
  \A e \in Known : e.prev = 0 \/ e.prev \in Trims \/ \E f \in Known : f.id = e.prev

Sealed ==
  \A s \in Seals \cup {sealing} : s <= HeadOf(events) \/ \E t \in Trims : s <= t

WillAttest ==
  keeper \in Removing =>
    /\ keeper.seen \subseteq Targets(keeper.op)
    /\ \A f \in keeper.seen : (\A g \in keeper.seen : g.id <= f.id) => f.id \in keeper.attest
    /\ \A f \in keeper.seen, e \in Known \ keeper.seen : e.prev = f.id => f.id \in keeper.attest
    /\ keeper.phase # "read" => keeper.seen \subseteq keeper.doomed

Recorded == Unharmed => Chained /\ Sealed /\ WillAttest

(* The ids, as facts about numbers. *)
LEMMA RowFacts ==
  ASSUME TypeOK, Ordered
  PROVE  /\ \A e \in Known : e.id \in Nat /\ e.id # 0 /\ e.prev \in Nat /\ e.prev < e.id /\ e.id < nextId
         /\ \A e, f \in Known : e.id = f.id => e = f
         /\ events \subseteq Known
         /\ HeadOf(events) \in Nat
         /\ \A e \in events : e.id <= HeadOf(events)
         /\ events # {} => \E e \in events : e.id = HeadOf(events)
         /\ events = {} => HeadOf(events) = 0
<1>1. Numbered /\ nextId \in Nat
  BY DEF Ordered, TypeOK, Id
<1>2. /\ HeadOf(events) \in Nat
      /\ \A e \in events : e.id <= HeadOf(events)
      /\ events # {} => \E e \in events : e.id = HeadOf(events)
      /\ events = {} => HeadOf(events) = 0
  BY <1>1, EventsTable, HeadIsGreatest
<1>3. events \subseteq Known
  BY DEF Known
<1>4. /\ \A e \in Known : e.id \in Nat /\ e.id # 0 /\ e.prev \in Nat /\ e.prev < e.id /\ e.id < nextId
      /\ \A e, f \in Known : e.id = f.id => e = f
  BY <1>1 DEF Numbered, Table, Event, Id
<1> QED BY <1>2, <1>3, <1>4

(* Uncommitted rows are younger than committed ones. *)
LEMMA PendingAreAbove ==
  ASSUME TypeOK, Ordered, NEW p \in Known, p \notin events, NEW e \in events
  PROVE  e.id < p.id
BY DEF Ordered, Numbered, Known

LEMMA RecordedInit == Init => Recorded
<1> SUFFICES ASSUME Init PROVE Chained /\ Sealed /\ WillAttest
  BY DEF Recorded
<1>1. Known = {} /\ Seals = {} /\ sealing = 0
  BY DEF Init, Known, Seals
<1>2. HeadOf(events) = 0
  BY DEF Init, HeadOf
<1> QED BY <1>1, <1>2, IdleIsNoRemoval DEF Init, Chained, Sealed, WillAttest

LEMMA RecordedAppend ==
  ASSUME TypeOK, Ordered, Recorded, NEW w \in Writers, NEW a \in People, Append(w, a)
  PROVE  Recorded'
<1> SUFFICES ASSUME Unharmed PROVE (Chained /\ Sealed /\ WillAttest)'
  BY DEF Append, Recorded, Unharmed
<1> DEFINE r == NewRow(w, a)
<1>0. Numbered /\ Chained /\ Sealed /\ WillAttest
  BY DEF Recorded, Ordered
<1>1. /\ r.id = nextId
      /\ \A e \in Known : e.id <= r.prev
      /\ Known # {} => \E e \in Known : e.id = r.prev
      /\ Known = {} => r.prev = 0
      /\ Known' = Known \cup {r}
  BY <1>0, AppendFacts DEF NewRow
<1>2. UNCHANGED <<events, checkpoints, keeper, sealing>>
  BY DEF Append
<1>3. Trims' = Trims /\ Seals' = Seals
  BY <1>2 DEF Trims, Seals
<1> HIDE DEF r
<1>4. Chained'
  BY <1>0, <1>1, <1>3 DEF Chained
<1>5. Sealed'
  BY <1>0, <1>2, <1>3 DEF Sealed
<1>6. WillAttest'
  <2> SUFFICES ASSUME keeper \in Removing, NEW f \in keeper.seen, r.prev = f.id
               PROVE  f.id \in keeper.attest
    BY <1>0, <1>1, <1>2 DEF WillAttest, Targets
  <2>1. keeper.seen \subseteq Known
    BY <1>0, TargetsAreEvents DEF WillAttest, Known
  <2>2. \A g \in keeper.seen : g.id <= f.id
    BY <1>1, <2>1
  <2> QED BY <1>0, <2>2 DEF WillAttest
<1> QED BY <1>4, <1>5, <1>6

(* The head of the chain a step leaves. *)
LEMMA NextHead ==
  ASSUME TypeOK', Ordered'
  PROVE  /\ HeadOf(events') \in Nat
         /\ \A e \in events' : e.id <= HeadOf(events')
<1>1. Table(events', nextId') /\ nextId' \in Nat
  BY DEF Ordered, Numbered, Table, Known, TypeOK, Id
<1> QED BY <1>1, HeadIsGreatest

LEMMA RecordedCommit ==
  ASSUME TypeOK, TypeOK', Ordered, Ordered', Recorded, NEW w \in Writers, Commit(w) \/ Abort(w)
  PROVE  Recorded'
<1> SUFFICES ASSUME Unharmed PROVE (Chained /\ Sealed /\ WillAttest)'
  BY DEF Commit, Abort, Recorded, Unharmed
<1>0. Numbered /\ Chained /\ Sealed /\ WillAttest
  BY DEF Recorded, Ordered
<1>1. /\ lock = w /\ UNCHANGED <<checkpoints, keeper, sealing>>
      /\ events' \in {events, events \cup pending[w]}
      /\ pending' = [pending EXCEPT ![w] = {}]
  BY DEF Commit, Abort
<1>2. \A v \in Writers : pending'[v] = {}
  BY <1>0, <1>1 DEF Numbered, TypeOK
<1>3. Known' = events' /\ events \subseteq Known' /\ Known' \subseteq Known
  BY <1>1, <1>2 DEF Known
<1>4. Trims' = Trims /\ Seals' = Seals
  BY <1>1 DEF Trims, Seals
<1>5. Chained'
  <2> SUFFICES ASSUME NEW e \in Known', e.prev # 0, e.prev \notin Trims
               PROVE  \E f \in Known' : f.id = e.prev
    BY <1>4 DEF Chained
  <2>1. PICK f \in Known : f.id = e.prev
    BY <1>0, <1>3 DEF Chained
  <2>2. CASE events' = events
    <3>1. f.id < e.id
      BY <1>3, <2>1, RowFacts
    <3>2. f.id \in Nat /\ e.id \in Nat
      BY <1>3, RowFacts
    <3>3. f \in events
      BY <1>3, <2>2, <3>1, <3>2, PendingAreAbove
    <3> QED BY <1>3, <2>1, <3>3
  <2>3. CASE events' = events \cup pending[w]
    <3>1. Known = events \cup pending[w]
      BY <1>0, <1>1, HolderSeesAll
    <3> QED BY <1>3, <2>1, <2>3, <3>1
  <2> QED BY <1>1, <2>2, <2>3
<1>6. Sealed'
  <2>1. HeadOf(events) \in Nat /\ HeadOf(events') \in Nat /\ HeadOf(events) <= HeadOf(events')
    BY <1>1, <1>3, RowFacts, NextHead
  <2>2. Seals \subseteq Nat /\ sealing \in Nat
    BY CheckpointIds DEF TypeOK, Id
  <2> QED BY <1>0, <1>1, <1>4, <2>1, <2>2 DEF Sealed
<1>7. WillAttest'
  <2>1. Targets(keeper.op) \subseteq Targets(keeper.op)'
    BY <1>1 DEF Targets
  <2>2. keeper \in Removing => keeper.seen \subseteq Targets(keeper.op)'
    BY <1>0, <2>1 DEF WillAttest
  <2> QED BY <1>0, <1>1, <1>3, <2>2 DEF WillAttest
<1> QED BY <1>5, <1>6, <1>7

(* What ReadBoundary decides to attest is enough. *)
LEMMA RunEndsAreEnough ==
  ASSUME TypeOK, Ordered, NEW T, T \subseteq events, NEW f \in T,
         NEW e \in Known, e \notin T, e.prev = f.id
  PROVE  f \in RunEnds(T)
<1> SUFFICES ASSUME NEW g \in T, g.id > f.id
             PROVE  \E h \in events \ T : f.id < h.id /\ h.id < g.id
  BY DEF RunEnds
<1>1. f \in Known /\ g \in Known /\ f.id \in Nat /\ g.id \in Nat /\ e.id \in Nat /\ f.id < e.id
  BY RowFacts
<1>2. ~(f.id < g.id /\ g.id < e.id)
  BY <1>1 DEF Ordered, Linked
<1>3. e.id < g.id
  BY <1>1, <1>2, RowFacts
<1>4. e \in events
  BY <1>1, <1>3, PendingAreAbove
<1> QED BY <1>1, <1>3, <1>4

LEMMA RecordedKeep ==
  ASSUME TypeOK, TypeOK', Ordered, Ordered', Recorded, Keep
  PROVE  Recorded'
<1>0. ASSUME Unharmed PROVE Chained /\ Sealed /\ WillAttest
  BY <1>0 DEF Recorded
<1>1. ASSUME UNCHANGED <<events, pending, checkpoints, sealing, overrun, lost>>,
             Unharmed => WillAttest'
      PROVE  Recorded'
  <2>1. Known' = Known /\ Trims' = Trims /\ Seals' = Seals /\ Unharmed' = Unharmed
    BY <1>1 DEF Known, Trims, Seals, Unharmed
  <2> QED BY <1>0, <1>1, <2>1 DEF Recorded, Chained, Sealed
<1>2. CASE StartTrim \/ StartErase
  <2>1. PICK op \in Removal : ReadBoundary(op)
    BY <1>2, StartsARemoval
  <2>2. /\ keeper' \in Removing /\ keeper'.phase = "read" /\ keeper'.op = op
        /\ keeper'.seen = Targets(op)
        /\ keeper'.attest = {e.id : e \in RunEnds(Targets(op))}
        /\ UNCHANGED <<events, checkpoints, pending, sealing, overrun, lost>>
    BY <2>1, BoundaryRead
  <2>3. Known' = Known /\ Targets(op)' = Targets(op) /\ Targets(op) \subseteq events
    BY <2>2, TargetsAreEvents DEF Known, Targets
  <2>4. \A f \in Targets(op) : (\A g \in Targets(op) : g.id <= f.id) => f \in RunEnds(Targets(op))
    <3> SUFFICES ASSUME NEW f \in Targets(op), \A g \in Targets(op) : g.id <= f.id,
                        NEW g \in Targets(op), g.id > f.id
                 PROVE  FALSE
      BY DEF RunEnds
    <3>1. f.id \in Nat /\ g.id \in Nat
      BY <2>3, RowFacts
    <3> QED BY <3>1
  <2>5. \A f \in Targets(op), e \in Known \ Targets(op) : e.prev = f.id => f \in RunEnds(Targets(op))
    BY <2>3, RunEndsAreEnough
  <2>6. WillAttest'
    BY <2>2, <2>3, <2>4, <2>5 DEF WillAttest
  <2> QED BY <1>1, <2>2, <2>6
<1>3. CASE Delete
  <2>1. /\ keeper \in Removing /\ keeper' = [keeper EXCEPT !.phase = "deleted", !.doomed = Targets(keeper.op)]
        /\ UNCHANGED <<events, pending, checkpoints, sealing, overrun, lost>>
    BY <1>3 DEF Delete, TypeOK, Idle
  <2>2. /\ keeper'.op = keeper.op /\ keeper'.seen = keeper.seen
        /\ keeper'.attest = keeper.attest /\ keeper'.doomed = Targets(keeper.op)
    BY <2>1 DEF Removing
  <2>3. Known' = Known /\ Targets(keeper.op)' = Targets(keeper'.op)
    BY <2>1, <2>2 DEF Known, Targets
  <2>4. \A op : Targets(op)' = Targets(op)
    BY <2>1 DEF Targets
  <2>5. Unharmed => WillAttest'
    BY <1>0, <2>1, <2>2, <2>3, <2>4 DEF WillAttest
  <2> QED BY <1>1, <2>1, <2>5
<1>4. CASE ReadBack
  <2>1. /\ keeper \in Removing /\ keeper.phase = "deleted"
        /\ keeper' \in {[keeper EXCEPT !.phase = "checked"], Idle}
        /\ UNCHANGED <<events, pending, checkpoints, sealing, overrun, lost>>
    BY <1>4 DEF ReadBack, TypeOK, Idle
  <2>2. Known' = Known /\ \A op : Targets(op)' = Targets(op)
    BY <2>1 DEF Known, Targets
  <2>3. CASE keeper' = Idle
    BY <1>1, <2>1, <2>3, IdleIsNoRemoval DEF WillAttest
  <2>4. CASE keeper' = [keeper EXCEPT !.phase = "checked"]
    <3>1. /\ keeper'.op = keeper.op /\ keeper'.seen = keeper.seen
          /\ keeper'.attest = keeper.attest /\ keeper'.doomed = keeper.doomed
      BY <2>1, <2>4 DEF Removing
    <3>2. Unharmed => WillAttest'
      BY <1>0, <2>1, <2>2, <3>1 DEF WillAttest
    <3> QED BY <1>1, <2>1, <3>2
  <2> QED BY <2>1, <2>3, <2>4
<1>5. CASE CommitRemoval
  <2> SUFFICES ASSUME Unharmed' PROVE (Chained /\ Sealed /\ WillAttest)'
    BY DEF Recorded
  <2>1. /\ keeper \in Removing /\ keeper.phase = "checked" /\ keeper' = Idle
        /\ events' = events \ keeper.doomed /\ UNCHANGED <<pending, sealing, lost>>
        /\ checkpoints' = checkpoints \cup {[kind |-> "trim", through |-> i] : i \in keeper.attest}
        /\ overrun' = (overrun \/ ~(keeper.doomed \subseteq keeper.seen))
    BY <1>5 DEF CommitRemoval, TypeOK, Idle
  <2>2. Unharmed /\ keeper.doomed \subseteq keeper.seen
    BY <2>1 DEF Unharmed
  <2>3. /\ Chained /\ Sealed
        /\ keeper.seen \subseteq events /\ keeper.seen \subseteq keeper.doomed
        /\ \A f \in keeper.seen : (\A g \in keeper.seen : g.id <= f.id) => f.id \in keeper.attest
        /\ \A f \in keeper.seen, e \in Known \ keeper.seen : e.prev = f.id => f.id \in keeper.attest
    BY <1>0, <2>1, <2>2, TargetsAreEvents DEF WillAttest
  <2>4. Trims' = Trims \cup keeper.attest /\ Seals' = Seals
    <3> DEFINE N == {[kind |-> "trim", through |-> i] : i \in keeper.attest}
    <3>1. \A c \in N : c.kind = "trim" /\ c.through \in keeper.attest
      OBVIOUS
    <3>2. \A i \in keeper.attest : \E c \in N : c.through = i
      <4> SUFFICES ASSUME NEW i \in keeper.attest PROVE \E c \in N : c.through = i
        OBVIOUS
      <4>1. [kind |-> "trim", through |-> i] \in N /\ [kind |-> "trim", through |-> i].through = i
        OBVIOUS
      <4> HIDE DEF N
      <4> QED BY <4>1
    <3>3. checkpoints' = checkpoints \cup N
      BY <2>1
    <3> HIDE DEF N
    <3>4. Seals' = Seals
      BY <3>1, <3>3 DEF Seals
    <3>5. \A i : i \in Trims' <=> i \in Trims \cup keeper.attest
      BY <3>1, <3>2, <3>3 DEF Trims
    <3> QED BY <3>4, <3>5
  <2>5. Known' \subseteq Known /\ Known' \cap keeper.seen = {} /\ Known \ keeper.seen \subseteq Known'
    <3>1. Known' \subseteq Known /\ Known \ keeper.doomed \subseteq Known'
      BY <2>1 DEF Known
    <3>2. \A e \in Known' : e \in events => e \in events'
      BY <2>1, PendingAreAbove, RowFacts DEF Known, Ordered, Numbered
    <3> QED BY <2>1, <2>2, <2>3, <3>1, <3>2
  <2>6. Chained'
    BY <2>3, <2>4, <2>5 DEF Chained
  <2>7. Sealed'
    <3> SUFFICES ASSUME NEW s \in Seals \cup {sealing}, \A t \in Trims' : ~(s <= t)
                 PROVE  s <= HeadOf(events')
      BY <2>1, <2>4 DEF Sealed
    <3>1. s <= HeadOf(events) /\ s \in Nat
      BY <2>3, <2>4, CheckpointIds DEF Sealed, TypeOK, Id
    <3>2. CASE events = {}
      BY <3>1, <3>2, <2>1
    <3>3. CASE events # {}
      <4>1. PICK e \in events : e.id = HeadOf(events)
        BY <3>3, RowFacts
      <4>2. e \notin keeper.seen
        BY <2>3, <2>4, <3>1, <4>1, RowFacts
      <4>3. e \in events'
        BY <2>1, <2>2, <4>2
      <4>4. e.id <= HeadOf(events') /\ e.id \in Nat /\ HeadOf(events') \in Nat
        BY <4>3, NextHead, RowFacts
      <4> QED BY <3>1, <4>1, <4>4
    <3> QED BY <3>2, <3>3
  <2>8. WillAttest'
    BY <2>1, IdleIsNoRemoval DEF WillAttest
  <2> QED BY <2>6, <2>7, <2>8
<1> QED BY <1>2, <1>3, <1>4, <1>5 DEF Keep

LEMMA RecordedStep ==
  TypeOK /\ TypeOK' /\ Ordered /\ Ordered' /\ Recorded /\ [Next]_vars => Recorded'
<1> SUFFICES ASSUME TypeOK, TypeOK', Ordered, Ordered', Recorded, [Next]_vars PROVE Recorded'
  OBVIOUS
<1>0. ASSUME Unharmed PROVE Chained /\ Sealed /\ WillAttest
  BY <1>0 DEF Recorded
<1>1. ASSUME NEW w \in Writers, NEW a \in People, Append(w, a) PROVE Recorded'
  BY <1>1, RecordedAppend
<1>2. ASSUME NEW w \in Writers, Commit(w) \/ Abort(w) PROVE Recorded'
  BY <1>2, RecordedCommit
<1>3. CASE Keep
  BY <1>3, RecordedKeep
<1>4. ASSUME UNCHANGED <<events, pending, keeper, overrun, lost>>, Trims' = Trims,
             Unharmed => Sealed'
      PROVE  Recorded'
  <2>1. Known' = Known /\ Unharmed' = Unharmed /\ \A op : Targets(op)' = Targets(op)
    BY <1>4 DEF Known, Unharmed, Targets
  <2>2. Unharmed => WillAttest'
    BY <1>0, <1>4, <2>1 DEF WillAttest
  <2>3. Unharmed => Chained'
    BY <1>0, <1>4, <2>1 DEF Chained
  <2> QED BY <1>4, <2>1, <2>2, <2>3 DEF Recorded
<1>5. CASE SealRead
  <2>1. /\ UNCHANGED <<events, pending, keeper, overrun, lost, checkpoints>>
        /\ sealing' = HeadOf(events)
    BY <1>5 DEF SealRead
  <2>2. Trims' = Trims /\ Seals' = Seals /\ HeadOf(events) \in Nat
    BY <2>1, RowFacts DEF Trims, Seals
  <2>3. Unharmed => Sealed'
    BY <1>0, <2>1, <2>2 DEF Sealed
  <2> QED BY <1>4, <2>1, <2>2, <2>3
<1>6. CASE SealWrite
  <2>1. /\ UNCHANGED <<events, pending, keeper, overrun, lost>> /\ sealing' = 0
        /\ checkpoints' = checkpoints \cup {[kind |-> "seal", through |-> sealing]}
    BY <1>6 DEF SealWrite
  <2>2. Trims' = Trims
    BY <2>1 DEF Trims
  <2>3. Seals' \subseteq Seals \cup {sealing} /\ HeadOf(events) \in Nat
    BY <2>1, RowFacts DEF Seals
  <2>4. Unharmed => Sealed'
    BY <1>0, <2>1, <2>2, <2>3 DEF Sealed
  <2> QED BY <1>4, <2>1, <2>2, <2>4
<1>7. ASSUME UNCHANGED <<events, pending, keeper, overrun, lost, checkpoints, sealing>>
      PROVE  Recorded'
  BY <1>0, <1>4, <1>7 DEF Trims, Seals, Sealed
<1>8. CASE Verify
  BY <1>7, <1>8 DEF Verify, VerifyHead, VerifyCheckpoints, VerifyPage
<1>9. ASSUME NEW e \in events, Lose(e) PROVE Recorded'
  BY <1>9 DEF Lose, Recorded, Unharmed
<1>10. CASE UNCHANGED vars
  BY <1>7, <1>10 DEF vars
<1> QED BY <1>1, <1>2, <1>3, <1>5, <1>6, <1>8, <1>9, <1>10 DEF Next, Write

(* A chain whose rows are recorded verifies. *)
LEMMA RecordedIsSound ==
  TypeOK /\ Ordered /\ Recorded => OnlyOverrunsBreakTheChain
<1> SUFFICES ASSUME TypeOK, Ordered, Recorded, Unharmed PROVE Sound
  BY DEF OnlyOverrunsBreakTheChain, Unharmed
<1>0. Chained /\ Sealed
  BY DEF Recorded
<1>1. ~Truncated(HeadOf(events), Trims, Seals)
  <2> SUFFICES ASSUME NEW s \in Seals, HeadOf(events) < s, \A t \in Trims : t < s PROVE FALSE
    BY DEF Truncated
  <2>1. s \in Nat /\ HeadOf(events) \in Nat /\ Trims \subseteq Nat
    BY CheckpointIds, RowFacts DEF TypeOK, Id
  <2> QED BY <1>0, <2>1 DEF Sealed
<1>2. Broken(events, 0, Trims) = {}
  <2> SUFFICES ASSUME NEW e \in events, ~(e.prev # 0 /\ e.prev \in Trims)
               PROVE  e.prev = IF \E f \in events : f.id < e.id
                               THEN HeadOf({f \in events : f.id < e.id}) ELSE 0
    BY DEF Broken
  <2> DEFINE L == {f \in events : f.id < e.id}
  <2>1. /\ \A f \in Known : f.id \in Nat /\ f.id # 0 /\ f.prev \in Nat /\ f.prev < f.id
        /\ events \subseteq Known
    BY RowFacts
  <2>2. \A f \in Known : ~(e.prev < f.id /\ f.id < e.id)
    BY <2>1 DEF Ordered, Linked
  <2>3. CASE e.prev = 0
    BY <2>1, <2>2, <2>3
  <2>4. CASE e.prev # 0
    <3>1. PICK f \in Known : f.id = e.prev
      BY <1>0, <2>1, <2>4 DEF Chained
    <3>2. f.id < e.id /\ f \in events
      BY <2>1, <3>1, PendingAreAbove
    <3>3. Table(L, nextId) /\ nextId \in Nat
      BY DEF TypeOK, Ordered, Numbered, Table, Known, Id
    <3>4. f \in L
      BY <3>2
    <3> HIDE DEF L
    <3>5. f.id <= HeadOf(L) /\ HeadOf(L) \in Nat /\ \E g \in L : g.id = HeadOf(L)
      BY <3>3, <3>4, HeadIsGreatest
    <3>6. PICK g \in L : g.id = HeadOf(L)
      BY <3>5
    <3>7. g \in Known /\ g.id < e.id
      BY <2>1 DEF L
    <3>8. HeadOf(L) = e.prev
      BY <2>1, <2>2, <3>1, <3>5, <3>6, <3>7
    <3> QED BY <3>2, <3>8 DEF L
  <2> QED BY <2>3, <2>4
<1> QED BY <1>1, <1>2 DEF Sound

(* As long as rows go only through trims and erasures that took nothing they
   had not seen, the chain verifies at every moment: no row points nowhere,
   no page mismatches, no seal is ahead of the head unexcused.              *)
THEOREM ChainVerifies == Spec => []OnlyOverrunsBreakTheChain
<1> DEFINE I == TypeOK /\ Ordered /\ Recorded
<1>1. Init => I
  BY TypeInit, OrderInit, RecordedInit
<1>2. I /\ [Next]_vars => I'
  BY TypeStep, OrderStep, RecordedStep DEF Ordered
<1>3. I => OnlyOverrunsBreakTheChain
  BY RecordedIsSound
<1> QED BY <1>1, <1>2, <1>3, PTL DEF Spec

-----------------------------------------------------------------------------
(* The verifier.  While nothing has been lost and no removal has overrun its
   record, what a checkpoint names is gone and stays gone, and a removal under
   way will name something: so a removal committed while a verification pages
   shows in the checkpoints, and if they are what they were when it began,
   rows have only been added since.                                        *)

Departed ==
  /\ \A t \in Trims : t < nextId
  /\ \A e \in Known : e.id \notin Trims
  /\ keeper \in Removing => /\ keeper.attest # {}
                            /\ \A i \in keeper.attest : \E f \in keeper.seen : f.id = i

(* Nothing a verification has found so far is amiss, and the row it will
   compare the next page with is still there.                              *)
Unalarmed ==
  verify # Idle =>
    /\ verify.at \subseteq checkpoints
    /\ Unharmed /\ verify.at = checkpoints =>
         /\ verify.phase = "head" => ~Truncated(verify.head, Trims, Seals)
         /\ verify.phase = "paging" =>
              /\ verify.attested = Trims
              /\ verify.prev = 0 \/ \E f \in events : f.id = verify.prev
         /\ verify.phase = "done" => verify.problem = "none"

LEMMA OnlyGetsWorse == TypeOK /\ [Next]_vars /\ Unharmed' => Unharmed
BY DEF Unharmed, TypeOK, Next, vars, Write, Append, Commit, Abort, Keep, StartTrim, StartErase,
   ReadBoundary, Delete, ReadBack, CommitRemoval, SealRead, SealWrite, Verify, VerifyHead,
   VerifyCheckpoints, VerifyPage, Lose

(* What the commit of a removal adds to the checkpoints. *)
LEMMA CommittedTrims ==
  ASSUME CommitRemoval
  PROVE  Trims' = Trims \cup keeper.attest
<1> DEFINE N == {[kind |-> "trim", through |-> i] : i \in keeper.attest}
<1>1. \A c \in N : c.kind = "trim" /\ c.through \in keeper.attest
  OBVIOUS
<1>2. \A i \in keeper.attest : \E c \in N : c.through = i
  <2> SUFFICES ASSUME NEW i \in keeper.attest PROVE \E c \in N : c.through = i
    OBVIOUS
  <2>1. [kind |-> "trim", through |-> i] \in N /\ [kind |-> "trim", through |-> i].through = i
    OBVIOUS
  <2> HIDE DEF N
  <2> QED BY <2>1
<1>3. checkpoints' = checkpoints \cup N
  BY DEF CommitRemoval
<1> HIDE DEF N
<1>4. \A i : i \in Trims' <=> i \in Trims \cup keeper.attest
  BY <1>1, <1>2, <1>3 DEF Trims
<1> QED BY <1>4

LEMMA DepartedStep ==
  ASSUME TypeOK, TypeOK', Ordered, Recorded, Departed, [Next]_vars, Unharmed, Unharmed'
  PROVE  Departed'
<1>0. /\ Numbered /\ WillAttest /\ nextId \in Nat
      /\ Trims \subseteq Nat /\ \A t \in Trims : t < nextId
      /\ \A e \in Known : e.id \notin Trims
  BY CheckpointIds DEF Recorded, Ordered, TypeOK, Id, Departed
<1>1. ASSUME Known' \subseteq Known, nextId' = nextId, keeper' = keeper, Trims' = Trims
      PROVE  Departed'
  BY <1>0, <1>1 DEF Departed
<1>2. ASSUME UNCHANGED <<events, pending, nextId, keeper>>, Trims' = Trims PROVE Departed'
  BY <1>1, <1>2 DEF Known
<1>3. ASSUME NEW w \in Writers, NEW a \in People, Append(w, a) PROVE Departed'
  <2>1. NewRow(w, a).id = nextId /\ Known' = Known \cup {NewRow(w, a)} /\ nextId' = nextId + 1
    BY <1>0, <1>3, AppendFacts DEF NewRow
  <2>2. keeper' = keeper /\ Trims' = Trims
    BY <1>3 DEF Append, Trims
  <2> QED BY <1>0, <2>1, <2>2 DEF Departed
<1>4. ASSUME NEW w \in Writers, Commit(w) \/ Abort(w) PROVE Departed'
  <2>1. lock = w /\ nextId' = nextId /\ keeper' = keeper /\ checkpoints' = checkpoints
        /\ events' \subseteq events \cup pending[w]
        /\ pending' = [pending EXCEPT ![w] = {}]
    BY <1>4 DEF Commit, Abort
  <2>2. Known' \subseteq Known /\ Trims' = Trims
    BY <2>1 DEF Known, TypeOK, Trims
  <2> QED BY <1>1, <2>1, <2>2
<1>5. CASE StartTrim \/ StartErase
  <2>1. PICK op \in Removal : ReadBoundary(op)
    BY <1>5, StartsARemoval
  <2> DEFINE T == Targets(op)
  <2>2. /\ keeper'.seen = T /\ keeper'.attest = {e.id : e \in RunEnds(T)}
        /\ UNCHANGED <<events, nextId, checkpoints, pending>>
    BY <2>1, BoundaryRead
  <2>3. Known' = Known /\ Trims' = Trims /\ T \subseteq events /\ T # {}
    BY <2>1, <2>2, TargetsAreEvents DEF Known, Trims, ReadBoundary
  <2> HIDE DEF T
  <2>4. \E f \in T : f \in RunEnds(T)
    <3>1. Table(T, nextId)
      BY <2>3, EventsTable, <1>0 DEF Table
    <3>2. PICK f \in T : f.id = HeadOf(T)
      BY <1>0, <2>3, <3>1, HeadIsGreatest
    <3>3. HeadOf(T) \in Nat /\ \A g \in T : g.id <= f.id
      BY <1>0, <3>1, <3>2, HeadIsGreatest
    <3>4. \A g \in T : g.id \in Nat /\ ~(g.id > f.id)
      BY <3>1, <3>2, <3>3 DEF Table, Event, Id
    <3> QED BY <3>4 DEF RunEnds
  <2>5. RunEnds(T) \subseteq T
    BY RunEndsAreTargets
  <2> QED BY <1>0, <2>2, <2>3, <2>4, <2>5 DEF Departed
<1>6. CASE Delete
  <2>1. /\ keeper \in Removing /\ keeper'.seen = keeper.seen /\ keeper'.attest = keeper.attest
        /\ UNCHANGED <<events, nextId, checkpoints, pending>>
    BY <1>6 DEF Delete, TypeOK, Idle, Removing
  <2>2. Known' = Known /\ Trims' = Trims
    BY <2>1 DEF Known, Trims
  <2> QED BY <1>0, <2>1, <2>2 DEF Departed
<1>7. CASE ReadBack
  <2>1. /\ keeper \in Removing
        /\ \/ keeper' = Idle
           \/ keeper' \in Removing /\ keeper'.seen = keeper.seen /\ keeper'.attest = keeper.attest
        /\ UNCHANGED <<events, nextId, checkpoints, pending>>
    BY <1>7 DEF ReadBack, TypeOK, Idle, Removing
  <2>2. Known' = Known /\ Trims' = Trims
    BY <2>1 DEF Known, Trims
  <2> QED BY <1>0, <2>1, <2>2, IdleIsNoRemoval DEF Departed
<1>8. CASE CommitRemoval
  <2>1. /\ keeper \in Removing /\ keeper.phase # "read" /\ keeper' = Idle
        /\ events' = events \ keeper.doomed /\ UNCHANGED <<pending, nextId>>
    BY <1>8 DEF CommitRemoval, TypeOK, Idle
  <2>2. Trims' = Trims \cup keeper.attest
    BY <1>8, CommittedTrims
  <2>3. Known' \subseteq Known
    BY <2>1 DEF Known
  <2>4. keeper.seen \subseteq events /\ keeper.seen \subseteq keeper.doomed
    BY <1>0, <2>1, TargetsAreEvents DEF WillAttest
  <2>5. \A e \in Known' : e.id \notin keeper.attest
    <3> SUFFICES ASSUME NEW e \in Known', NEW f \in keeper.seen, f.id = e.id PROVE FALSE
      BY <2>1 DEF Departed
    <3>1. e = f /\ e \in events
      BY <2>3, <2>4, RowFacts
    <3>2. e \notin events'
      BY <2>1, <2>4, <3>1
    <3>3. PICK w \in Writers : e \in pending[w]
      BY <2>1, <3>2 DEF Known
    <3>4. e.id < e.id /\ e.id \in Nat
      BY <1>0, <2>3, <3>1, <3>3, RowFacts DEF Numbered
    <3> QED BY <3>4
  <2>6. \A i \in keeper.attest : i < nextId
    BY <2>1, <2>4, RowFacts DEF Departed
  <2> QED BY <1>0, <2>1, <2>2, <2>3, <2>5, <2>6, IdleIsNoRemoval DEF Departed
<1>9. CASE SealRead \/ Verify
  BY <1>2, <1>9 DEF SealRead, Verify, VerifyHead, VerifyCheckpoints, VerifyPage, Trims
<1>10. CASE SealWrite
  <2>1. Trims' = Trims
    BY <1>10 DEF SealWrite, Trims
  <2> QED BY <1>2, <1>10, <2>1 DEF SealWrite
<1>11. ASSUME NEW e \in events, Lose(e) PROVE FALSE
  BY <1>11 DEF Lose, Unharmed
<1>12. CASE UNCHANGED vars
  BY <1>2, <1>12 DEF vars, Trims
<1> QED BY <1>3, <1>4, <1>5, <1>6, <1>7, <1>8, <1>9, <1>10, <1>11, <1>12 DEF Next, Write, Keep

(* The table is bounded by the id sequence. *)
LEMMA FiniteChain == ASSUME TypeOK, Ordered PROVE IsFiniteSet(events)
<1> DEFINE id == [e \in events |-> e.id]
<1>1. nextId \in Nat /\ \A e \in events : e.id \in 1..nextId
  BY RowFacts DEF TypeOK, Id
<1>2. \A e, f \in events : e.id = f.id => e = f
  BY RowFacts
<1>3. id \in Injection(events, 1..nextId)
  BY <1>1, <1>2 DEF Injection, IsInjective
<1>4. IsFiniteSet(1..nextId)
  BY <1>1, FS_Interval
<1> QED BY <1>3, <1>4, FS_Injection

(* A page has no gaps: the rows below one of its rows are on it, or on an
   earlier page.                                                           *)
LEMMA PagesAreTight ==
  ASSUME TypeOK, Ordered, NEW prev \in Nat, NEW rest, NEW page,
         rest = {e \in events : e.id > prev},
         page = {e \in rest : Cardinality({f \in rest : f.id <= e.id}) <= Page},
         NEW e \in page, NEW f \in events, prev < f.id, f.id <= e.id
  PROVE  f \in page
<1> DEFINE below(g) == {h \in rest : h.id <= g.id}
<1>1. IsFiniteSet(rest)
  BY FiniteChain, FS_Subset
<1>2. IsFiniteSet(below(e)) /\ IsFiniteSet(below(f))
  BY <1>1, FS_Subset
<1>3. f \in rest /\ e \in rest /\ \A h \in rest : h.id \in Nat
  BY RowFacts
<1>4. below(f) \subseteq below(e)
  BY <1>3
<1>5. Cardinality(below(e)) <= Page /\ Page \in Nat
  BY AuditAssumption
<1> HIDE DEF below
<1>6. /\ Cardinality(below(f)) <= Cardinality(below(e))
      /\ Cardinality(below(f)) \in Nat /\ Cardinality(below(e)) \in Nat
  BY <1>2, <1>4, FS_Subset, FS_CardinalityType
<1>7. Cardinality(below(f)) <= Page
  BY <1>5, <1>6
<1> QED BY <1>3, <1>7 DEF below

(* The rows of such a page follow one another, and the first of them follows
   the row carried over.                                                   *)
LEMMA PageIsSound ==
  ASSUME TypeOK, Ordered, Recorded, Unharmed,
         NEW prev \in Nat, prev = 0 \/ \E f \in events : f.id = prev,
         NEW page, page \subseteq events, \A e \in page : prev < e.id,
         \A e \in page, f \in events : prev < f.id /\ f.id <= e.id => f \in page
  PROVE  Broken(page, prev, Trims) = {}
<1> SUFFICES ASSUME NEW e \in page, ~(e.prev # 0 /\ e.prev \in Trims)
             PROVE  e.prev = IF \E f \in page : f.id < e.id
                             THEN HeadOf({f \in page : f.id < e.id}) ELSE prev
  BY DEF Broken
<1> DEFINE L == {f \in page : f.id < e.id}
<1>1. /\ \A f \in Known : f.id \in Nat /\ f.id # 0 /\ f.prev \in Nat /\ f.prev < f.id
      /\ events \subseteq Known /\ e \in events
  BY RowFacts
<1>2. \A f \in Known : ~(e.prev < f.id /\ f.id < e.id)
  BY <1>1 DEF Ordered, Linked
<1>3. CASE e.prev = 0
  <2>1. \A f \in page : ~(f.id < e.id)
    BY <1>1, <1>2, <1>3
  <2>2. prev = 0
    BY <1>1, <1>2, <1>3
  <2> QED BY <1>3, <2>1, <2>2
<1>4. CASE e.prev # 0
  <2>1. PICK f \in events : f.id = e.prev
    <3>1. PICK f \in Known : f.id = e.prev
      BY <1>1, <1>4 DEF Recorded, Chained
    <3>2. f.id < e.id /\ f.id \in Nat /\ e.id \in Nat
      BY <1>1, <3>1
    <3> QED BY <1>1, <3>1, <3>2, PendingAreAbove
  <2>2. f.id < e.id /\ f.id \in Nat /\ e.id \in Nat
    BY <1>1, <2>1
  <2>3. CASE prev < f.id
    <3>1. f \in L
      BY <2>2, <2>3
    <3>2. Table(L, nextId) /\ nextId \in Nat
      BY EventsTable DEF TypeOK, Ordered, Table, Id
    <3>3. \A g \in L : g \in Known /\ g.id < e.id
      BY <1>1
    <3> HIDE DEF L
    <3>4. f.id <= HeadOf(L) /\ HeadOf(L) \in Nat /\ \E g \in L : g.id = HeadOf(L)
      BY <3>1, <3>2, HeadIsGreatest
    <3>5. PICK g \in L : g.id = HeadOf(L)
      BY <3>4
    <3>6. HeadOf(L) = e.prev
      BY <1>1, <1>2, <2>1, <3>3, <3>4, <3>5
    <3> QED BY <3>1, <3>6 DEF L
  <2>4. CASE ~(prev < f.id)
    <3>1. PICK g \in events : g.id = prev
      BY <2>1, <2>2, <2>4, <1>4
    <3>2. prev < e.id /\ g \in Known
      BY <1>1
    <3>3. prev = e.prev
      BY <1>2, <2>1, <2>2, <2>4, <3>1, <3>2
    <3>4. \A h \in page : ~(h.id < e.id)
      BY <1>1, <1>2, <3>3
    <3> QED BY <3>3, <3>4
  <2> QED BY <2>3, <2>4
<1> QED BY <1>3, <1>4

LEMMA UnalarmedStep ==
  ASSUME TypeOK, TypeOK', Ordered, Recorded, Unharmed => Departed, Unalarmed, [Next]_vars
  PROVE  Unalarmed'
<1>0. Unharmed' => Unharmed
  BY OnlyGetsWorse
<1>1. ASSUME verify' = verify, checkpoints' = checkpoints, Unharmed' => events \subseteq events'
      PROVE  Unalarmed'
  <2>1. Trims' = Trims /\ Seals' = Seals
    BY <1>1 DEF Trims, Seals
  <2> QED BY <1>0, <1>1, <2>1 DEF Unalarmed, Truncated
<1>2. CASE \E w \in Writers : Write(w)
  BY <1>1, <1>2 DEF Write, Append, Commit, Abort
<1>3. CASE StartTrim \/ StartErase \/ Delete \/ ReadBack \/ SealRead
  BY <1>1, <1>3 DEF StartTrim, StartErase, ReadBoundary, Delete, ReadBack, SealRead
<1>4. ASSUME verify' = verify, checkpoints \subseteq checkpoints',
             Unharmed' => events' = events \/ checkpoints' # checkpoints
      PROVE  Unalarmed'
  <2>1. CASE checkpoints' = checkpoints
    BY <1>1, <1>4, <2>1
  <2>2. CASE checkpoints' # checkpoints
    BY <1>4, <2>2 DEF Unalarmed
  <2> QED BY <2>1, <2>2
<1>5. CASE SealWrite
  <2>1. verify' = verify /\ checkpoints \subseteq checkpoints' /\ events' = events
    BY <1>5 DEF SealWrite
  <2> QED BY <1>4, <2>1
<1>6. CASE CommitRemoval
  <2>1. /\ verify' = verify /\ checkpoints \subseteq checkpoints'
        /\ keeper \in Removing
    BY <1>6 DEF CommitRemoval, TypeOK, Idle
  <2>2. ASSUME Unharmed PROVE checkpoints' # checkpoints
    <3>1. PICK i \in keeper.attest : i \notin Trims
      <4>1. PICK i \in keeper.attest : \E f \in keeper.seen : f.id = i
        BY <2>1, <2>2 DEF Departed
      <4>2. PICK f \in keeper.seen : f.id = i
        BY <4>1
      <4>3. f \in Known
        BY <2>1, <2>2, TargetsAreEvents DEF Recorded, WillAttest, Known
      <4> QED BY <2>2, <4>2, <4>3 DEF Departed
    <3>2. Trims' # Trims
      BY <1>6, <3>1, CommittedTrims
    <3> QED BY <3>2 DEF Trims
  <2> QED BY <1>0, <1>4, <2>1, <2>2
<1>7. CASE VerifyHead
  <2>1. verify' = [phase |-> "head", at |-> checkpoints, head |-> HeadOf(events)]
    BY <1>7 DEF VerifyHead
  <2>2. /\ verify'.phase = "head" /\ verify'.at = checkpoints /\ verify'.head = HeadOf(events)
        /\ checkpoints' = checkpoints /\ Unharmed' = Unharmed
    BY <1>7, <2>1 DEF VerifyHead, Unharmed
  <2>3. Trims' = Trims /\ Seals' = Seals
    BY <2>2 DEF Trims, Seals
  <2>4. Unharmed => ~Truncated(HeadOf(events), Trims, Seals)
    BY RecordedIsSound DEF OnlyOverrunsBreakTheChain, Unharmed, Sound
  <2> QED BY <2>2, <2>3, <2>4 DEF Unalarmed, Truncated
<1>8. CASE VerifyCheckpoints
  <2>1. /\ verify \in [phase : {"head"}, at : SUBSET Checkpoint, head : Nat] /\ verify # Idle
        /\ UNCHANGED <<events, checkpoints, overrun, lost>>
    BY <1>8 DEF VerifyCheckpoints, TypeOK, Idle
  <2>2. Trims' = Trims /\ Seals' = Seals /\ Unharmed' = Unharmed
    BY <2>1 DEF Trims, Seals, Unharmed
  <2>3. CASE Truncated(verify.head, Trims, Seals)
    <3>1. verify' = [phase |-> "done", at |-> verify.at, problem |-> "truncated_past_seal"]
      BY <1>8, <2>3 DEF VerifyCheckpoints
    <3>2. verify'.at = verify.at /\ ~(Unharmed /\ verify.at = checkpoints)
      BY <2>1, <2>3, <3>1 DEF Unalarmed
    <3> QED BY <2>1, <2>2, <3>2 DEF Unalarmed
  <2>4. CASE ~Truncated(verify.head, Trims, Seals)
    <3>1. verify' = [phase |-> "paging", at |-> verify.at, attested |-> Trims, prev |-> 0]
      BY <1>8, <2>4 DEF VerifyCheckpoints
    <3>2. /\ verify'.at = verify.at /\ verify'.phase = "paging"
          /\ verify'.attested = Trims /\ verify'.prev = 0
      BY <3>1
    <3> QED BY <2>1, <2>2, <3>2 DEF Unalarmed
  <2> QED BY <2>3, <2>4
<1>9. CASE VerifyPage
  <2> DEFINE rest == {e \in events : e.id > verify.prev}
             page == {e \in rest : Cardinality({f \in rest : f.id <= e.id}) <= Page}
  <2>1. /\ verify \in [phase : {"paging"}, at : SUBSET Checkpoint, attested : SUBSET Id, prev : Nat]
        /\ verify # Idle
        /\ UNCHANGED <<events, checkpoints, overrun, lost>>
    BY <1>9 DEF VerifyPage, TypeOK, Idle
  <2>2. Trims' = Trims /\ Seals' = Seals /\ Unharmed' = Unharmed
    BY <2>1 DEF Trims, Seals, Unharmed
  <2>3. \/ /\ verify' = [phase |-> "done", at |-> verify.at, problem |-> "prev_hash_mismatch"]
           /\ Broken(page, verify.prev, verify.attested) # {}
        \/ verify' = [phase |-> "done", at |-> verify.at, problem |-> "none"]
        \/ /\ verify' = [verify EXCEPT !.prev = HeadOf(page)]
           /\ ~(Cardinality(page) < Page)
    BY <1>9 DEF VerifyPage
  <2>4. verify.prev \in Nat /\ page \subseteq events /\ \A e \in page : verify.prev < e.id
    BY <2>1, RowFacts
  <2>5. \A e \in page, f \in events : verify.prev < f.id /\ f.id <= e.id => f \in page
    BY <2>4, PagesAreTight
  <2>6. Cardinality({}) = 0 /\ Page \in Nat \ {0}
    BY FS_EmptySet, AuditAssumption
  <2> HIDE DEF rest, page
  <2>7. ASSUME Unharmed, verify.at = checkpoints
        PROVE  Broken(page, verify.prev, verify.attested) = {}
    <3>1. verify.attested = Trims /\ (verify.prev = 0 \/ \E f \in events : f.id = verify.prev)
      BY <2>1, <2>7 DEF Unalarmed
    <3> QED BY <2>4, <2>5, <2>7, <3>1, PageIsSound
  <2>8. CASE verify' = [phase |-> "done", at |-> verify.at, problem |-> "prev_hash_mismatch"]
             /\ Broken(page, verify.prev, verify.attested) # {}
    <3>1. verify'.at = verify.at /\ ~(Unharmed /\ verify.at = checkpoints)
      BY <2>7, <2>8
    <3> QED BY <2>1, <2>2, <3>1 DEF Unalarmed
  <2>9. CASE verify' = [phase |-> "done", at |-> verify.at, problem |-> "none"]
    <3>1. verify'.at = verify.at /\ verify'.phase = "done" /\ verify'.problem = "none"
      BY <2>9
    <3> QED BY <2>1, <2>2, <3>1 DEF Unalarmed
  <2>10. CASE verify' = [verify EXCEPT !.prev = HeadOf(page)] /\ ~(Cardinality(page) < Page)
    <3>1. page # {}
      BY <2>6, <2>10
    <3>2. Table(page, nextId) /\ nextId \in Nat
      BY <2>4, EventsTable DEF Ordered, Table, TypeOK, Id
    <3>3. \E f \in events : f.id = HeadOf(page)
      BY <2>4, <3>1, <3>2, HeadIsGreatest
    <3>4. /\ verify'.at = verify.at /\ verify'.phase = "paging"
          /\ verify'.attested = verify.attested /\ verify'.prev = HeadOf(page)
      BY <2>1, <2>10
    <3> QED BY <2>1, <2>2, <3>3, <3>4 DEF Unalarmed
  <2> QED BY <2>3, <2>8, <2>9, <2>10
<1>10. ASSUME NEW e \in events, Lose(e) PROVE Unalarmed'
  BY <1>1, <1>10 DEF Lose, Unharmed
<1>11. CASE UNCHANGED vars
  BY <1>1, <1>11 DEF vars
<1> QED BY <1>2, <1>3, <1>5, <1>6, <1>7, <1>8, <1>9, <1>10, <1>11 DEF Next, Keep, Verify

LEMMA UnalarmedInit == Init => Departed /\ Unalarmed
<1> SUFFICES ASSUME Init PROVE Departed /\ Unalarmed
  OBVIOUS
<1>1. Known = {} /\ Trims = {} /\ keeper = Idle /\ verify = Idle
  BY DEF Init, Known, Trims
<1> QED BY <1>1, IdleIsNoRemoval DEF Departed, Unalarmed

(* However much is appended while it pages, a verification raises an alarm only
   where a row was lost or a removal overran its record -- provided nobody
   sealed or trimmed the chain meanwhile.                                   *)
THEOREM AlarmsAreReal == Spec => []AlarmIsReal
<1> DEFINE I == TypeOK /\ Ordered /\ Recorded /\ (Unharmed => Departed) /\ Unalarmed
<1>1. Init => I
  BY TypeInit, OrderInit, RecordedInit, UnalarmedInit
<1>2. I /\ [Next]_vars => I'
  <2> SUFFICES ASSUME I, [Next]_vars PROVE I'
    OBVIOUS
  <2>1. TypeOK' /\ Ordered'
    BY TypeStep, OrderStep DEF Ordered
  <2>2. Recorded'
    BY <2>1, RecordedStep
  <2>3. (Unharmed => Departed)'
    BY <2>1, OnlyGetsWorse, DepartedStep
  <2>4. Unalarmed'
    BY <2>1, UnalarmedStep
  <2> QED BY <2>1, <2>2, <2>3, <2>4
<1>3. I => AlarmIsReal
  BY DEF Unalarmed, AlarmIsReal, Damaged, Unharmed, Idle
<1> QED BY <1>1, <1>2, <1>3, PTL DEF Spec

-----------------------------------------------------------------------------
(* A loss that leaves a row pointing nowhere, or a seal ahead of the head, is
   there for the next verification to see.                                 *)
LEMMA LossStep ==
  ASSUME TypeOK, TypeOK', Ordered, Ordered', NEW e \in events, Lose(e),
         events' = events \ {e}, LossIsSeen(e)
  PROVE  ~Sound'
<1>1. checkpoints' = checkpoints /\ Trims' = Trims /\ Seals' = Seals
  BY DEF Lose, Trims, Seals
<1>2. HeadOf(events') \in Nat /\ \A f \in events' : f.id <= HeadOf(events')
  BY NextHead
<1>3. events' \subseteq events /\ e.id \in Nat /\ e.id # 0
  BY RowFacts
<1>4. CASE e.id \notin Trims /\ \E f \in events : f.prev = e.id
  <2>1. PICK f \in events : f.prev = e.id
    BY <1>4
  <2>2. f \in events' /\ f.prev # 0 /\ f.prev \notin Trims'
    BY <1>1, <1>3, <1>4, <2>1, RowFacts
  <2> DEFINE L == {g \in events' : g.id < f.id}
  <2>3. Table(L, nextId) /\ nextId \in Nat
    BY <1>3, EventsTable DEF TypeOK, Ordered, Table, Id
  <2>4. \A g \in L : g.id # e.id
    BY <1>3, RowFacts
  <2> HIDE DEF L
  <2>5. L # {} => HeadOf(L) # f.prev
    BY <2>1, <2>3, <2>4, HeadIsGreatest
  <2>6. f \in Broken(events', 0, Trims')
    BY <2>2, <2>5 DEF Broken, L
  <2> QED BY <2>6 DEF Sound
<1>5. CASE /\ e.id \in Seals /\ e.id = HeadOf(events)
           /\ \A c \in Trims \cup Seals : c <= e.id
           /\ e.id \notin Trims
  <2>1. HeadOf(events') < e.id
    <3>1. CASE events' = {}
      BY <1>3, <3>1 DEF HeadOf
    <3>2. CASE events' # {}
      <4>1. Table(events', nextId) /\ nextId \in Nat
        BY <1>3, EventsTable DEF TypeOK, Ordered, Table, Id
      <4>2. PICK f \in events' : f.id = HeadOf(events')
        BY <3>2, <4>1, HeadIsGreatest
      <4>3. f.id <= e.id /\ f.id # e.id /\ f.id \in Nat
        BY <1>3, <1>5, <4>2, RowFacts
      <4> QED BY <1>3, <4>2, <4>3
    <3> QED BY <3>1, <3>2
  <2>2. \A t \in Trims : t < e.id
    <3>1. Trims \subseteq Nat
      BY CheckpointIds DEF TypeOK, Id
    <3> QED BY <1>3, <1>5, <3>1
  <2>3. Truncated(HeadOf(events'), Trims', Seals')
    BY <1>1, <1>5, <2>1, <2>2 DEF Truncated
  <2> QED BY <2>3 DEF Sound
<1> QED BY <1>4, <1>5 DEF LossIsSeen

(* A row lost outside the library is found by the next verification if a row
   points at it or a seal vouched for it as the head, and no checkpoint excuses
   that very place.                                                        *)
THEOREM LossesAreSeen == Spec => UnrecordedLossIsSeen
<1> DEFINE I == TypeOK /\ Ordered
<1>1. Init => I
  BY TypeInit, OrderInit
<1>2. I /\ [Next]_vars => I'
  BY TypeStep, OrderStep DEF Ordered
<1>3. I /\ I' /\ [Next]_vars =>
        [\A e \in events : lost' # lost /\ events' = events \ {e} /\ LossIsSeen(e) => ~Sound']_vars
  <2> SUFFICES ASSUME I, I', Next, NEW e \in events, lost' # lost,
                      events' = events \ {e}, LossIsSeen(e)
               PROVE  ~Sound'
    OBVIOUS
  <2>1. PICK f \in events : Lose(f)
    BY DEF Next, Write, Append, Commit, Abort, Keep, StartTrim, StartErase, ReadBoundary,
       Delete, ReadBack, CommitRemoval, SealRead, SealWrite, Verify, VerifyHead,
       VerifyCheckpoints, VerifyPage
  <2>2. e = f
    BY <2>1 DEF Lose
  <2> QED BY <2>1, <2>2, LossStep
<1> QED BY <1>1, <1>2, <1>3, PTL DEF Spec, UnrecordedLossIsSeen

-----------------------------------------------------------------------------
(* The refinement of AuditLog.  Two more invariants, which no loss and no
   overrun disturbs:
   - what is attested, sealed, or about to be is older than every row that
     is not committed yet;
   - a removal attests rows it saw; a trim attests its edge and takes exactly
     what is behind it, an erasure nothing but rows of its actor.           *)

Attesting == IF keeper = Idle THEN {} ELSE keeper.attest
OnRecord  == Trims \cup Seals \cup {sealing} \cup Attesting

Older(i) == i < nextId /\ \A w \in Writers : \A p \in pending[w] : i < p.id

Fresh == \A i \in OnRecord : Older(i)

Reach ==
  keeper \in Removing =>
    /\ \A i \in keeper.attest : \E f \in keeper.seen : f.id = i
    /\ keeper.op.kind = "trim" => keeper.op.edge \in keeper.attest
    /\ keeper.phase # "read" =>
         /\ keeper.op.kind = "trim" =>
              /\ \A e \in events : e.id <= keeper.op.edge => e \in keeper.doomed
              /\ \A e \in keeper.doomed : e.id <= keeper.op.edge
         /\ keeper.op.kind = "erase" => \A e \in keeper.doomed : e.actor = keeper.op.actor

LEMMA EventsAreOlder ==
  ASSUME TypeOK, Ordered
  PROVE  Older(0) /\ \A e \in events : Older(e.id)
<1>1. Numbered /\ nextId \in Nat /\ 0 < nextId
  BY DEF Ordered, TypeOK, Id
<1>2. \A w \in Writers : \A p \in pending[w] : 0 < p.id
  BY DEF TypeOK, Event, Id
<1>3. \A e \in events : e.id < nextId
  BY <1>1 DEF Numbered, Table, Known
<1> QED
  BY <1>1, <1>2, <1>3 DEF Older, Numbered

(* Only an append makes new rows, and theirs are the greatest ids. *)
LEMMA FreshKept ==
  ASSUME TypeOK, Ordered, Fresh, nextId' = nextId,
         \A w \in Writers : pending'[w] \subseteq pending[w],
         \A i \in OnRecord' : i \in OnRecord \/ i = 0 \/ \E e \in events : e.id = i
  PROVE  Fresh'
<1> SUFFICES ASSUME NEW i \in OnRecord' PROVE Older(i)'
  BY DEF Fresh
<1>1. Older(i)
  BY EventsAreOlder DEF Fresh
<1> QED
  BY <1>1 DEF Older

LEMMA FreshStep == TypeOK /\ TypeOK' /\ Ordered /\ Fresh /\ [Next]_vars => Fresh'
<1> SUFFICES ASSUME TypeOK, TypeOK', Ordered, Fresh, [Next]_vars PROVE Fresh'
  OBVIOUS
<1>1. ASSUME NEW w \in Writers, NEW a \in People, Append(w, a) PROVE Fresh'
  <2>1. /\ UNCHANGED <<checkpoints, keeper, sealing>> /\ nextId' = nextId + 1
        /\ pending' = [pending EXCEPT ![w] = pending[w] \cup {NewRow(w, a)}]
    BY <1>1 DEF Append, NewRow
  <2>2. OnRecord' = OnRecord
    BY <2>1 DEF OnRecord, Attesting, Trims, Seals
  <2>3. OnRecord \subseteq Nat /\ nextId \in Nat
    <3>1. Trims \subseteq Nat /\ Seals \subseteq Nat /\ sealing \in Nat /\ nextId \in Nat
      BY CheckpointIds DEF TypeOK, Id
    <3>2. Attesting \subseteq Nat
      BY DEF Attesting, TypeOK, Removing, Id
    <3> QED
      BY <3>1, <3>2 DEF OnRecord
  <2>4. \A v \in Writers : \A p \in pending'[v] : p \in pending[v] \/ p.id = nextId
    BY <2>1 DEF NewRow, TypeOK
  <2> QED
    BY <2>1, <2>2, <2>3, <2>4 DEF Fresh, Older
<1>2. ASSUME NEW w \in Writers, Commit(w) \/ Abort(w) PROVE Fresh'
  <2>1. /\ UNCHANGED <<checkpoints, keeper, sealing, nextId>>
        /\ pending' = [pending EXCEPT ![w] = {}]
    BY <1>2 DEF Commit, Abort
  <2>2. OnRecord' = OnRecord
    BY <2>1 DEF OnRecord, Attesting, Trims, Seals
  <2>3. \A v \in Writers : pending'[v] \subseteq pending[v]
    BY <2>1 DEF TypeOK
  <2> QED
    BY <2>1, <2>2, <2>3, FreshKept
<1>3. CASE StartTrim \/ StartErase
  <2>1. PICK op \in Removal : ReadBoundary(op)
    BY <1>3, StartsARemoval
  <2>2. /\ keeper'.attest = {e.id : e \in RunEnds(Targets(op))}
        /\ UNCHANGED <<checkpoints, sealing, nextId, pending>>
    BY <2>1, BoundaryRead
  <2>3. Trims' = Trims /\ Seals' = Seals
    BY <2>2 DEF Trims, Seals
  <2>4. \A i \in Attesting' : \E e \in events : e.id = i
    BY <2>2, RunEndsAreTargets, TargetsAreEvents DEF Attesting
  <2> QED
    BY <2>2, <2>3, <2>4, FreshKept DEF OnRecord
<1>4. CASE Delete \/ ReadBack
  <2>1. /\ keeper \in Removing /\ UNCHANGED <<checkpoints, sealing, nextId, pending>>
        /\ keeper' = Idle \/ keeper'.attest = keeper.attest
    <3>1. keeper # Idle /\ keeper \in Removing
      BY <1>4 DEF Delete, ReadBack, TypeOK, Idle
    <3> QED
      BY <1>4, <3>1 DEF Delete, ReadBack, Removing
  <2>2. Trims' = Trims /\ Seals' = Seals /\ Attesting' \subseteq Attesting
    BY <2>1, IdleIsNoRemoval DEF Trims, Seals, Attesting
  <2> QED
    BY <2>1, <2>2, FreshKept DEF OnRecord
<1>5. CASE CommitRemoval
  <2>1. /\ keeper # Idle /\ keeper' = Idle /\ UNCHANGED <<sealing, nextId, pending>>
        /\ checkpoints' = checkpoints \cup {[kind |-> "trim", through |-> i] : i \in keeper.attest}
    BY <1>5 DEF CommitRemoval, Idle
  <2>2. Trims' = Trims \cup Attesting
    BY <1>5, <2>1, CommittedTrims DEF Attesting
  <2>3. Seals' = Seals
    BY <2>1 DEF Seals
  <2> QED
    BY <2>1, <2>2, <2>3, FreshKept DEF OnRecord, Attesting
<1>6. CASE SealRead
  <2>1. sealing' = HeadOf(events) /\ UNCHANGED <<checkpoints, keeper, nextId, pending>>
    BY <1>6 DEF SealRead
  <2>2. HeadOf(events) = 0 \/ \E e \in events : e.id = HeadOf(events)
    BY RowFacts
  <2>3. Trims' = Trims /\ Seals' = Seals /\ Attesting' = Attesting
    BY <2>1 DEF Trims, Seals, Attesting
  <2> QED
    BY <2>1, <2>2, <2>3, FreshKept DEF OnRecord
<1>7. CASE SealWrite
  <2>1. /\ sealing' = 0 /\ UNCHANGED <<keeper, nextId, pending>>
        /\ checkpoints' = checkpoints \cup {[kind |-> "seal", through |-> sealing]}
    BY <1>7 DEF SealWrite
  <2>2. Trims' = Trims /\ Seals' \subseteq Seals \cup {sealing} /\ Attesting' = Attesting
    BY <2>1 DEF Trims, Seals, Attesting
  <2> QED
    BY <2>1, <2>2, FreshKept DEF OnRecord
<1>8. ASSUME UNCHANGED <<checkpoints, sealing, keeper, nextId, pending>> PROVE Fresh'
  BY <1>8 DEF Fresh, Older, OnRecord, Attesting, Trims, Seals
<1>9. ASSUME Verify \/ (\E e \in events : Lose(e)) \/ UNCHANGED vars PROVE Fresh'
  BY <1>8, <1>9 DEF Verify, VerifyHead, VerifyCheckpoints, VerifyPage, Lose, vars
<1> QED
  BY <1>1, <1>2, <1>3, <1>4, <1>5, <1>6, <1>7, <1>9 DEF Next, Write, Keep

LEMMA ReachStep ==
  TypeOK /\ TypeOK' /\ Ordered /\ Fresh /\ Reach /\ [Next]_vars => Reach'
<1> SUFFICES ASSUME TypeOK, TypeOK', Ordered, Fresh, Reach, [Next]_vars PROVE Reach'
  OBVIOUS
<1>1. ASSUME keeper' = keeper, events' \subseteq events PROVE Reach'
  BY <1>1 DEF Reach
<1>2. ASSUME NEW w \in Writers, Commit(w) PROVE Reach'
  <2>1. keeper' = keeper /\ events' = events \cup pending[w]
    BY <1>2 DEF Commit
  <2>2. keeper \in Removing /\ keeper.op.kind = "trim" =>
          \A p \in pending[w] : ~(p.id <= keeper.op.edge)
    <3> SUFFICES ASSUME keeper \in Removing, keeper.op.kind = "trim", NEW p \in pending[w]
                 PROVE  ~(p.id <= keeper.op.edge)
      OBVIOUS
    <3>1. keeper.op.edge \in OnRecord
      BY IdleIsNoRemoval DEF Reach, OnRecord, Attesting
    <3>2. keeper.op.edge < p.id
      BY <3>1 DEF Fresh, Older
    <3>3. keeper.op.edge \in Nat /\ p.id \in Nat
      BY DEF TypeOK, Removing, Removal, Event, Id
    <3> QED
      BY <3>2, <3>3
  <2> QED
    BY <2>1, <2>2 DEF Reach
<1>3. CASE StartTrim \/ StartErase
  <2>1. PICK op \in Removal : ReadBoundary(op) /\ (op.kind = "trim" => \E e \in events : op.edge = e.id)
    BY <1>3, StartsARemoval
  <2>2. /\ keeper' \in Removing /\ keeper'.phase = "read" /\ keeper'.op = op
        /\ keeper'.seen = Targets(op)
        /\ keeper'.attest = {e.id : e \in RunEnds(Targets(op))}
    BY <2>1, BoundaryRead
  <2>3. \A i \in keeper'.attest : \E f \in keeper'.seen : f.id = i
    BY <2>2, RunEndsAreTargets
  <2>4. op.kind = "trim" => op.edge \in keeper'.attest
    <3> SUFFICES ASSUME op.kind = "trim" PROVE op.edge \in keeper'.attest
      OBVIOUS
    <3>1. PICK r \in events : op.edge = r.id
      BY <2>1
    <3>2. \A e \in events : e.id \in Nat
      BY RowFacts
    <3>3. r \in Targets(op) /\ \A f \in Targets(op) : ~(f.id > r.id)
      BY <3>1, <3>2 DEF Targets
    <3>4. r \in RunEnds(Targets(op))
      BY <3>3 DEF RunEnds
    <3> QED
      BY <2>2, <3>1, <3>4
  <2> QED
    BY <2>2, <2>3, <2>4 DEF Reach
<1>4. CASE Delete
  <2>1. /\ keeper \in Removing /\ events' = events
        /\ keeper'.op = keeper.op /\ keeper'.seen = keeper.seen
        /\ keeper'.attest = keeper.attest /\ keeper'.doomed = Targets(keeper.op)
    BY <1>4 DEF Delete, TypeOK, Idle, Removing
  <2>2. keeper.op.kind = "trim" =>
          /\ \A e \in events : e.id <= keeper.op.edge => e \in Targets(keeper.op)
          /\ \A e \in Targets(keeper.op) : e.id <= keeper.op.edge
    BY DEF Targets
  <2>3. keeper.op.kind = "erase" => \A e \in Targets(keeper.op) : e.actor = keeper.op.actor
    BY DEF Targets
  <2> QED
    BY <2>1, <2>2, <2>3 DEF Reach
<1>5. CASE ReadBack
  <2>1. /\ keeper \in Removing /\ keeper.phase = "deleted" /\ events' = events
        /\ keeper' \in {[keeper EXCEPT !.phase = "checked"], Idle}
    BY <1>5 DEF ReadBack, TypeOK, Idle
  <2>2. CASE keeper' = [keeper EXCEPT !.phase = "checked"]
    <3>1. /\ keeper'.op = keeper.op /\ keeper'.seen = keeper.seen
          /\ keeper'.attest = keeper.attest /\ keeper'.doomed = keeper.doomed
      BY <2>1, <2>2 DEF Removing
    <3> QED
      BY <2>1, <3>1 DEF Reach
  <2> QED
    BY <2>1, <2>2, IdleIsNoRemoval DEF Reach
<1>6. CASE CommitRemoval
  BY <1>6, IdleIsNoRemoval DEF CommitRemoval, Reach
<1>7. ASSUME \/ \E w \in Writers : (\E a \in People : Append(w, a)) \/ Abort(w)
             \/ SealRead \/ SealWrite \/ Verify \/ UNCHANGED vars
             \/ \E e \in events : Lose(e)
      PROVE  Reach'
  BY <1>1, <1>7 DEF Append, Abort, SealRead, SealWrite, Verify, VerifyHead, VerifyCheckpoints,
     VerifyPage, Lose, vars
<1> QED
  BY <1>2, <1>3, <1>4, <1>5, <1>6, <1>7 DEF Next, Write, Keep

(* A commit puts its rows behind the last one, all at once. *)
LEMMA CommitExtends ==
  ASSUME TypeOK, Ordered, Recorded, Fresh, NEW w \in Writers, Commit(w)
  PROVE  Log!Extend
<1>1. /\ lock = w /\ events' = events \cup pending[w]
      /\ Trims' = Trims /\ Seals' = Seals /\ Damaged' = Damaged
  BY DEF Commit, Trims, Seals, Damaged
<1>2. events' = Known
  BY <1>1, HolderSeesAll DEF Ordered
<1>3. ASSUME NEW e \in events' \ events
      PROVE  /\ \A i \in Log!Ids(events) \cup Trims \cup Seals : i < e.id
             /\ \A f \in events' : /\ f.id = e.id => f = e
                                   /\ ~(e.prev < f.id /\ f.id < e.id)
             /\ ~Damaged => e.prev \in {0} \cup Log!Ids(events') \cup Trims
  <2>1. e \in pending[w] /\ e \in Known
    BY <1>1, <1>2, <1>3
  <2>2. \A i \in Log!Ids(events) : i < e.id
    BY <2>1 DEF Log!Ids, Ordered, Numbered
  <2>3. \A i \in Trims \cup Seals : i < e.id
    BY <2>1 DEF Fresh, Older, OnRecord
  <2>4. \A f \in events' : f.id = e.id => f = e
    BY <1>2, <2>1, RowFacts
  <2>5. \A f \in events' : ~(e.prev < f.id /\ f.id < e.id)
    BY <1>2, <2>1 DEF Ordered, Linked
  <2>6. ~Damaged => e.prev \in {0} \cup Log!Ids(events') \cup Trims
    <3>1. ~Damaged => e.prev = 0 \/ e.prev \in Trims \/ \E f \in Known : f.id = e.prev
      BY <2>1 DEF Recorded, Unharmed, Damaged, Chained
    <3> QED
      BY <1>2, <3>1 DEF Log!Ids
  <2> QED
    BY <2>2, <2>3, <2>4, <2>5, <2>6
<1> QED
  BY <1>1, <1>3 DEF Log!Extend

(* The commit of a removal is a cut: of everything up to an attested row, or of
   rows of one actor.                                                       *)
LEMMA RemovalCuts ==
  ASSUME TypeOK, TypeOK', Ordered, TrimBound, Recorded, Reach, CommitRemoval
  PROVE  Log!Trim \/ Log!Erase
<1>1. /\ keeper \in Removing /\ keeper.phase = "checked"
      /\ events' = events \ keeper.doomed /\ lost' = lost
      /\ overrun' = (overrun \/ ~(keeper.doomed \subseteq keeper.seen))
      /\ Trims' = Trims \cup keeper.attest
  BY CommittedTrims DEF CommitRemoval, TypeOK, Idle
<1>2. Seals' = Seals
  <2>1. checkpoints' = checkpoints \cup {[kind |-> "trim", through |-> i] : i \in keeper.attest}
    BY DEF CommitRemoval
  <2> QED
    BY <2>1 DEF Seals
<1>3. events \ events' = events \cap keeper.doomed
  BY <1>1
<1>4. ASSUME ~Damaged'
      PROVE  /\ Trims' \ Trims \subseteq Log!Ids(events \ events')
             /\ \A e \in events' : e.prev \in Log!Ids(events \ events') => e.prev \in Trims'
  <2>1. Unharmed /\ keeper.doomed \subseteq keeper.seen
    BY <1>1, <1>4 DEF Damaged, Unharmed
  <2>2. /\ keeper.seen \subseteq events /\ keeper.seen \subseteq keeper.doomed
        /\ \A f \in keeper.seen, e \in Known \ keeper.seen : e.prev = f.id => f.id \in keeper.attest
    BY <1>1, <2>1, TargetsAreEvents DEF Recorded, WillAttest
  <2>3. events \ events' = keeper.seen
    BY <1>3, <2>1, <2>2
  <2>4. Trims' \ Trims \subseteq Log!Ids(events \ events')
    BY <1>1, <2>3 DEF Reach, Log!Ids
  <2>5. ASSUME NEW e \in events', e.prev \in Log!Ids(events \ events')
        PROVE  e.prev \in Trims'
    <3>1. PICK f \in keeper.seen : f.id = e.prev
      BY <2>3, <2>5 DEF Log!Ids
    <3>2. e \in Known \ keeper.seen
      BY <1>1, <2>2 DEF Known
    <3> QED
      BY <1>1, <2>2, <3>1, <3>2
  <2> QED
    BY <2>4, <2>5
<1>5. Log!Cut
  BY <1>1, <1>2, <1>4 DEF Log!Cut
<1>6. CASE keeper.op.kind = "trim"
  <2>1. keeper.doomed \subseteq keeper.seen /\ keeper.op.edge \in keeper.attest
    BY <1>1, <1>6 DEF TrimBound, Reach
  <2>2. Damaged' = Damaged
    BY <1>1, <2>1 DEF Damaged, TypeOK
  <2>3. events' = {e \in events : keeper.op.edge < e.id}
    <3>1. \A e \in events : e \in keeper.doomed <=> e.id <= keeper.op.edge
      BY <1>1, <1>6 DEF Reach
    <3>2. keeper.op.edge \in Nat /\ \A e \in events : e.id \in Nat
      BY <1>1, <1>6, RowFacts DEF Removing, Removal, Id
    <3> QED
      BY <1>1, <3>1, <3>2
  <2> QED
    BY <1>1, <1>5, <2>1, <2>2, <2>3 DEF Log!Trim
<1>7. CASE keeper.op.kind = "erase"
  <2>1. \A e, f \in events \ events' : e.actor = f.actor
    BY <1>1, <1>3, <1>7 DEF Reach
  <2>2. Damaged => Damaged'
    BY <1>1 DEF Damaged
  <2> QED
    BY <1>5, <2>1, <2>2 DEF Log!Erase
<1> QED
  BY <1>1, <1>6, <1>7 DEF Removing, Removal

(* What is sealed is not ahead of the chain, unless it was harmed. *)
LEMMA SealSeals ==
  ASSUME TypeOK, Ordered, Recorded, SealWrite
  PROVE  Log!Seal
<1>1. /\ sealing # 0 /\ events' = events /\ overrun' = overrun /\ lost' = lost
      /\ checkpoints' = checkpoints \cup {[kind |-> "seal", through |-> sealing]}
  BY DEF SealWrite
<1>2. Trims' = Trims /\ Damaged' = Damaged
  BY <1>1 DEF Trims, Damaged
<1>3. Seals' = Seals \cup {sealing}
  <2> DEFINE c == [kind |-> "seal", through |-> sealing]
  <2>1. c.kind = "seal" /\ c.through = sealing /\ checkpoints' = checkpoints \cup {c}
    BY <1>1
  <2> HIDE DEF c
  <2> QED
    BY <2>1 DEF Seals
<1>4. ASSUME ~Damaged
      PROVE  \E j \in Log!Ids(events) \cup Trims : sealing <= j
  <2>1. sealing <= HeadOf(events) \/ \E t \in Trims : sealing <= t
    BY <1>4 DEF Recorded, Unharmed, Damaged, Sealed
  <2>2. HeadOf(events) = 0 \/ \E e \in events : e.id = HeadOf(events)
    BY RowFacts
  <2>3. sealing \in Nat /\ HeadOf(events) \in Nat
    BY RowFacts DEF TypeOK
  <2> QED
    BY <1>1, <2>1, <2>2, <2>3 DEF Log!Ids
<1> QED
  BY <1>1, <1>2, <1>3, <1>4 DEF Log!Seal

LEMMA LogStep ==
  ASSUME TypeOK, TypeOK', Ordered, TrimBound, Recorded, Fresh, Reach, [Next]_vars
  PROVE  [Log!LNext]_Log!lvars
<1>1. ASSUME UNCHANGED <<events, checkpoints, overrun, lost>>
      PROVE  UNCHANGED Log!lvars
  BY <1>1 DEF Log!lvars, Trims, Seals, Damaged
<1>2. CASE \E w \in Writers : Commit(w)
  BY <1>2, CommitExtends DEF Log!LNext
<1>3. CASE CommitRemoval
  BY <1>3, RemovalCuts DEF Log!LNext
<1>4. CASE SealWrite
  BY <1>4, SealSeals DEF Log!LNext
<1>5. ASSUME NEW e \in events, Lose(e)
      PROVE  Log!Lose
  <2>1. events' = events \ {e} /\ lost' = lost \cup {e} /\ checkpoints' = checkpoints
    BY <1>5 DEF Lose
  <2> QED
    BY <2>1 DEF Log!Lose, Trims, Seals, Damaged
<1>6. CASE \/ \E w \in Writers : (\E a \in People : Append(w, a)) \/ Abort(w)
           \/ StartTrim \/ StartErase \/ Delete \/ ReadBack \/ SealRead \/ Verify
           \/ UNCHANGED vars
  BY <1>1, <1>6 DEF Append, Abort, StartTrim, StartErase, ReadBoundary, Delete, ReadBack, SealRead,
     Verify, VerifyHead, VerifyCheckpoints, VerifyPage, vars
<1> QED
  BY <1>2, <1>3, <1>4, <1>5, <1>6 DEF Next, Write, Keep, Log!LNext

(* AuditChain implements AuditLog: for any number of writers, removals, seals
   and losses, each transaction's rows come behind the last row at once, no id
   is used again, a trim cuts off what is behind an attested row and nothing
   else, an erasure rows of its actor, and a gap that leaves a row pointing
   nowhere is attested, until a row goes without record (schema.sql,
   audit_append; store.ts, trimAuditChain, eraseActorFromAuditChain,
   sealAuditChain).                                                         *)
THEOREM LogIsImplemented == Spec => ImplementsLog
<1> DEFINE I == TypeOK /\ Ordered /\ TrimBound /\ Recorded /\ Fresh /\ Reach
<1>1. Init => I
  <2>1. Init => Fresh
    BY DEF Init, Fresh, OnRecord, Older, Attesting, Trims, Seals
  <2>2. Init => Reach
    BY IdleIsNoRemoval DEF Init, Reach
  <2> QED
    BY <2>1, <2>2, TypeInit, OrderInit, TrimInit, RecordedInit
<1>2. I /\ [Next]_vars => I'
  <2>1. I /\ [Next]_vars => TypeOK' /\ Ordered'
    BY TypeStep, OrderStep DEF Ordered
  <2> QED
    BY <2>1, TrimStep, RecordedStep, FreshStep, ReachStep
<1>3. Init => Log!LInit
  BY DEF Init, Log!LInit, Trims, Seals, Damaged
<1>4. I /\ I' /\ [Next]_vars => [Log!LNext]_Log!lvars
  BY LogStep
<1> HIDE DEF I
<1> QED
  BY <1>1, <1>2, <1>3, <1>4, PTL DEF Spec, ImplementsLog, Log!Spec
=============================================================================
