--------------------------- MODULE Sharing_proofs ---------------------------
(***************************************************************************)
(* Proofs about Sharing: the tables keep their shape, a delegated grant    *)
(* never exceeds what it hangs from, the budget of a tree is shared, chains *)
(* are bounded, a revocation is final and a share that is submitted again  *)
(* does not multiply -- for any number of actors, organisations, requests  *)
(* in flight, grants and deliveries.                                       *)
(***************************************************************************)
EXTENDS Sharing, FiniteSetTheorems, SequenceTheorems, WellFoundedInduction, TLAPS

-----------------------------------------------------------------------------
(* Delegation chains, for any table of grants. *)

(* Every parent is a row of the same table. *)
Rooted(table) ==
  \A g \in DOMAIN table : table[g].parent # None => table[g].parent \in DOMAIN table

(* A chain is made of rows, starts at its grant, goes on to every parent ... *)
LEMMA AncestryClosed ==
  ASSUME NEW table, Rooted(table), NEW g \in DOMAIN table
  PROVE  /\ Ancestry(table, g) \subseteq DOMAIN table
         /\ g \in Ancestry(table, g)
         /\ ParentClosed(table, Ancestry(table, g))
BY DEF Ancestry, ParentClosed, Rooted

(* ... and is the least such set. *)
LEMMA AncestryLeast ==
  ASSUME NEW table, NEW g, NEW S \in SUBSET DOMAIN table, g \in S, ParentClosed(table, S)
  PROVE  Ancestry(table, g) \subseteq S
BY DEF Ancestry

(* One step of the walk. *)
LEMMA AncestryStep ==
  ASSUME NEW table, Rooted(table), NEW g \in DOMAIN table
  PROVE  /\ table[g].parent = None => Ancestry(table, g) = {g}
         /\ table[g].parent # None =>
              Ancestry(table, g) = {g} \cup Ancestry(table, table[g].parent)
<1>0. g \in Ancestry(table, g) /\ ParentClosed(table, Ancestry(table, g))
      /\ Ancestry(table, g) \subseteq DOMAIN table
  BY AncestryClosed
<1>1. CASE table[g].parent = None
  <2>1. ParentClosed(table, {g})
    BY <1>1 DEF ParentClosed
  <2> QED BY <1>0, <1>1, <2>1, AncestryLeast
<1>2. CASE table[g].parent # None
  <2> DEFINE p == table[g].parent
             A == Ancestry(table, p)
  <2>1. p \in DOMAIN table
    BY <1>2 DEF Rooted
  <2>2. A \subseteq DOMAIN table /\ p \in A /\ ParentClosed(table, A)
    BY <2>1, AncestryClosed
  <2>3. ParentClosed(table, {g} \cup A)
    BY <2>2 DEF ParentClosed
  <2>4. Ancestry(table, g) \subseteq {g} \cup A
    BY <2>2, <2>3, AncestryLeast
  <2>5. p \in Ancestry(table, g)
    BY <1>0, <1>2 DEF ParentClosed
  <2>6. A \subseteq Ancestry(table, g)
    BY <1>0, <2>5, AncestryLeast
  <2> QED BY <1>0, <1>2, <2>4, <2>6
<1> QED BY <1>1, <1>2

(* Chains depend on the parents only, and new rows do not change old chains. *)
LEMMA AncestryKept ==
  ASSUME NEW r1, NEW r2, Rooted(r1), DOMAIN r1 \subseteq DOMAIN r2,
         \A h \in DOMAIN r1 : r2[h].parent = r1[h].parent,
         NEW g \in DOMAIN r1
  PROVE  Ancestry(r2, g) = Ancestry(r1, g)
<1>1. ParentClosed(r2, DOMAIN r1)
  BY DEF ParentClosed, Rooted
<1>2. Ancestry(r2, g) \subseteq DOMAIN r1
  BY <1>1, AncestryLeast
<1>3. \A S \in SUBSET DOMAIN r1 : ParentClosed(r1, S) => ParentClosed(r2, S)
  BY DEF ParentClosed
<1>4. Ancestry(r2, g) \subseteq Ancestry(r1, g)
  BY <1>2, <1>3 DEF Ancestry
<1>5. \A S \in SUBSET DOMAIN r2 : ParentClosed(r2, S) => ParentClosed(r1, S \cap DOMAIN r1)
  BY DEF ParentClosed, Rooted
<1>6. Ancestry(r1, g) \subseteq Ancestry(r2, g)
  <2> SUFFICES ASSUME NEW h \in Ancestry(r1, g), NEW S \in SUBSET DOMAIN r2,
                      g \in S, ParentClosed(r2, S)
               PROVE  h \in S
    BY DEF Ancestry
  <2>1. S \cap DOMAIN r1 \in SUBSET DOMAIN r1 /\ ParentClosed(r1, S \cap DOMAIN r1)
    BY <1>5
  <2> QED BY <2>1 DEF Ancestry
<1> QED BY <1>4, <1>6

(* Within is an order: a bound of a bound is a bound. *)
LEMMA WithinTransitive ==
  ASSUME NEW x \in Int \cup {None}, NEW y \in Int \cup {None}, NEW z \in Int \cup {None},
         Within(x, y), Within(y, z)
  PROVE  Within(x, z)
BY NoneIsNoNumber DEF Within

LEMMA ClampIsWithin ==
  ASSUME NEW x \in Int \cup {None}, NEW y \in Int \cup {None}
  PROVE  /\ Within(Clamp(x, y), y)
         /\ Within(Clamp(x, y), x)
         /\ Clamp(x, y) \in {x, y}
BY NoneIsNoNumber DEF Within, Clamp

(* What consume_download and revoke leave alone. *)
LEMMA ConsumeKeeps ==
  ASSUME NEW table, NEW g
  PROVE  /\ DOMAIN Consume(table, g) = DOMAIN table
         /\ \A h \in DOMAIN table :
              Consume(table, g)[h] = IF h \in Ancestry(table, g)
                                     THEN [table[h] EXCEPT !.count = table[h].count + 1]
                                     ELSE table[h]
BY DEF Consume

LEMMA RevokeKeeps ==
  ASSUME NEW table, NEW S
  PROVE  /\ DOMAIN Revoke(table, S) = DOMAIN table
         /\ \A h \in DOMAIN table :
              Revoke(table, S)[h] = IF h \in S THEN [table[h] EXCEPT !.revoked = TRUE] ELSE table[h]
BY DEF Revoke

-----------------------------------------------------------------------------
(* Shares, reads and revocations. *)

Keys == {rows[g].key : g \in DOMAIN rows}

(* A decision goes through the role or through a grant of the table. *)
LEMMA ViaIsAGrant ==
  ASSUME NEW w, NEW p, NEW c
  PROVE  Authorize(w, p, c) \subseteq {None} \cup DOMAIN w.rows
<1>1. \A i \in 1..4 : Rungs(w, p)[i] \subseteq DOMAIN w.rows
  BY DEF Rungs, LiveGrants
<1>2. Paths(w, p, c) \subseteq {None} \cup DOMAIN w.rows
  BY <1>1 DEF Paths, Range
<1> QED BY <1>2 DEF Authorize

(* What TypeOK says of the table, in the form the provers use. *)
LEMMA Table ==
  ASSUME TypeOK
  PROVE  /\ Len(rows) \in Nat /\ DOMAIN rows = 1..Len(rows)
         /\ rows \in [1..Len(rows) -> Row(Keys)]
         /\ \A g \in DOMAIN rows : rows[g] \in Row(Keys)
         /\ Len(deliveries) \in Nat /\ DOMAIN deliveries = 1..Len(deliveries)
         /\ \A i \in DOMAIN deliveries : deliveries[i] \in DOMAIN rows
         /\ Rooted(rows)
<1>1. rows \in Seq(Row(Keys)) /\ deliveries \in Seq(DOMAIN rows)
  BY DEF TypeOK, Keys
<1>2. Len(rows) \in Nat /\ DOMAIN rows = 1..Len(rows) /\ rows \in [1..Len(rows) -> Row(Keys)]
  BY <1>1, LenProperties
<1>3. /\ Len(deliveries) \in Nat /\ DOMAIN deliveries = 1..Len(deliveries)
      /\ deliveries \in [1..Len(deliveries) -> DOMAIN rows]
  BY <1>1, LenProperties
<1>4. Rooted(rows)
  BY <1>2 DEF TypeOK, Rooted
<1> QED BY <1>2, <1>3, <1>4

(* The row a share offers, and what the trigger makes of it. *)
LEMMA OfferedRow ==
  ASSUME TypeOK, NEW s \in Sessions, session[s].op = "share"
  PROVE  /\ Offered(s) \in Row({Offered(s).key})
         /\ Offered(s).parent = session[s].via
         /\ Offered(s).parent \in DOMAIN rows \cup {None}
         /\ ~Offered(s).revoked /\ Offered(s).count = 0
         /\ Offered(s).key # None /\ Offered(s).key.name = None
              => Offered(s).key.shape \in Shares
<1>1. session[s] \in [op : {"share"}, start : 0..clock, via : DOMAIN rows \cup {None},
                      by : Actors, in : Shares]
  BY DEF TypeOK, Request, Idle
<1>2. session[s].in \in Shares /\ session[s].by \in Actors
      /\ session[s].via \in DOMAIN rows \cup {None}
  BY <1>1
<1>3. session[s].via \in Nat \cup {None} /\ clock \in Nat
  BY <1>2, Table DEF TypeOK
<1>4. /\ session[s].in.caps \subseteq Capability
      /\ session[s].in.ttl \in Nat \cup {None}
      /\ session[s].in.max \in (Nat \ {0}) \cup {None}
  BY <1>2, SharingAssumption
<1>5. session[s].in.ttl # None => clock + session[s].in.ttl \in Nat
  BY <1>3, <1>4
<1> DEFINE k == StoredKey(session[s].in, session[s].start)
<1>6. k # None /\ k.name = None => k.shape \in Shares
  BY <1>2 DEF StoredKey, NamedKey, AutoKey
<1> HIDE DEF k
<1>7. Offered(s) = [parent |-> session[s].via, subject |-> session[s].in.subject,
                    caps |-> session[s].in.caps,
                    expires |-> IF session[s].in.ttl = None THEN None
                                ELSE clock + session[s].in.ttl,
                    max |-> session[s].in.max, count |-> 0, revoked |-> FALSE,
                    creator |-> session[s].by, key |-> k]
  BY DEF Offered, k
<1>8. session[s].in.subject \in {in.subject : in \in Shares}
  BY <1>2
<1> QED BY <1>2, <1>3, <1>4, <1>5, <1>6, <1>7, <1>8 DEF Row

LEMMA InsertedRow ==
  ASSUME TypeOK, NEW s \in Sessions, InsertShare(s)
  PROVE  LET n == Len(rows) + 1
             p == session[s].via
         IN  /\ rows' = Append(rows, rows'[n]) /\ Len(rows') = n
             /\ DOMAIN rows' = DOMAIN rows \cup {n} /\ n \notin DOMAIN rows
             /\ \A g \in DOMAIN rows : rows'[g] = rows[g]
             /\ rows'[n] \in Row({Offered(s).key}) /\ rows'[n].key = Offered(s).key
             /\ rows'[n].parent = p /\ p \in DOMAIN rows \cup {None}
             /\ ~rows'[n].revoked /\ rows'[n].count = 0
             /\ p # None =>
                  /\ GrantLive(rows, p, dead, session[s].start)
                  /\ Cardinality(Ancestry(rows, p)) < MaxDepth
                  /\ rows'[n].subject.type \in {"actor", "link"}
                  /\ rows'[n].caps \subseteq rows[p].caps
                  /\ Within(rows'[n].expires, rows[p].expires)
                  /\ rows[p].max # None =>
                       Within(rows'[n].max, rows[p].max - rows[p].count)
<1> DEFINE new == Attenuate(rows, Offered(s))
           n == Len(rows) + 1
           p == session[s].via
           o == Offered(s)
<1>1. session[s].op = "share" /\ rows' = Append(rows, new) /\ ~Refused(s)
  BY DEF InsertShare, Settling, Admitted
<1>2. /\ o \in Row({o.key}) /\ o.parent = p /\ p \in DOMAIN rows \cup {None}
      /\ ~o.revoked /\ o.count = 0
  BY <1>1, OfferedRow
<1>3. /\ Len(rows) \in Nat /\ DOMAIN rows = 1..Len(rows)
      /\ \A g \in DOMAIN rows : rows[g] \in Row(Keys)
      /\ Rooted(rows)
  BY Table
<1> HIDE DEF o
<1>4. CASE p = None
  <2>1. new = o
    BY <1>2, <1>4 DEF Attenuate, o
  <2>2. /\ new \in Row({o.key}) /\ new.key = o.key /\ new.parent = p
        /\ ~new.revoked /\ new.count = 0
    BY <1>2, <2>1 DEF Row
  <2> HIDE DEF new
  <2>3. rows \in Seq(Row(Keys) \cup Row({o.key})) /\ new \in Row(Keys) \cup Row({o.key})
    BY <2>2 DEF TypeOK, Keys
  <2>4. Len(rows') = n /\ (\A g \in DOMAIN rows : rows'[g] = rows[g]) /\ rows'[n] = new
    BY <1>1, <1>3, <2>3, AppendProperties
  <2>5. DOMAIN rows' = DOMAIN rows \cup {n} /\ n \notin DOMAIN rows
    BY <1>1, <1>3, <2>3, <2>4, AppendProperties, LenProperties
  <2> QED BY <1>1, <1>2, <1>4, <2>2, <2>4, <2>5 DEF o
<1>5. CASE p # None
  <2>1. /\ p \in DOMAIN rows
        /\ GrantLive(rows, p, dead, session[s].start)
        /\ o.subject.type \in {"actor", "link"}
        /\ ~(Cardinality(Ancestry(rows, p)) >= MaxDepth)
        /\ o.caps \subseteq rows[p].caps
    BY <1>1, <1>2, <1>5 DEF Refused, AttenuationRefused, o
  <2> DEFINE left == IF rows[p].max = None THEN None ELSE rows[p].max - rows[p].count
             e == Clamp(o.expires, rows[p].expires)
             m == Clamp(o.max, left)
  <2>2. new = [o EXCEPT !.expires = e, !.max = m]
    BY <1>2, <1>5 DEF Attenuate, o
  <2>3. /\ o.expires \in Nat \cup {None} /\ o.max \in (Nat \ {0}) \cup {None}
        /\ rows[p].expires \in Nat \cup {None}
        /\ rows[p].max \in (Nat \ {0}) \cup {None} /\ rows[p].count \in Nat
    BY <1>2, <1>3, <2>1 DEF Row
  <2>4. rows[p].max # None => rows[p].count < rows[p].max
    <3>1. p \in Ancestry(rows, p)
      BY <1>3, <2>1, AncestryClosed
    <3> QED BY <2>1, <3>1 DEF GrantLive, SelfLive
  <2>5. left \in (Nat \ {0}) \cup {None}
    BY <2>3, <2>4
  <2> HIDE DEF left
  <2>6. e \in {o.expires, rows[p].expires} /\ Within(e, rows[p].expires)
    <3>1. o.expires \in Int \cup {None} /\ rows[p].expires \in Int \cup {None}
      BY <2>3
    <3> QED BY <3>1, ClampIsWithin
  <2>7. m \in {o.max, left} /\ Within(m, left)
    <3>1. o.max \in Int \cup {None} /\ left \in Int \cup {None}
      BY <2>3, <2>5
    <3> QED BY <3>1, ClampIsWithin
  <2>8. e \in Nat \cup {None} /\ m \in (Nat \ {0}) \cup {None}
    BY <2>3, <2>5, <2>6, <2>7
  <2>9. rows[p].max # None => Within(m, rows[p].max - rows[p].count)
    BY <2>7 DEF left
  <2> HIDE DEF e, m
  <2>10. /\ new \in Row({o.key}) /\ new.key = o.key /\ new.parent = p
         /\ ~new.revoked /\ new.count = 0
         /\ new.subject = o.subject /\ new.caps = o.caps
         /\ new.expires = e /\ new.max = m
    BY <1>2, <2>2, <2>8 DEF Row
  <2> HIDE DEF new
  <2>11. rows \in Seq(Row(Keys) \cup Row({o.key})) /\ new \in Row(Keys) \cup Row({o.key})
    BY <2>10 DEF TypeOK, Keys
  <2>12. Len(rows') = n /\ (\A g \in DOMAIN rows : rows'[g] = rows[g]) /\ rows'[n] = new
    BY <1>1, <1>3, <2>11, AppendProperties
  <2>13. DOMAIN rows' = DOMAIN rows \cup {n} /\ n \notin DOMAIN rows
    BY <1>1, <1>3, <2>11, <2>12, AppendProperties, LenProperties
  <2>14. Cardinality(Ancestry(rows, p)) \in Nat
    <3>1. Ancestry(rows, p) \subseteq 1..Len(rows)
      BY <1>3, <2>1, AncestryClosed
    <3>2. IsFiniteSet(1..Len(rows))
      BY <1>3, FS_Interval
    <3> QED BY <3>1, <3>2, FS_Subset, FS_CardinalityType
  <2>15. Cardinality(Ancestry(rows, p)) < MaxDepth
    BY <2>1, <2>14, MaxDepthIsNat
  <2> QED BY <1>1, <1>2, <1>5, <2>1, <2>6, <2>9, <2>10, <2>12, <2>13, <2>15 DEF o
<1> QED BY <1>4, <1>5

(* A step that keeps the rows and changes only counters and marks. *)
LEMMA UpdatedRows ==
  ASSUME TypeOK, DOMAIN rows' = DOMAIN rows,
         rows' = [h \in DOMAIN rows |-> rows'[h]],
         \A h \in DOMAIN rows :
           /\ rows'[h] \in Row(Keys)
           /\ rows'[h].key = rows[h].key /\ rows'[h].parent = rows[h].parent
  PROVE  /\ rows' \in Seq(Row({rows'[g].key : g \in DOMAIN rows'}))
         /\ \A g \in DOMAIN rows' :
              /\ rows'[g].parent # None => rows'[g].parent \in 1..(g-1)
              /\ rows'[g].key # None /\ rows'[g].key.name = None
                   => rows'[g].key.shape \in Shares
<1>1. Len(rows) \in Nat /\ DOMAIN rows = 1..Len(rows)
  BY Table
<1>2. {rows'[g].key : g \in DOMAIN rows'} = Keys
  <2>1. \A g \in DOMAIN rows : rows'[g].key = rows[g].key
    OBVIOUS
  <2>2. {rows'[g].key : g \in DOMAIN rows'} = {rows'[g].key : g \in DOMAIN rows}
    OBVIOUS
  <2>3. ASSUME NEW k PROVE k \in {rows'[g].key : g \in DOMAIN rows} <=> k \in Keys
    <3>1. ASSUME NEW g \in DOMAIN rows, k = rows'[g].key PROVE k \in Keys
      BY <2>1, <3>1 DEF Keys
    <3>2. ASSUME NEW g \in DOMAIN rows, k = rows[g].key
          PROVE  k \in {rows'[h].key : h \in DOMAIN rows}
      BY <2>1, <3>2
    <3> QED BY <3>1, <3>2 DEF Keys
  <2> QED BY <2>2, <2>3
<1>3. rows' \in [1..Len(rows) -> Row(Keys)]
  BY <1>1
<1>4. rows' \in Seq(Row(Keys))
  BY <1>1, <1>3
<1>5. \A g \in DOMAIN rows :
        /\ rows[g].parent # None => rows[g].parent \in 1..(g-1)
        /\ rows[g].key # None /\ rows[g].key.name = None => rows[g].key.shape \in Shares
  BY DEF TypeOK
<1> QED BY <1>2, <1>4, <1>5

LEMMA ConsumedRows ==
  ASSUME TypeOK, NEW g \in DOMAIN rows
  PROVE  /\ DOMAIN Consume(rows, g) = DOMAIN rows
         /\ \A h \in DOMAIN rows :
              /\ Consume(rows, g)[h] \in Row(Keys)
              /\ \A f \in {"parent", "subject", "caps", "expires", "max", "revoked",
                           "creator", "key"} : Consume(rows, g)[h][f] = rows[h][f]
              /\ Consume(rows, g)[h].count =
                   IF h \in Ancestry(rows, g) THEN rows[h].count + 1 ELSE rows[h].count
<1>1. \A h \in DOMAIN rows : rows[h] \in Row(Keys)
  BY Table
<1>2. ASSUME NEW h \in DOMAIN rows
      PROVE  /\ Consume(rows, g)[h] \in Row(Keys)
             /\ \A f \in {"parent", "subject", "caps", "expires", "max", "revoked",
                          "creator", "key"} : Consume(rows, g)[h][f] = rows[h][f]
             /\ Consume(rows, g)[h].count =
                  IF h \in Ancestry(rows, g) THEN rows[h].count + 1 ELSE rows[h].count
  <2>1. rows[h] \in Row(Keys)
    BY <1>1
  <2>2. Consume(rows, g)[h] = IF h \in Ancestry(rows, g)
                              THEN [rows[h] EXCEPT !.count = rows[h].count + 1]
                              ELSE rows[h]
    BY ConsumeKeeps
  <2> QED BY <2>1, <2>2 DEF Row
<1> QED BY <1>2, ConsumeKeeps

LEMMA RevokedRows ==
  ASSUME TypeOK, NEW S
  PROVE  /\ DOMAIN Revoke(rows, S) = DOMAIN rows
         /\ \A h \in DOMAIN rows :
              /\ Revoke(rows, S)[h] \in Row(Keys)
              /\ \A f \in {"parent", "subject", "caps", "expires", "max", "count",
                           "creator", "key"} : Revoke(rows, S)[h][f] = rows[h][f]
              /\ Revoke(rows, S)[h].revoked <=> (rows[h].revoked \/ h \in S)
<1>1. \A h \in DOMAIN rows : rows[h] \in Row(Keys)
  BY Table
<1>2. ASSUME NEW h \in DOMAIN rows
      PROVE  /\ Revoke(rows, S)[h] \in Row(Keys)
             /\ \A f \in {"parent", "subject", "caps", "expires", "max", "count",
                          "creator", "key"} : Revoke(rows, S)[h][f] = rows[h][f]
             /\ Revoke(rows, S)[h].revoked <=> (rows[h].revoked \/ h \in S)
  <2>1. rows[h] \in Row(Keys)
    BY <1>1
  <2>2. Revoke(rows, S)[h] = IF h \in S THEN [rows[h] EXCEPT !.revoked = TRUE] ELSE rows[h]
    BY RevokeKeeps
  <2>3. CASE h \in S
    BY <2>1, <2>2, <2>3 DEF Row
  <2>4. CASE h \notin S
    BY <2>1, <2>2, <2>4 DEF Row
  <2> QED BY <2>3, <2>4
<1> QED BY <1>2, RevokeKeeps

-----------------------------------------------------------------------------
(* Requests stay requests when the table grows and time passes. *)
LEMMA RequestsStay ==
  ASSUME TypeOK, clock' \in Nat, clock <= clock', DOMAIN rows \subseteq DOMAIN rows'
  PROVE  Request \subseteq Request'
<1>1. 0..clock \subseteq 0..clock'
  BY DEF TypeOK
<1>2. /\ DOMAIN rows \cup {None} \subseteq DOMAIN rows' \cup {None}
      /\ SUBSET DOMAIN rows \subseteq SUBSET DOMAIN rows'
  OBVIOUS
<1>3. [op : {"read"}, start : 0..clock, via : DOMAIN rows]
        \subseteq [op : {"read"}, start : 0..clock', via : DOMAIN rows']
  BY <1>1
<1>4. [op : {"share"}, start : 0..clock, via : DOMAIN rows \cup {None},
       by : Actors, in : Shares]
        \subseteq [op : {"share"}, start : 0..clock', via : DOMAIN rows' \cup {None},
                   by : Actors, in : Shares]
  BY <1>1, <1>2
<1>5. [op : {"revoke"}, by : Actors, target : DOMAIN rows]
        \subseteq [op : {"revoke"}, by : Actors, target : DOMAIN rows']
  OBVIOUS
<1>6. [op : {"unshare"}, by : Actors, matches : SUBSET DOMAIN rows]
        \subseteq [op : {"unshare"}, by : Actors, matches : SUBSET DOMAIN rows']
  BY <1>2
<1> QED BY <1>3, <1>4, <1>5, <1>6 DEF Request

LEMMA SessionsStay ==
  ASSUME TypeOK, clock' \in Nat, clock <= clock', DOMAIN rows \subseteq DOMAIN rows',
         NEW s \in Sessions, NEW r \in Request',
         session' = session \/ session' = [session EXCEPT ![s] = r]
  PROVE  session' \in [Sessions -> Request']
<1>1. Request \subseteq Request'
  BY RequestsStay
<1>2. session \in [Sessions -> Request]
  BY DEF TypeOK
<1> HIDE DEF Request
<1> QED BY <1>1, <1>2

LEMMA TypeCorrectInit == Init => TypeOK
<1> SUFFICES ASSUME Init PROVE TypeOK
  OBVIOUS
<1>1. rows = <<>> /\ deliveries = <<>> /\ dead = {} /\ role = InitRole /\ clock = 0
      /\ session = [s \in Sessions |-> Idle]
  BY DEF Init
<1>2. rows \in Seq(Row({rows[g].key : g \in DOMAIN rows})) /\ DOMAIN rows = {}
  BY <1>1, EmptySeq
<1>3. deliveries \in Seq(DOMAIN rows)
  BY <1>1, EmptySeq
<1>4. session \in [Sessions -> Request]
  BY <1>1 DEF Request
<1> QED BY <1>1, <1>2, <1>3, <1>4, SharingAssumption DEF TypeOK

(* A step of one session that leaves the tables alone. *)
LEMMA QuietStep ==
  ASSUME TypeOK, NEW s \in Sessions, NEW r \in Request,
         UNCHANGED <<rows, dead, role, clock, deliveries>>,
         session' = [session EXCEPT ![s] = r]
  PROVE  TypeOK'
<1>1. Request' = Request
  BY DEF Request, Idle
<1>2. session' \in [Sessions -> Request']
  <2>1. session \in [Sessions -> Request]
    BY DEF TypeOK
  <2> HIDE DEF Request
  <2> QED BY <1>1, <2>1
<1> QED BY <1>2 DEF TypeOK

(* What a settling session leaves behind. *)
LEMMA ClosedSession ==
  ASSUME TypeOK, NEW s \in Sessions, Close(s),
         UNCHANGED clock, DOMAIN rows \subseteq DOMAIN rows'
  PROVE  session' \in [Sessions -> Request']
<1>1. Idle \in Request'
  BY DEF Request
<1>2. clock' \in Nat /\ clock <= clock'
  BY DEF TypeOK
<1> QED BY <1>1, <1>2, SessionsStay DEF Close

LEMMA BeginKeepsTypes ==
  ASSUME TypeOK, NEW s \in Sessions, Begin(s)
  PROVE  TypeOK'
<1>0. clock \in 0..clock
  BY DEF TypeOK
<1>w. World(clock).rows = rows
  BY DEF World
<1>1. ASSUME NEW p \in Principals, BeginRead(s, p) PROVE TypeOK'
  <2>1. PICK via \in Authorize(World(clock), p, "read") \ {None} :
          Open(s, [op |-> "read", start |-> clock, via |-> via])
    BY <1>1 DEF BeginRead
  <2>2. via \in DOMAIN rows
    BY <1>w, <2>1, ViaIsAGrant
  <2>3. [op |-> "read", start |-> clock, via |-> via] \in Request
    BY <1>0, <2>2 DEF Request
  <2> QED BY <2>1, <2>3, QuietStep DEF Open
<1>2. ASSUME NEW a \in Actors, NEW in \in Shares, BeginShare(s, a, in) PROVE TypeOK'
  <2>1. PICK via \in AuthorizeShare(World(clock), Actor(a), in.subject, in.caps) :
          Open(s, [op |-> "share", start |-> clock, via |-> via, by |-> a, in |-> in])
    BY <1>2 DEF BeginShare
  <2>2. via \in DOMAIN rows \cup {None}
    BY <1>w, <2>1, ViaIsAGrant DEF AuthorizeShare
  <2>3. [op |-> "share", start |-> clock, via |-> via, by |-> a, in |-> in] \in Request
    BY <1>0, <2>2 DEF Request
  <2> QED BY <2>1, <2>3, QuietStep DEF Open
<1>3. ASSUME NEW a \in Actors, NEW g \in DOMAIN rows, BeginRevoke(s, a, g) PROVE TypeOK'
  <2>1. [op |-> "revoke", by |-> a, target |-> g] \in Request
    BY DEF Request
  <2> QED BY <1>3, <2>1, QuietStep DEF BeginRevoke, Open
<1>4. ASSUME NEW a \in Actors, NEW subject \in Unshared, BeginUnshare(s, a, subject)
      PROVE  TypeOK'
  <2> DEFINE m == {g \in LiveGrants(World(clock)) : rows[g].subject = subject}
  <2>1. m \in SUBSET DOMAIN rows
    BY <1>w DEF LiveGrants
  <2>2. Open(s, [op |-> "unshare", by |-> a, matches |-> m])
    BY <1>4 DEF BeginUnshare
  <2> HIDE DEF m
  <2>3. [op |-> "unshare", by |-> a, matches |-> m] \in Request
    BY <2>1 DEF Request
  <2> QED BY <2>2, <2>3, QuietStep DEF Open
<1> QED BY <1>1, <1>2, <1>3, <1>4 DEF Begin

LEMMA SettleKeepsTypes ==
  ASSUME TypeOK, NEW s \in Sessions, Settle(s)
  PROVE  TypeOK'
<1>0. Idle \in Request
  BY DEF Request
<1>1. CASE Reserve(s)
  <2> DEFINE g == session[s].via
  <2>1. session[s].op = "read" /\ rows' = Consume(rows, g)
        /\ deliveries' = Append(deliveries, g) /\ Close(s) /\ UNCHANGED <<dead, role, clock>>
    BY <1>1 DEF Reserve
  <2>2. g \in DOMAIN rows
    BY <2>1 DEF TypeOK, Request, Idle
  <2>3. /\ DOMAIN rows' = DOMAIN rows
        /\ \A h \in DOMAIN rows :
             /\ rows'[h] \in Row(Keys)
             /\ rows'[h].key = rows[h].key /\ rows'[h].parent = rows[h].parent
    <3> HIDE DEF g
    <3> QED BY <2>1, <2>2, ConsumedRows
  <2>4. rows' = [h \in DOMAIN rows |-> rows'[h]]
    BY <2>1 DEF Consume
  <2>5. deliveries' \in Seq(DOMAIN rows')
    BY <2>1, <2>2, <2>3, AppendProperties DEF TypeOK
  <2>6. session' \in [Sessions -> Request']
    BY <2>1, <2>3, ClosedSession
  <2> QED BY <2>1, <2>3, <2>4, <2>5, <2>6, UpdatedRows DEF TypeOK
<1>2. CASE InsertShare(s)
  <2> DEFINE n == Len(rows) + 1
             K == Keys \cup {Offered(s).key}
  <2>0. session[s].op = "share" /\ Close(s) /\ UNCHANGED <<dead, role, clock, deliveries>>
    BY <1>2 DEF InsertShare, Settling
  <2>1. /\ rows' = Append(rows, rows'[n]) /\ Len(rows') = n
        /\ DOMAIN rows' = DOMAIN rows \cup {n} /\ n \notin DOMAIN rows
        /\ \A g \in DOMAIN rows : rows'[g] = rows[g]
        /\ rows'[n] \in Row({Offered(s).key}) /\ rows'[n].key = Offered(s).key
        /\ rows'[n].parent \in DOMAIN rows \cup {None}
    BY <1>2, InsertedRow
  <2>2. /\ Len(rows) \in Nat /\ DOMAIN rows = 1..Len(rows) /\ rows \in Seq(Row(Keys))
    BY Table DEF TypeOK, Keys
  <2>3. {rows'[g].key : g \in DOMAIN rows'} = K
    <3>1. ASSUME NEW k \in {rows'[g].key : g \in DOMAIN rows'} PROVE k \in K
      BY <2>1 DEF Keys
    <3>2. ASSUME NEW k \in K PROVE k \in {rows'[g].key : g \in DOMAIN rows'}
      BY <2>1 DEF Keys
    <3> QED BY <3>1, <3>2
  <2> HIDE DEF n
  <2>4. Row(Keys) \subseteq Row(K) /\ Row({Offered(s).key}) \subseteq Row(K)
    BY DEF Row
  <2>5. rows' \in Seq(Row(K))
    <3>1. rows \in Seq(Row(K)) /\ rows'[n] \in Row(K)
      <4> HIDE DEF K
      <4> QED BY <2>1, <2>2, <2>4, SeqMonotonic
    <3> HIDE DEF K
    <3> QED BY <2>1, <3>1, AppendProperties
  <2>6. ASSUME NEW g \in DOMAIN rows'
        PROVE  /\ rows'[g].parent # None => rows'[g].parent \in 1..(g-1)
               /\ rows'[g].key # None /\ rows'[g].key.name = None
                    => rows'[g].key.shape \in Shares
    <3>1. CASE g \in DOMAIN rows
      BY <2>1, <3>1 DEF TypeOK
    <3>2. CASE g = n
      <4>1. Offered(s).key # None /\ Offered(s).key.name = None
              => Offered(s).key.shape \in Shares
        BY <2>0, OfferedRow
      <4> QED BY <2>1, <2>2, <3>2, <4>1 DEF n
    <3> QED BY <2>1, <3>1, <3>2
  <2>7. deliveries' \in Seq(DOMAIN rows')
    <3>1. deliveries \in Seq(DOMAIN rows) /\ DOMAIN rows \subseteq DOMAIN rows'
      BY <2>1 DEF TypeOK
    <3> QED BY <2>0, <3>1, SeqMonotonic
  <2>8. session' \in [Sessions -> Request']
    BY <2>0, <2>1, ClosedSession
  <2> QED BY <2>0, <2>3, <2>5, <2>6, <2>7, <2>8 DEF TypeOK
<1>3. ASSUME NEW S, rows' = Revoke(rows, S), Close(s),
             UNCHANGED <<dead, role, clock, deliveries>>
      PROVE  TypeOK'
  <2>1. /\ DOMAIN rows' = DOMAIN rows
        /\ \A h \in DOMAIN rows :
             /\ rows'[h] \in Row(Keys)
             /\ rows'[h].key = rows[h].key /\ rows'[h].parent = rows[h].parent
    BY <1>3, RevokedRows
  <2>2. rows' = [h \in DOMAIN rows |-> rows'[h]]
    BY <1>3 DEF Revoke
  <2>3. session' \in [Sessions -> Request']
    BY <1>3, <2>1, ClosedSession
  <2> QED BY <1>3, <2>1, <2>2, <2>3, UpdatedRows DEF TypeOK
<1>4. CASE SettleRevoke(s)
  BY <1>3, <1>4 DEF SettleRevoke, Settling
<1>5. CASE SettleUnshare(s)
  BY <1>3, <1>5 DEF SettleUnshare, Settling
<1>6. CASE RefuseRead(s) \/ AnswerPrevious(s) \/ RefuseShare(s) \/ ReplayShare(s)
  BY <1>0, <1>6, QuietStep
     DEF RefuseRead, AnswerPrevious, RefuseShare, ReplayShare, Settling, Close
<1> QED BY <1>1, <1>2, <1>4, <1>5, <1>6 DEF Settle

LEMMA SurroundingsKeepTypes ==
  ASSUME TypeOK, UNCHANGED <<rows, session, deliveries>>,
         dead' \subseteq Suspendable \cup {File},
         role' \in [Orgs -> [Actors -> OrgRole \cup {None}]],
         clock' \in Nat, clock <= clock'
  PROVE  TypeOK'
<1>1. Request \subseteq Request'
  BY RequestsStay
<1>2. session' \in [Sessions -> Request']
  <2>1. session \in [Sessions -> Request]
    BY DEF TypeOK
  <2> HIDE DEF Request
  <2> QED BY <1>1, <2>1
<1> QED BY <1>2 DEF TypeOK

LEMMA TypeCorrectStep == TypeOK /\ [Next]_vars => TypeOK'
<1> SUFFICES ASSUME TypeOK, [Next]_vars PROVE TypeOK'
  OBVIOUS
<1>0. /\ dead \subseteq Suspendable \cup {File} /\ clock \in Nat
      /\ role \in [Orgs -> [Actors -> OrgRole \cup {None}]]
  BY DEF TypeOK
<1>1. ASSUME NEW s \in Sessions, Begin(s) PROVE TypeOK'
  BY <1>1, BeginKeepsTypes
<1>2. ASSUME NEW s \in Sessions, Settle(s) PROVE TypeOK'
  BY <1>2, SettleKeepsTypes
<1>3. ASSUME NEW a \in Actors, DeleteFile(a) PROVE TypeOK'
  <2>1. dead' = dead \cup {File} /\ UNCHANGED <<rows, session, deliveries, role, clock>>
    BY <1>3 DEF DeleteFile
  <2> QED BY <1>0, <2>1, SurroundingsKeepTypes
<1>4. ASSUME NEW x \in Suspendable, Suspend(x) \/ Restore(x) PROVE TypeOK'
  <2>1. /\ dead' = dead \cup {x} \/ dead' = dead \ {x}
        /\ UNCHANGED <<rows, session, deliveries, role, clock>>
    BY <1>4 DEF Suspend, Restore
  <2> QED BY <1>0, <2>1, SurroundingsKeepTypes
<1>5. ASSUME NEW c \in RoleChanges, ChangeRole(c[1], c[2], c[3]) PROVE TypeOK'
  <2>1. role' = [role EXCEPT ![c[1]][c[2]] = c[3]]
        /\ UNCHANGED <<rows, session, deliveries, dead, clock>>
    BY <1>5 DEF ChangeRole
  <2>2. c[1] \in Orgs /\ c[2] \in Actors /\ c[3] \in OrgRole \cup {None}
    BY SharingAssumption
  <2>3. role' \in [Orgs -> [Actors -> OrgRole \cup {None}]]
    BY <1>0, <2>1, <2>2
  <2> QED BY <1>0, <2>1, <2>3, SurroundingsKeepTypes
<1>6. CASE Tick
  <2>1. clock' = clock + 1 /\ UNCHANGED <<rows, session, deliveries, dead, role>>
    BY <1>6 DEF Tick
  <2> QED BY <1>0, <2>1, SurroundingsKeepTypes
<1>7. CASE UNCHANGED vars
  <2>1. UNCHANGED <<rows, session, deliveries, dead, role, clock>>
    BY <1>7 DEF vars
  <2> QED BY <1>0, <2>1, SurroundingsKeepTypes
<1> QED BY <1>1, <1>2, <1>3, <1>4, <1>5, <1>6, <1>7 DEF Next

(* The tables and the requests in flight keep their shape, whatever the
   numbers of actors, organisations, sessions and grants.                  *)
THEOREM TypeCorrect == Spec => []TypeOK
<1>1. Init => TypeOK
  BY TypeCorrectInit
<1>2. TypeOK /\ [Next]_vars => TypeOK'
  BY TypeCorrectStep
<1> QED BY <1>1, <1>2, PTL DEF Spec

-----------------------------------------------------------------------------
(* Only four things happen to the table and to the deliveries. *)
LEMMA Steps ==
  ASSUME [Next]_vars
  PROVE  \/ UNCHANGED <<rows, deliveries>>
         \/ \E s \in Sessions : Reserve(s)
         \/ \E s \in Sessions : InsertShare(s)
         \/ (\E S : rows' = Revoke(rows, S)) /\ UNCHANGED deliveries
<1>1. ASSUME NEW s \in Sessions, Begin(s) PROVE UNCHANGED <<rows, deliveries>>
  BY <1>1 DEF Begin, BeginRead, BeginShare, BeginRevoke, BeginUnshare, Open
<1>2. ASSUME NEW s \in Sessions, Settle(s)
      PROVE  \/ UNCHANGED <<rows, deliveries>>
             \/ Reserve(s) \/ InsertShare(s)
             \/ (\E S : rows' = Revoke(rows, S)) /\ UNCHANGED deliveries
  <2>1. CASE RefuseRead(s) \/ AnswerPrevious(s) \/ RefuseShare(s) \/ ReplayShare(s)
    BY <2>1 DEF RefuseRead, AnswerPrevious, RefuseShare, ReplayShare
  <2>2. CASE SettleRevoke(s)
    BY <2>2 DEF SettleRevoke
  <2>3. CASE SettleUnshare(s)
    BY <2>3 DEF SettleUnshare
  <2> QED BY <1>2, <2>1, <2>2, <2>3 DEF Settle
<1>3. ASSUME NEW a \in Actors, DeleteFile(a) PROVE UNCHANGED <<rows, deliveries>>
  BY <1>3 DEF DeleteFile
<1>4. ASSUME NEW x \in Suspendable, Suspend(x) \/ Restore(x)
      PROVE  UNCHANGED <<rows, deliveries>>
  BY <1>4 DEF Suspend, Restore
<1>5. ASSUME NEW c \in RoleChanges, ChangeRole(c[1], c[2], c[3])
      PROVE  UNCHANGED <<rows, deliveries>>
  BY <1>5 DEF ChangeRole
<1>6. Tick \/ UNCHANGED vars => UNCHANGED <<rows, deliveries>>
  BY DEF Tick, vars
<1> QED BY <1>1, <1>2, <1>3, <1>4, <1>5, <1>6 DEF Next

(* A read that settles draws on a live grant of the table. *)
LEMMA ReservedRows ==
  ASSUME TypeOK, NEW s \in Sessions, Reserve(s)
  PROVE  LET g == session[s].via
         IN  /\ g \in DOMAIN rows
             /\ GrantLive(rows, g, dead, session[s].start)
             /\ rows' = Consume(rows, g)
             /\ deliveries' = Append(deliveries, g)
<1>1. session[s].via \in DOMAIN rows
  BY DEF Reserve, TypeOK, Request, Idle
<1> QED BY <1>1 DEF Reserve

(* What a step never changes of a grant that is there. *)
LEMMA RowsLast ==
  ASSUME TypeOK, [Next]_vars
  PROVE  /\ DOMAIN rows \subseteq DOMAIN rows'
         /\ \A h \in DOMAIN rows :
              /\ rows'[h].parent = rows[h].parent
              /\ rows'[h].subject = rows[h].subject
              /\ rows'[h].caps = rows[h].caps
              /\ rows'[h].expires = rows[h].expires
              /\ rows'[h].max = rows[h].max
              /\ rows[h].revoked => rows'[h].revoked
<1> DEFINE Goal ==
      /\ DOMAIN rows \subseteq DOMAIN rows'
      /\ \A h \in DOMAIN rows :
           /\ rows'[h].parent = rows[h].parent
           /\ rows'[h].subject = rows[h].subject
           /\ rows'[h].caps = rows[h].caps
           /\ rows'[h].expires = rows[h].expires
           /\ rows'[h].max = rows[h].max
           /\ rows[h].revoked => rows'[h].revoked
<1>1. UNCHANGED <<rows, deliveries>> => Goal
  OBVIOUS
<1>2. ASSUME NEW s \in Sessions, Reserve(s) PROVE Goal
  <2> DEFINE g == session[s].via
  <2>1. g \in DOMAIN rows /\ rows' = Consume(rows, g)
    BY <1>2, ReservedRows
  <2> HIDE DEF g
  <2> QED BY <2>1, ConsumedRows
<1>3. ASSUME NEW s \in Sessions, InsertShare(s) PROVE Goal
  BY <1>3, InsertedRow
<1>4. ASSUME NEW S, rows' = Revoke(rows, S) PROVE Goal
  BY <1>4, RevokedRows
<1> HIDE DEF Goal
<1>5. Goal
  BY <1>1, <1>2, <1>3, <1>4, Steps
<1> QED BY <1>5 DEF Goal

LEMMA RootedAfter ==
  ASSUME TypeOK'
  PROVE  Rooted(rows')
<1>1. rows' \in Seq(Row({rows'[g].key : g \in DOMAIN rows'}))
  BY DEF TypeOK
<1>2. DOMAIN rows' = 1..Len(rows') /\ Len(rows') \in Nat
  BY <1>1, LenProperties
<1>3. \A g \in DOMAIN rows' : rows'[g].parent # None => rows'[g].parent \in 1..(g-1)
  BY DEF TypeOK
<1> QED BY <1>2, <1>3 DEF Rooted

(* Chains of grants that are there stay as they are. *)
LEMMA ChainsLast ==
  ASSUME TypeOK, [Next]_vars, NEW g \in DOMAIN rows
  PROVE  Ancestry(rows', g) = Ancestry(rows, g)
BY RowsLast, Table, AncestryKept

(* Only InsertShare adds a grant, and only one. *)
LEMMA NewRows ==
  ASSUME TypeOK, [Next]_vars, NEW g \in DOMAIN rows' \ DOMAIN rows
  PROVE  \E s \in Sessions : InsertShare(s) /\ g = Len(rows) + 1
<1>1. ASSUME NEW s \in Sessions, Reserve(s) PROVE DOMAIN rows' = DOMAIN rows
  <2> DEFINE v == session[s].via
  <2>1. v \in DOMAIN rows /\ rows' = Consume(rows, v)
    BY <1>1, ReservedRows
  <2> HIDE DEF v
  <2> QED BY <2>1, ConsumedRows
<1>2. ASSUME NEW S, rows' = Revoke(rows, S) PROVE DOMAIN rows' = DOMAIN rows
  BY <1>2, RevokedRows
<1>3. ASSUME NEW s \in Sessions, InsertShare(s) PROVE g = Len(rows) + 1
  <2>1. DOMAIN rows' = DOMAIN rows \cup {Len(rows) + 1}
    BY <1>3, InsertedRow
  <2> QED BY <2>1
<1>4. ~UNCHANGED <<rows, deliveries>>
  OBVIOUS
<1>5. (\A s \in Sessions : ~Reserve(s)) /\ (\A S : rows' # Revoke(rows, S))
  BY <1>1, <1>2
<1> QED BY <1>3, <1>4, <1>5, Steps

-----------------------------------------------------------------------------
(* Attenuation.  What the trigger enforces between a grant and its parent is
   inductive; that it reaches every ancestor follows from the order.       *)
Tightened ==
  \A g \in DOMAIN rows : rows[g].parent # None =>
    LET p == rows[g].parent
    IN  /\ rows[g].caps \subseteq rows[p].caps
        /\ Within(rows[g].expires, rows[p].expires)
        /\ Within(rows[g].max, rows[p].max)
        /\ rows[g].subject.type \in {"actor", "link"}

LEMMA TightenedStep == TypeOK /\ Tightened /\ [Next]_vars => Tightened'
<1> SUFFICES ASSUME TypeOK, Tightened, [Next]_vars, NEW g \in DOMAIN rows',
                    rows'[g].parent # None
             PROVE  LET p == rows'[g].parent
                    IN  /\ rows'[g].caps \subseteq rows'[p].caps
                        /\ Within(rows'[g].expires, rows'[p].expires)
                        /\ Within(rows'[g].max, rows'[p].max)
                        /\ rows'[g].subject.type \in {"actor", "link"}
  BY DEF Tightened
<1>0. \A h \in DOMAIN rows : rows[h] \in Row(Keys)
  BY Table
<1>1. CASE g \in DOMAIN rows
  <2>1. rows[g].parent # None /\ rows[g].parent \in DOMAIN rows
    BY <1>1, RowsLast, Table DEF Rooted
  <2> QED BY <1>1, <2>1, RowsLast DEF Tightened
<1>2. CASE g \notin DOMAIN rows
  <2>1. PICK s \in Sessions : InsertShare(s) /\ g = Len(rows) + 1
    BY <1>2, NewRows
  <2> DEFINE p == session[s].via
  <2>2. /\ \A h \in DOMAIN rows : rows'[h] = rows[h]
        /\ rows'[g] \in Row({Offered(s).key})
        /\ rows'[g].parent = p /\ p \in DOMAIN rows
        /\ rows'[g].subject.type \in {"actor", "link"}
        /\ rows'[g].caps \subseteq rows[p].caps
        /\ Within(rows'[g].expires, rows[p].expires)
        /\ rows[p].max # None => Within(rows'[g].max, rows[p].max - rows[p].count)
    BY <2>1, InsertedRow
  <2> HIDE DEF p
  <2>3. rows[p].max \in Nat \cup {None} /\ rows[p].count \in Nat
    BY <1>0, <2>2 DEF Row
  <2>4. rows'[g].max \in Nat \cup {None}
    BY <2>2 DEF Row
  <2>5. Within(rows'[g].max, rows[p].max)
    BY <2>2, <2>3, <2>4, NoneIsNoNumber DEF Within
  <2> QED BY <2>2, <2>5
<1> QED BY <1>1, <1>2

LEMMA TightenedIsAttenuated == TypeOK /\ Tightened => Attenuated
<1> SUFFICES ASSUME TypeOK, Tightened, NEW g \in DOMAIN rows, NEW h \in Ancestry(rows, g)
             PROVE  /\ rows[g].caps \subseteq rows[h].caps
                    /\ Within(rows[g].expires, rows[h].expires)
                    /\ Within(rows[g].max, rows[h].max)
                    /\ g # h => rows[g].subject.type \in {"actor", "link"}
  BY DEF Attenuated
<1>0. Rooted(rows) /\ \A k \in DOMAIN rows : rows[k] \in Row(Keys)
  BY Table
<1> DEFINE S == {k \in DOMAIN rows : /\ rows[g].caps \subseteq rows[k].caps
                                     /\ Within(rows[g].expires, rows[k].expires)
                                     /\ Within(rows[g].max, rows[k].max)}
<1>1. \A k \in DOMAIN rows : /\ rows[k].expires \in Int \cup {None}
                             /\ rows[k].max \in Int \cup {None}
  BY <1>0 DEF Row
<1>2. g \in S
  BY <1>1 DEF Within
<1>3. ParentClosed(rows, S)
  <2> SUFFICES ASSUME NEW k \in S, rows[k].parent # None
               PROVE  rows[k].parent \in S
    BY DEF ParentClosed
  <2> DEFINE p == rows[k].parent
  <2>1. p \in DOMAIN rows
    BY <1>0 DEF Rooted
  <2>2. /\ rows[k].caps \subseteq rows[p].caps
        /\ Within(rows[k].expires, rows[p].expires)
        /\ Within(rows[k].max, rows[p].max)
    BY DEF Tightened
  <2>3. Within(rows[g].expires, rows[p].expires) /\ Within(rows[g].max, rows[p].max)
    <3>1. k \in DOMAIN rows /\ Within(rows[g].expires, rows[k].expires)
          /\ Within(rows[g].max, rows[k].max)
      OBVIOUS
    <3> HIDE DEF S, p
    <3>2. Within(rows[g].expires, rows[p].expires)
      BY <1>1, <2>1, <2>2, <3>1, WithinTransitive
    <3>3. Within(rows[g].max, rows[p].max)
      BY <1>1, <2>1, <2>2, <3>1, WithinTransitive
    <3> QED BY <3>2, <3>3
  <2> QED BY <2>1, <2>2, <2>3
<1>4. h \in S
  BY <1>2, <1>3, AncestryLeast
<1>5. g # h => rows[g].parent # None
  BY <1>0, AncestryStep
<1> QED BY <1>4, <1>5 DEF Tightened

(* A delegated grant never exceeds any grant it descends from. *)
THEOREM DelegationAttenuates == Spec => []Attenuated
<1>1. Init => Tightened
  BY DEF Init, Tightened
<1>2. TypeOK /\ Tightened /\ [Next]_vars => Tightened'
  BY TightenedStep
<1>3. TypeOK /\ Tightened => Attenuated
  BY TightenedIsAttenuated
<1> QED BY <1>1, <1>2, <1>3, TypeCorrect, PTL DEF Spec

-----------------------------------------------------------------------------
LEMMA ChainsAreFinite ==
  ASSUME TypeOK, NEW g \in DOMAIN rows
  PROVE  IsFiniteSet(Ancestry(rows, g)) /\ Cardinality(Ancestry(rows, g)) \in Nat
<1>0. Rooted(rows) /\ DOMAIN rows = 1..Len(rows) /\ Len(rows) \in Int /\ 1 \in Int
  BY Table
<1>1. Ancestry(rows, g) \in SUBSET (1..Len(rows)) /\ IsFiniteSet(1..Len(rows))
  <2>1. Ancestry(rows, g) \subseteq DOMAIN rows
    BY <1>0, AncestryClosed
  <2>2. IsFiniteSet(1..Len(rows))
    BY <1>0, FS_Interval
  <2> QED BY <1>0, <2>1, <2>2
<1>2. IsFiniteSet(Ancestry(rows, g))
  BY <1>1, FS_Subset
<1> QED BY <1>2, FS_CardinalityType

LEMMA ChainsAreBoundedStep == TypeOK /\ TypeOK' /\ ChainsAreBounded /\ [Next]_vars
                                => ChainsAreBounded'
<1> SUFFICES ASSUME TypeOK, TypeOK', ChainsAreBounded, [Next]_vars, NEW g \in DOMAIN rows'
             PROVE  Cardinality(Ancestry(rows', g)) <= MaxDepth
  BY DEF ChainsAreBounded
<1>1. CASE g \in DOMAIN rows
  BY <1>1, ChainsLast DEF ChainsAreBounded
<1>2. CASE g \notin DOMAIN rows
  <2>1. PICK s \in Sessions : InsertShare(s) /\ g = Len(rows) + 1
    BY <1>2, NewRows
  <2> DEFINE p == session[s].via
  <2>2. /\ rows'[g].parent = p /\ p \in DOMAIN rows \cup {None}
        /\ p # None => Cardinality(Ancestry(rows, p)) < MaxDepth
    BY <2>1, InsertedRow
  <2>3. Rooted(rows')
    BY RootedAfter
  <2> HIDE DEF p
  <2>4. CASE p = None
    <3>1. Ancestry(rows', g) = {g}
      BY <2>2, <2>3, <2>4, AncestryStep
    <3> QED BY <3>1, FS_Singleton, MaxDepthIsNat
  <2>5. CASE p # None
    <3>1. Ancestry(rows', g) = Ancestry(rows', p) \cup {g}
      BY <2>2, <2>3, <2>5, AncestryStep
    <3>2. Ancestry(rows', p) = Ancestry(rows, p)
      BY <2>2, <2>5, ChainsLast
    <3>3. IsFiniteSet(Ancestry(rows, p)) /\ Cardinality(Ancestry(rows, p)) \in Nat
      BY <2>2, <2>5, ChainsAreFinite
    <3> DEFINE A == Ancestry(rows, p)
    <3>4. Ancestry(rows', g) = A \cup {g}
      BY <3>1, <3>2
    <3> HIDE DEF A
    <3>5. Cardinality(A \cup {g}) = IF g \in A THEN Cardinality(A) ELSE Cardinality(A) + 1
      BY <3>3, FS_AddElement DEF A
    <3>6. Cardinality(A) \in Nat /\ Cardinality(A) < MaxDepth
      BY <2>2, <2>5, <3>3 DEF A
    <3>7. Cardinality(A \cup {g}) <= MaxDepth
      BY <3>5, <3>6, MaxDepthIsNat
    <3> QED BY <3>4, <3>7
  <2> QED BY <2>4, <2>5
<1> QED BY <1>1, <1>2

(* No chain outgrows the bound, whatever delegations are decided at once. *)
THEOREM ChainsStayBounded == Spec => []ChainsAreBounded
<1>1. Init => ChainsAreBounded
  BY DEF Init, ChainsAreBounded
<1>2. TypeOK /\ TypeOK' /\ ChainsAreBounded /\ [Next]_vars => ChainsAreBounded'
  BY ChainsAreBoundedStep
<1> QED BY <1>1, <1>2, TypeCorrect, PTL DEF Spec

-----------------------------------------------------------------------------
(* The shared budget.  Drawn(g) is counted by the row of g. *)
LEMMA DrawnLasts ==
  ASSUME TypeOK, [Next]_vars, UNCHANGED deliveries, NEW g
  PROVE  Drawn(g)' = Drawn(g)
<1>1. \A i \in DOMAIN deliveries : Ancestry(rows', deliveries[i]) = Ancestry(rows, deliveries[i])
  BY Table, ChainsLast
<1> QED BY <1>1 DEF Drawn

LEMMA DrawnGrows ==
  ASSUME TypeOK, NEW s \in Sessions, Reserve(s), NEW g
  PROVE  /\ Len(deliveries) + 1 \notin Drawn(g)
         /\ Drawn(g)' = IF g \in Ancestry(rows, session[s].via)
                        THEN Drawn(g) \cup {Len(deliveries) + 1}
                        ELSE Drawn(g)
<1> DEFINE v == session[s].via
           n == Len(deliveries) + 1
<1>1. v \in DOMAIN rows /\ deliveries' = Append(deliveries, v)
  BY ReservedRows
<1>2. [Next]_vars
  BY DEF Next, Settle
<1>3. /\ Len(deliveries) \in Nat /\ DOMAIN deliveries = 1..Len(deliveries)
      /\ \A i \in DOMAIN deliveries : deliveries[i] \in DOMAIN rows
      /\ deliveries \in Seq(DOMAIN rows)
  BY Table DEF TypeOK
<1>4. /\ DOMAIN deliveries' = DOMAIN deliveries \cup {n} /\ n \notin DOMAIN deliveries
      /\ \A i \in DOMAIN deliveries : deliveries'[i] = deliveries[i]
      /\ deliveries'[n] = v
  <2> HIDE DEF v
  <2>1. /\ deliveries' \in Seq(DOMAIN rows) /\ Len(deliveries') = n
        /\ \A i \in 1..Len(deliveries) : deliveries'[i] = deliveries[i]
        /\ deliveries'[n] = v
    BY <1>1, <1>3, AppendProperties
  <2>2. DOMAIN deliveries' = 1..n
    BY <2>1, LenProperties
  <2> QED BY <1>3, <2>1, <2>2
<1>5. \A h \in DOMAIN rows : Ancestry(rows', h) = Ancestry(rows, h)
  BY <1>2, ChainsLast
<1> HIDE DEF n
<1>6. ASSUME NEW i
      PROVE  i \in Drawn(g)' <=> i \in Drawn(g) \/ (i = n /\ g \in Ancestry(rows, v))
  BY <1>1, <1>3, <1>4, <1>5 DEF Drawn
<1>7. n \notin Drawn(g)
  BY <1>4 DEF Drawn
<1>8. Drawn(g)' = IF g \in Ancestry(rows, v) THEN Drawn(g) \cup {n} ELSE Drawn(g)
  <2> HIDE DEF v
  <2>1. CASE g \in Ancestry(rows, v)
    BY <1>6, <2>1
  <2>2. CASE g \notin Ancestry(rows, v)
    BY <1>6, <2>2
  <2> QED BY <2>1, <2>2
<1> QED BY <1>7, <1>8 DEF n

LEMMA DrawnIsFinite ==
  ASSUME TypeOK, NEW g
  PROVE  IsFiniteSet(Drawn(g)) /\ Cardinality(Drawn(g)) \in Nat
<1>1. DOMAIN deliveries = 1..Len(deliveries) /\ Len(deliveries) \in Int /\ 1 \in Int
  BY Table
<1>2. IsFiniteSet(1..Len(deliveries))
  BY <1>1, FS_Interval
<1>3. Drawn(g) \in SUBSET (1..Len(deliveries))
  BY <1>1 DEF Drawn
<1>4. IsFiniteSet(Drawn(g))
  BY <1>2, <1>3, FS_Subset
<1> QED BY <1>4, FS_CardinalityType

(* Each counter counts what was drawn below it, and never passes its cap. *)
Counted ==
  \A g \in DOMAIN rows :
    /\ rows[g].count = Cardinality(Drawn(g))
    /\ rows[g].max # None => rows[g].count <= rows[g].max

LEMMA CountedStep == TypeOK /\ Counted /\ [Next]_vars => Counted'
<1> SUFFICES ASSUME TypeOK, Counted, [Next]_vars, NEW g \in DOMAIN rows'
             PROVE  /\ rows'[g].count = Cardinality(Drawn(g)')
                    /\ rows'[g].max # None => rows'[g].count <= rows'[g].max
  BY DEF Counted
<1>0. \A h \in DOMAIN rows : /\ rows[h].count = Cardinality(Drawn(h))
                             /\ rows[h].max # None => rows[h].count <= rows[h].max
                             /\ rows[h] \in Row(Keys)
  BY Table DEF Counted
<1>1. CASE UNCHANGED <<rows, deliveries>>
  <2>1. Drawn(g)' = Drawn(g)
    BY <1>1, DrawnLasts
  <2> QED BY <1>0, <1>1, <2>1
<1>2. ASSUME NEW s \in Sessions, Reserve(s)
      PROVE  /\ rows'[g].count = Cardinality(Drawn(g)')
             /\ rows'[g].max # None => rows'[g].count <= rows'[g].max
  <2> DEFINE v == session[s].via
             n == Len(deliveries) + 1
  <2>1. v \in DOMAIN rows /\ rows' = Consume(rows, v)
        /\ GrantLive(rows, v, dead, session[s].start)
    BY <1>2, ReservedRows
  <2>2. /\ n \notin Drawn(g)
        /\ Drawn(g)' = IF g \in Ancestry(rows, v) THEN Drawn(g) \cup {n} ELSE Drawn(g)
    BY <1>2, DrawnGrows
  <2> HIDE DEF v, n
  <2>3. /\ g \in DOMAIN rows /\ rows'[g].max = rows[g].max
        /\ rows'[g].count = IF g \in Ancestry(rows, v) THEN rows[g].count + 1
                            ELSE rows[g].count
    BY <2>1, ConsumedRows
  <2>4. IsFiniteSet(Drawn(g)) /\ Cardinality(Drawn(g)) \in Nat
    BY DrawnIsFinite
  <2>5. CASE g \in Ancestry(rows, v)
    <3>1. Cardinality(Drawn(g) \cup {n}) = Cardinality(Drawn(g)) + 1
      BY <2>2, <2>4, FS_AddElement
    <3>2. rows[g].max # None => rows[g].count < rows[g].max
      BY <2>1, <2>5 DEF GrantLive, SelfLive
    <3>3. rows[g].max \in Nat \cup {None} /\ rows[g].count \in Nat
      BY <1>0, <2>3 DEF Row
    <3>4. rows'[g].count = Cardinality(Drawn(g)')
      BY <1>0, <2>2, <2>3, <2>5, <3>1
    <3> QED BY <2>3, <2>5, <3>2, <3>3, <3>4
  <2>6. CASE g \notin Ancestry(rows, v)
    BY <1>0, <2>2, <2>3, <2>6
  <2> QED BY <2>5, <2>6
<1>3. ASSUME NEW s \in Sessions, InsertShare(s)
      PROVE  /\ rows'[g].count = Cardinality(Drawn(g)')
             /\ rows'[g].max # None => rows'[g].count <= rows'[g].max
  <2>1. UNCHANGED deliveries
    BY <1>3 DEF InsertShare
  <2>2. Drawn(g)' = Drawn(g)
    BY <2>1, DrawnLasts
  <2>3. CASE g \in DOMAIN rows
    <3>1. rows'[g] = rows[g]
      BY <1>3, <2>3, InsertedRow
    <3> QED BY <1>0, <2>2, <2>3, <3>1
  <2>4. CASE g \notin DOMAIN rows
    <3>1. rows'[g].count = 0 /\ rows'[g] \in Row({Offered(s).key})
      BY <1>3, <2>4, InsertedRow
    <3>2. Drawn(g) = {}
      <4>1. \A h \in DOMAIN rows : Ancestry(rows, h) \subseteq DOMAIN rows
        BY DEF Ancestry
      <4> QED BY <2>4, <4>1, Table DEF Drawn
    <3>3. Cardinality(Drawn(g)') = 0
      BY <2>2, <3>2, FS_EmptySet
    <3>4. rows'[g].max # None => 0 <= rows'[g].max
      BY <3>1 DEF Row
    <3> QED BY <3>1, <3>3, <3>4
  <2> QED BY <2>3, <2>4
<1>4. ASSUME NEW S, rows' = Revoke(rows, S), UNCHANGED deliveries
      PROVE  /\ rows'[g].count = Cardinality(Drawn(g)')
             /\ rows'[g].max # None => rows'[g].count <= rows'[g].max
  <2>1. Drawn(g)' = Drawn(g)
    BY <1>4, DrawnLasts
  <2>2. g \in DOMAIN rows /\ rows'[g].count = rows[g].count /\ rows'[g].max = rows[g].max
    BY <1>4, RevokedRows
  <2> QED BY <1>0, <2>1, <2>2
<1> QED BY <1>1, <1>2, <1>3, <1>4, Steps

(* A cap of n: at most n deliveries through the grant and everything below
   it together.                                                            *)
THEOREM BudgetHolds == Spec => []BudgetIsShared
<1>1. Init => Counted
  BY DEF Init, Counted
<1>2. TypeOK /\ Counted /\ [Next]_vars => Counted'
  BY CountedStep
<1>3. Counted => BudgetIsShared
  <2> SUFFICES ASSUME Counted, NEW g \in DOMAIN rows, rows[g].max # None
               PROVE  Cardinality(Drawn(g)) <= rows[g].max
    BY DEF BudgetIsShared
  <2> QED BY DEF Counted
<1> QED BY <1>1, <1>2, <1>3, TypeCorrect, PTL DEF Spec

-----------------------------------------------------------------------------
LEMMA RevokedStays ==
  ASSUME TypeOK, [Next]_vars, NEW g \in DOMAIN rows, rows[g].revoked
  PROVE  rows'[g].revoked /\ Drawn(g)' = Drawn(g)
<1>1. rows'[g].revoked
  BY RowsLast
<1>2. ASSUME NEW s \in Sessions, Reserve(s) PROVE Drawn(g)' = Drawn(g)
  <2> DEFINE v == session[s].via
  <2>1. GrantLive(rows, v, dead, session[s].start)
    BY <1>2, ReservedRows
  <2>2. g \notin Ancestry(rows, v)
    BY <2>1 DEF GrantLive, SelfLive
  <2> QED BY <1>2, <2>2, DrawnGrows
<1>3. ASSUME NEW s \in Sessions, InsertShare(s) PROVE UNCHANGED deliveries
  BY <1>3 DEF InsertShare
<1>4. UNCHANGED deliveries => Drawn(g)' = Drawn(g)
  BY DrawnLasts
<1> QED BY <1>1, <1>2, <1>3, <1>4, Steps

(* Nothing is ever drawn on a revoked grant or below it. *)
THEOREM RevocationHolds == Spec => RevocationIsFinal
<1>1. TypeOK /\ [Next]_vars =>
        [\A g \in DOMAIN rows : rows[g].revoked =>
            rows'[g].revoked /\ Drawn(g)' = Drawn(g)]_vars
  BY RevokedStays
<1> QED BY <1>1, TypeCorrect, PTL DEF Spec, RevocationIsFinal

-----------------------------------------------------------------------------
(* The ledger.  The refinement mapping forgets everything of a row but its
   parent, its cap and whether it is revoked.                              *)
Entry == [parent : Nat \cup {None}, max : Nat \cup {None}, revoked : BOOLEAN]

Tree == [g \in DOMAIN rows |-> [parent  |-> rows[g].parent,
                                max     |-> rows[g].max,
                                revoked |-> rows[g].revoked]]

LEMMA SameAncestry ==
  ASSUME NEW t, NEW g
  PROVE  Ledger!Ancestry(t, g) = Ancestry(t, g)
BY DEF Ledger!Ancestry, Ancestry, Ledger!ParentClosed, ParentClosed

LEMMA MarkedEntry ==
  ASSUME NEW e \in Entry
  PROVE  [e EXCEPT !.revoked = TRUE] = [parent |-> e.parent, max |-> e.max, revoked |-> TRUE]
<1> DEFINE x == [e EXCEPT !.revoked = TRUE]
           y == [parent |-> e.parent, max |-> e.max, revoked |-> TRUE]
<1>1. DOMAIN e = {"parent", "max", "revoked"}
  BY DEF Entry
<1>2. x \in Entry /\ y \in Entry
  BY DEF Entry
<1>3. /\ x.parent = e.parent /\ x.max = e.max /\ x.revoked = TRUE
      /\ y.parent = e.parent /\ y.max = e.max /\ y.revoked = TRUE
  BY <1>1
<1> HIDE DEF x, y
<1>4. x = y
  BY <1>2, <1>3 DEF Entry
<1> QED BY <1>4 DEF x, y

LEMMA SameCardinality ==
  ASSUME NEW S
  PROVE  Ledger!Cardinality(S) = Cardinality(S)
BY DEF Ledger!Cardinality, Cardinality

LEMMA TreeOfRows ==
  ASSUME TypeOK
  PROVE  /\ Tree \in Seq(Entry)
         /\ DOMAIN Tree = DOMAIN rows /\ Len(Tree) = Len(rows)
         /\ \A g \in DOMAIN rows : Ancestry(Tree, g) = Ancestry(rows, g)
<1>1. /\ Len(rows) \in Nat /\ DOMAIN rows = 1..Len(rows) /\ Rooted(rows)
      /\ \A g \in DOMAIN rows : rows[g] \in Row(Keys)
  BY Table
<1>2. DOMAIN Tree = DOMAIN rows /\ \A g \in DOMAIN rows : Tree[g].parent = rows[g].parent
  BY DEF Tree
<1>3. Tree \in [1..Len(rows) -> Entry]
  <2>1. \A g \in DOMAIN rows : [parent |-> rows[g].parent, max |-> rows[g].max,
                                revoked |-> rows[g].revoked] \in Entry
    BY <1>1 DEF Row, Entry
  <2> QED BY <1>1, <2>1 DEF Tree
<1>4. Tree \in Seq(Entry)
  BY <1>1, <1>3
<1>5. Len(Tree) = Len(rows)
  BY <1>1, <1>2, <1>4, LenProperties
<1>6. \A g \in DOMAIN rows : Ancestry(Tree, g) = Ancestry(rows, g)
  BY <1>1, <1>2, AncestryKept
<1> QED BY <1>2, <1>4, <1>5, <1>6

(* The counters are the ledger's expenditure, and a live grant is usable. *)
LEMMA SpentIsCounted ==
  ASSUME TypeOK, Counted, NEW g \in DOMAIN rows
  PROVE  Ledger!Spent(g) = rows[g].count
<1>1. \A i \in DOMAIN deliveries :
        Ledger!Ancestry(Tree, deliveries[i]) = Ancestry(rows, deliveries[i])
  BY Table, TreeOfRows, SameAncestry
<1>2. {i \in DOMAIN deliveries : g \in Ledger!Ancestry(Tree, deliveries[i])} = Drawn(g)
  BY <1>1 DEF Drawn
<1>3. Ledger!Spent(g) = Cardinality({i \in DOMAIN deliveries :
                                        g \in Ledger!Ancestry(Tree, deliveries[i])})
  BY SameCardinality DEF Ledger!Spent, Tree
<1>4. Ledger!Spent(g) = Cardinality(Drawn(g))
  BY <1>2, <1>3
<1> QED BY <1>4 DEF Counted

LEMMA LiveIsUsable ==
  ASSUME TypeOK, Counted, NEW g \in DOMAIN rows, NEW now, GrantLive(rows, g, dead, now)
  PROVE  Ledger!Usable(g)
<1>1. Ledger!Ancestry(Tree, g) = Ancestry(rows, g) /\ Ancestry(rows, g) \subseteq DOMAIN rows
  BY TreeOfRows, SameAncestry, AncestryClosed, Table
<1>2. \A h \in Ancestry(rows, g) :
        ~rows[h].revoked /\ (rows[h].max # None => rows[h].count < rows[h].max)
  BY DEF GrantLive, SelfLive
<1>3. \A h \in Ledger!Ancestry(Tree, g) :
        ~Tree[h].revoked /\ (Tree[h].max # None => Ledger!Spent(h) < Tree[h].max)
  BY <1>1, <1>2, SpentIsCounted DEF Tree
<1> QED BY <1>3 DEF Ledger!Usable, Tree

LEMMA SameTree ==
  ASSUME DOMAIN rows' = DOMAIN rows,
         \A g \in DOMAIN rows : /\ rows'[g].parent = rows[g].parent
                                /\ rows'[g].max = rows[g].max
                                /\ rows'[g].revoked = rows[g].revoked
  PROVE  Tree' = Tree
BY DEF Tree

LEMMA LedgerStep == TypeOK /\ TypeOK' /\ Counted /\ [Next]_vars => [Ledger!LNext]_Ledger!lvars
<1> SUFFICES ASSUME TypeOK, TypeOK', Counted, [Next]_vars
             PROVE  Ledger!LNext \/ (Tree' = Tree /\ deliveries' = deliveries)
  BY DEF Ledger!lvars, Tree
<1>1. CASE UNCHANGED <<rows, deliveries>>
  BY <1>1 DEF Tree
<1>2. ASSUME NEW s \in Sessions, Reserve(s) PROVE Ledger!LNext
  <2> DEFINE v == session[s].via
  <2>1. /\ v \in DOMAIN rows /\ rows' = Consume(rows, v)
        /\ GrantLive(rows, v, dead, session[s].start)
        /\ deliveries' = Append(deliveries, v)
    BY <1>2, ReservedRows
  <2> HIDE DEF v
  <2>2. Ledger!Usable(v)
    BY <2>1, LiveIsUsable
  <2>3. Tree' = Tree
    BY <2>1, ConsumedRows, SameTree
  <2>4. Ledger!Draw(v)
    BY <2>1, <2>2, <2>3 DEF Ledger!Draw, Tree
  <2>5. v \in DOMAIN Tree
    BY <2>1, TreeOfRows
  <2> QED BY <2>4, <2>5 DEF Ledger!LNext, Tree
<1>3. ASSUME NEW s \in Sessions, InsertShare(s) PROVE Ledger!LNext
  <2> DEFINE n == Len(rows) + 1
             p == session[s].via
             new == Tree'[n]
  <2>1. /\ Len(rows') = n /\ DOMAIN rows' = DOMAIN rows \cup {n} /\ n \notin DOMAIN rows
        /\ \A g \in DOMAIN rows : rows'[g] = rows[g]
        /\ rows'[n].parent = p /\ p \in DOMAIN rows \cup {None} /\ ~rows'[n].revoked
        /\ p # None => /\ GrantLive(rows, p, dead, session[s].start)
                       /\ rows[p].max # None =>
                            Within(rows'[n].max, rows[p].max - rows[p].count)
    BY <1>3, InsertedRow
  <2>2. UNCHANGED deliveries
    BY <1>3 DEF InsertShare
  <2> HIDE DEF n, p
  <2>3. /\ Tree' = [g \in DOMAIN rows' |-> [parent |-> rows'[g].parent, max |-> rows'[g].max,
                                            revoked |-> rows'[g].revoked]]
        /\ DOMAIN Tree' = DOMAIN rows'
    BY DEF Tree
  <2>4. /\ Len(rows) \in Nat /\ DOMAIN rows = 1..Len(rows)
        /\ Tree \in Seq(Entry) /\ Len(Tree) = Len(rows) /\ DOMAIN Tree = DOMAIN rows
    BY Table, TreeOfRows
  <2>5. /\ \A g \in DOMAIN rows : Tree'[g] = Tree[g]
        /\ new.parent = p /\ new.max = rows'[n].max /\ ~new.revoked
    BY <2>1, <2>3 DEF Tree
  <2>6. new \in Entry
    <3>1. Tree' \in Seq(Entry)
      <4>1. rows' \in Seq(Row({rows'[g].key : g \in DOMAIN rows'}))
        BY DEF TypeOK
      <4> DEFINE K == {rows'[g].key : g \in DOMAIN rows'}
      <4>2. /\ Len(rows') \in Nat /\ DOMAIN rows' = 1..Len(rows')
            /\ \A g \in DOMAIN rows' : rows'[g] \in Row(K)
        <5> HIDE DEF K
        <5> QED BY <4>1, LenProperties DEF K
      <4> HIDE DEF K
      <4>3. \A g \in DOMAIN rows' :
              [parent |-> rows'[g].parent, max |-> rows'[g].max,
               revoked |-> rows'[g].revoked] \in Entry
        BY <4>2 DEF Row, Entry
      <4>4. Tree' \in [1..Len(rows') -> Entry]
        BY <2>3, <4>2, <4>3
      <4> QED BY <4>2, <4>4
    <3>2. n \in DOMAIN Tree' /\ DOMAIN Tree' = 1..Len(Tree')
      BY <2>1, <2>3, <3>1, LenProperties
    <3> QED BY <3>1, <3>2, ElementOfSeq
  <2>7. Tree' = Append(Tree, new) /\ Len(Tree') = Len(Tree) + 1
    <3> HIDE DEF new
    <3>1. /\ Append(Tree, new) \in Seq(Entry) /\ Len(Append(Tree, new)) = Len(Tree) + 1
          /\ \A i \in 1..Len(Tree) : Append(Tree, new)[i] = Tree[i]
          /\ Append(Tree, new)[Len(Tree) + 1] = new
      BY <2>4, <2>6, AppendProperties
    <3>2. DOMAIN Append(Tree, new) = 1..(Len(Tree) + 1)
      BY <2>4, <3>1, LenProperties
    <3>3. DOMAIN Tree' = 1..(Len(Tree) + 1)
      BY <2>1, <2>3, <2>4 DEF n
    <3>4. \A i \in 1..(Len(Tree) + 1) : Tree'[i] = Append(Tree, new)[i]
      BY <2>4, <2>5, <3>1 DEF n, new
    <3>5. Append(Tree, new) = [i \in 1..(Len(Tree) + 1) |-> Append(Tree, new)[i]]
      BY <2>4, <3>1, LenProperties
    <3>6. Tree' = [i \in 1..(Len(Tree) + 1) |-> Tree'[i]]
      BY <2>3, <3>3
    <3>7. Tree' = Append(Tree, new)
      BY <3>4, <3>5, <3>6
    <3> QED BY <3>1, <3>7
  <2>8. p # None => /\ p \in DOMAIN Tree
                    /\ Ledger!Usable(p)
                    /\ Tree[p].max # None =>
                         Ledger!Within(new.max, Tree[p].max - Ledger!Spent(p))
    <3> SUFFICES ASSUME p # None
                 PROVE  /\ p \in DOMAIN Tree
                        /\ Ledger!Usable(p)
                        /\ Tree[p].max # None =>
                             Ledger!Within(new.max, Tree[p].max - Ledger!Spent(p))
      OBVIOUS
    <3>1. p \in DOMAIN rows
      BY <2>1
    <3>2. Ledger!Usable(p)
      BY <2>1, <3>1, LiveIsUsable
    <3>3. Ledger!Spent(p) = rows[p].count
      BY <3>1, SpentIsCounted
    <3>4. Tree[p].max = rows[p].max
      BY <3>1 DEF Tree
    <3>5. rows[p].max # None => Ledger!Within(rows'[n].max, rows[p].max - rows[p].count)
      BY <2>1 DEF Ledger!Within, Within
    <3> HIDE DEF new
    <3> QED BY <2>4, <2>5, <3>1, <3>2, <3>3, <3>4, <3>5
  <2>9. n = Len(Tree')
    BY <2>4, <2>7 DEF n
  <2>10. Ledger!Issue
    <3>1. /\ Len(Tree') = Len(Tree) + 1
          /\ LET e == Tree'[Len(Tree')]
                 q == e.parent
             IN  /\ Tree' = Append(Tree, e)
                 /\ ~e.revoked
                 /\ q # None => /\ q \in DOMAIN Tree
                                /\ Ledger!Usable(q)
                                /\ Tree[q].max # None =>
                                     Ledger!Within(e.max, Tree[q].max - Ledger!Spent(q))
          /\ UNCHANGED deliveries
      BY <2>2, <2>5, <2>7, <2>8, <2>9
    <3> QED BY <3>1 DEF Ledger!Issue, Tree
  <2> QED BY <2>10 DEF Ledger!LNext
<1>4. ASSUME NEW S, rows' = Revoke(rows, S), UNCHANGED deliveries PROVE Ledger!LNext
  <2>1. /\ DOMAIN rows' = DOMAIN rows
        /\ \A g \in DOMAIN rows :
             rows'[g] = IF g \in S THEN [rows[g] EXCEPT !.revoked = TRUE] ELSE rows[g]
    BY <1>4, RevokeKeeps
  <2>2. DOMAIN Tree' = DOMAIN Tree
    BY <2>1 DEF Tree
  <2>3. ASSUME NEW g \in DOMAIN Tree
        PROVE  Tree'[g] \in {Tree[g], [Tree[g] EXCEPT !.revoked = TRUE]}
    <3>1. g \in DOMAIN rows /\ g \in DOMAIN rows' /\ rows[g] \in Row(Keys)
      BY <2>1, Table DEF Tree
    <3>2. Tree[g] = [parent |-> rows[g].parent, max |-> rows[g].max,
                     revoked |-> rows[g].revoked]
      BY <3>1 DEF Tree
    <3>3. Tree'[g] = [parent |-> rows'[g].parent, max |-> rows'[g].max,
                      revoked |-> rows'[g].revoked]
      BY <3>1 DEF Tree
    <3>4. CASE g \in S
      <4>1. rows'[g] = [rows[g] EXCEPT !.revoked = TRUE]
        BY <2>1, <3>1, <3>4
      <4>2. /\ rows'[g].parent = rows[g].parent /\ rows'[g].max = rows[g].max
            /\ rows'[g].revoked = TRUE
        BY <3>1, <4>1 DEF Row
      <4>3. Tree'[g] = [parent |-> rows[g].parent, max |-> rows[g].max, revoked |-> TRUE]
        BY <3>3, <4>2
      <4>4. [Tree[g] EXCEPT !.revoked = TRUE]
              = [parent |-> rows[g].parent, max |-> rows[g].max, revoked |-> TRUE]
        <5>1. Tree[g].parent = rows[g].parent /\ Tree[g].max = rows[g].max
          BY <3>2
        <5>2. Tree[g] \in Entry
          <6>1. Tree \in Seq(Entry) /\ DOMAIN Tree = DOMAIN rows
            BY TreeOfRows
          <6>2. DOMAIN Tree = 1..Len(Tree)
            BY <6>1, LenProperties
          <6> HIDE DEF Tree
          <6> QED BY <3>1, <6>1, <6>2, ElementOfSeq
        <5> QED BY <5>1, <5>2, MarkedEntry
      <4> QED BY <4>3, <4>4
    <3>5. CASE g \notin S
      BY <2>1, <3>1, <3>2, <3>3, <3>5
    <3> QED BY <3>4, <3>5
  <2>4. Ledger!Withdraw
    BY <1>4, <2>2, <2>3 DEF Ledger!Withdraw, Tree
  <2> QED BY <2>4 DEF Ledger!LNext
<1> QED BY <1>1, <1>2, <1>3, <1>4, Steps

(* The machinery of grants implements the ledger. *)
THEOREM LedgerIsImplemented == Spec => ImplementsLedger
<1>1. Init => Counted
  BY DEF Init, Counted
<1>2. TypeOK /\ Counted /\ [Next]_vars => Counted'
  BY CountedStep
<1>3. Init => Ledger!LInit
  BY DEF Init, Ledger!LInit
<1>4. TypeOK /\ TypeOK' /\ Counted /\ [Next]_vars => [Ledger!LNext]_Ledger!lvars
  BY LedgerStep
<1> QED BY <1>1, <1>2, <1>3, <1>4, TypeCorrect, PTL DEF Spec, ImplementsLedger, Ledger!Spec

-----------------------------------------------------------------------------
(* Shares that are submitted again: the derived keys, the walk around dead
   grants, and what follows from them -- one live grant per share and window, a
   cap that is not refilled by asking again, and answers that are what was asked
   for.  The walk is a function defined by recursion over its levels, so these
   proofs begin with an induction over natural numbers.                     *)

(* Every set of natural numbers has a least member.  This is the form in
   which the proofs below use induction: the least counterexample.         *)
LEMMA LeastNat ==
  ASSUME NEW T, T \subseteq Nat, T # {}
  PROVE  \E x \in T : \A y \in T : x <= y
<1>1. IsWellFoundedOn(OpToRel(<, Nat), Nat)
  BY NatLessThanWellFounded
<1>2. PICK x \in T : \A y \in T : <<y, x>> \notin OpToRel(<, Nat)
  BY <1>1, WFMin
<1>3. \A y \in T : ~(y < x)
  BY <1>2 DEF OpToRel
<1> QED BY <1>3

(* The part of a trail before its i-th member. *)
Before(t, i) == [j \in 1..(i-1) |-> t[j]]

LEMMA BeforeIsSeq ==
  ASSUME NEW S, NEW t \in Seq(S), NEW i \in 1..(Len(t) + 1)
  PROVE  /\ Before(t, i) \in Seq(S) /\ Len(Before(t, i)) = i - 1
         /\ \A j \in 1..(i-1) : Before(t, i)[j] = t[j]
         /\ Before(t, Len(t) + 1) = t
<1>1. Len(t) \in Nat /\ t \in [1..Len(t) -> S]
  BY LenProperties
<1>2. ASSUME NEW k \in 1..(Len(t) + 1)
      PROVE  /\ Before(t, k) \in Seq(S) /\ Len(Before(t, k)) = k - 1
             /\ \A j \in 1..(k-1) : Before(t, k)[j] = t[j]
  <2>1. k - 1 \in Nat /\ Before(t, k) \in [1..(k-1) -> S]
    BY <1>1 DEF Before
  <2>2. Before(t, k) \in Seq(S)
    BY <2>1
  <2>3. DOMAIN Before(t, k) = 1..(k-1)
    BY DEF Before
  <2>4. Len(Before(t, k)) = k - 1
    BY <2>1, <2>2, <2>3, LenProperties
  <2> QED BY <2>2, <2>4 DEF Before
<1>3. Before(t, Len(t) + 1) = t
  <2>1. Len(t) + 1 \in 1..(Len(t) + 1) /\ (Len(t) + 1) - 1 = Len(t)
    BY <1>1
  <2>2. /\ Before(t, Len(t) + 1) \in Seq(S) /\ Len(Before(t, Len(t) + 1)) = Len(t)
        /\ \A j \in 1..Len(t) : Before(t, Len(t) + 1)[j] = t[j]
    BY <1>2, <2>1
  <2> QED BY <2>2, SeqEqual
<1> QED BY <1>2, <1>3

LEMMA BeforeAppended ==
  ASSUME NEW S, NEW t \in Seq(S), NEW e \in S, NEW i \in 1..(Len(t) + 1)
  PROVE  Before(Append(t, e), i) = Before(t, i)
<1>1. Len(t) \in Nat /\ \A j \in 1..Len(t) : Append(t, e)[j] = t[j]
  BY AppendProperties, LenProperties
<1> QED BY <1>1 DEF Before

-----------------------------------------------------------------------------
(* The walk around dead grants, level by level. *)
Dying(in, bucket, t, now) ==
  {g \in Keyed(AutoKey(in, bucket, t)) : ~KeyLive(rows[g], now)}

Longer(in, bucket, now, t) ==
  IF Dying(in, bucket, t, now) = {} THEN t
  ELSE Append(t, CHOOSE g \in Dying(in, bucket, t, now) : TRUE)

IsWalk(f, m, in, bucket, now) ==
  f = [n \in 0..m |-> IF n = 0 THEN <<>> ELSE Longer(in, bucket, now, f[n-1])]

LEMMA WalkExists ==
  ASSUME NEW m \in Nat, NEW in, NEW bucket, NEW now
  PROVE  \E f : IsWalk(f, m, in, bucket, now)
<1> DEFINE T == {n \in Nat : ~\E f : IsWalk(f, n, in, bucket, now)}
<1> SUFFICES T = {}
  OBVIOUS
<1> SUFFICES ASSUME T # {} PROVE FALSE
  OBVIOUS
<1>1. PICK x \in T : \A y \in T : x <= y
  <2> HIDE DEF T
  <2>1. T \subseteq Nat
    BY DEF T
  <2> QED BY <2>1, LeastNat
<1>2. CASE x = 0
  <2> DEFINE f == [n \in 0..0 |-> <<>>]
  <2>1. f = [n \in 0..0 |-> IF n = 0 THEN <<>> ELSE Longer(in, bucket, now, f[n-1])]
    OBVIOUS
  <2> HIDE DEF f
  <2>2. IsWalk(f, 0, in, bucket, now)
    BY <2>1 DEF IsWalk
  <2> QED BY <1>2, <2>2
<1>3. CASE x # 0
  <2>1. x \in Nat /\ x - 1 \in Nat /\ x - 1 \notin T
    BY <1>1, <1>3
  <2>2. PICK f : IsWalk(f, x - 1, in, bucket, now)
    BY <2>1
  <2> DEFINE h == [n \in 0..x |-> IF n = x THEN Longer(in, bucket, now, f[x-1]) ELSE f[n]]
  <2>3. \A n \in 0..(x-1) : h[n] = f[n]
    BY <2>1
  <2>4. \A n \in 0..(x-1) : f[n] = IF n = 0 THEN <<>> ELSE Longer(in, bucket, now, f[n-1])
    BY <2>2 DEF IsWalk
  <2>5. h[x] = Longer(in, bucket, now, f[x-1])
    BY <2>1
  <2>6. h = [n \in 0..x |-> h[n]]
    OBVIOUS
  <2> HIDE DEF h
  <2>7. \A n \in 0..x : h[n] = IF n = 0 THEN <<>> ELSE Longer(in, bucket, now, h[n-1])
    <3> TAKE n \in 0..x
    <3>1. CASE n = x
      BY <1>3, <2>1, <2>3, <2>5, <3>1
    <3>2. CASE n # x
      <4>1. n \in 0..(x-1) /\ (n # 0 => n - 1 \in 0..(x-1))
        BY <2>1, <3>2
      <4> QED BY <2>3, <2>4, <4>1
    <3> QED BY <3>1, <3>2
  <2>8. IsWalk(h, x, in, bucket, now)
    BY <2>6, <2>7 DEF IsWalk
  <2> QED BY <2>1, <2>8
<1> QED BY <1>2, <1>3

(* Trail is where the walk is after StepAround levels. *)
LEMMA TrailIsWalk ==
  ASSUME NEW in, NEW bucket, NEW now
  PROVE  \E f : /\ IsWalk(f, StepAround, in, bucket, now)
                /\ Trail(in, bucket, now) = f[StepAround]
<1> DEFINE f == CHOOSE trail :
      trail = [n \in 0..StepAround |->
        IF n = 0 THEN <<>>
        ELSE LET dying == {g \in Keyed(AutoKey(in, bucket, trail[n-1])) :
                             ~KeyLive(rows[g], now)}
             IN  IF dying = {} THEN trail[n-1]
                 ELSE Append(trail[n-1], CHOOSE g \in dying : TRUE)]
<1>1. Trail(in, bucket, now) = f[StepAround]
  BY DEF Trail
<1>2. f = CHOOSE trail : IsWalk(trail, StepAround, in, bucket, now)
  BY DEF IsWalk, Longer, Dying
<1> HIDE DEF f
<1>3. StepAround \in Nat
  BY SharingAssumption
<1>4. IsWalk(f, StepAround, in, bucket, now)
  BY <1>2, <1>3, WalkExists
<1> QED BY <1>1, <1>4

(* A trail each member of which holds the key before it and is dead; unless
   all levels are used, no dead grant holds the key it leads to.           *)
Walked(in, bucket, t, now) ==
  /\ t \in Seq(DOMAIN rows) /\ Len(t) <= StepAround
  /\ \A i \in 1..Len(t) : t[i] \in Dying(in, bucket, Before(t, i), now)
  /\ Len(t) < StepAround => Dying(in, bucket, t, now) = {}

LEMMA OneLevel ==
  ASSUME NEW in, NEW bucket, NEW now, NEW t \in Seq(DOMAIN rows),
         \A i \in 1..Len(t) : t[i] \in Dying(in, bucket, Before(t, i), now)
  PROVE  LET u == Longer(in, bucket, now, t)
         IN  /\ u \in Seq(DOMAIN rows)
             /\ \A i \in 1..Len(u) : u[i] \in Dying(in, bucket, Before(u, i), now)
             /\ \/ u = t /\ Dying(in, bucket, t, now) = {}
                \/ Len(u) = Len(t) + 1
<1> DEFINE D == Dying(in, bucket, t, now)
           e == CHOOSE g \in D : TRUE
           u == Longer(in, bucket, now, t)
<1>1. CASE D = {}
  BY <1>1 DEF Longer
<1>2. CASE D # {}
  <2>1. e \in D /\ u = Append(t, e)
    BY <1>2 DEF Longer
  <2>2. D \subseteq DOMAIN rows
    BY DEF Dying, Keyed
  <2> HIDE DEF e, u
  <2>3. /\ u \in Seq(DOMAIN rows) /\ Len(u) = Len(t) + 1 /\ Len(t) \in Nat
        /\ u[Len(t) + 1] = e /\ \A i \in 1..Len(t) : u[i] = t[i]
    BY <2>1, <2>2, AppendProperties, LenProperties
  <2>4. ASSUME NEW i \in 1..Len(u) PROVE u[i] \in Dying(in, bucket, Before(u, i), now)
    <3>1. i \in 1..(Len(t) + 1) /\ e \in DOMAIN rows
      BY <2>1, <2>2, <2>3
    <3>2. Before(u, i) = Before(t, i)
      BY <2>1, <3>1, BeforeAppended
    <3>3. CASE i \in 1..Len(t)
      BY <2>3, <3>2, <3>3
    <3>4. CASE i = Len(t) + 1
      <4>1. Before(t, i) = t
        BY <3>1, <3>4, BeforeIsSeq
      <4> QED BY <2>1, <2>3, <3>2, <3>4, <4>1
    <3> QED BY <2>3, <3>1, <3>3, <3>4
  <2> QED BY <2>3, <2>4 DEF u
<1> QED BY <1>1, <1>2

LEMMA TrailWalks ==
  ASSUME NEW in, NEW bucket, NEW now
  PROVE  Walked(in, bucket, Trail(in, bucket, now), now)
<1>0. StepAround \in Nat
  BY SharingAssumption
<1>1. PICK f : /\ IsWalk(f, StepAround, in, bucket, now)
               /\ Trail(in, bucket, now) = f[StepAround]
  BY TrailIsWalk
<1>2. \A n \in 0..StepAround :
        f[n] = IF n = 0 THEN <<>> ELSE Longer(in, bucket, now, f[n-1])
  BY <1>0, <1>1 DEF IsWalk
<1> DEFINE Good(n) ==
      /\ f[n] \in Seq(DOMAIN rows) /\ Len(f[n]) <= n
      /\ \A i \in 1..Len(f[n]) : f[n][i] \in Dying(in, bucket, Before(f[n], i), now)
      /\ Len(f[n]) < n => Dying(in, bucket, f[n], now) = {}
<1>3. Good(0)
  <2>1. f[0] = <<>>
    BY <1>0, <1>2
  <2>2. f[0] \in Seq(DOMAIN rows) /\ Len(f[0]) = 0
    BY <2>1, EmptySeq
  <2> QED BY <2>2
<1>4. ASSUME NEW n \in 1..StepAround, Good(n-1) PROVE Good(n)
  <2>1. n \in 0..StepAround /\ n # 0
    BY <1>0
  <2>2. f[n] = Longer(in, bucket, now, f[n-1])
    BY <1>2, <2>1
  <2> DEFINE t == f[n-1]
             u == f[n]
  <2>3. /\ t \in Seq(DOMAIN rows) /\ Len(t) <= n - 1
        /\ \A i \in 1..Len(t) : t[i] \in Dying(in, bucket, Before(t, i), now)
        /\ Len(t) < n - 1 => Dying(in, bucket, t, now) = {}
    BY <1>4
  <2>t. u = Longer(in, bucket, now, t)
    BY <2>2
  <2> HIDE DEF t, u
  <2>4. /\ u \in Seq(DOMAIN rows)
        /\ \A i \in 1..Len(u) : u[i] \in Dying(in, bucket, Before(u, i), now)
        /\ \/ u = t /\ Dying(in, bucket, t, now) = {}
           \/ Len(u) = Len(t) + 1
    BY <2>3, <2>t, OneLevel
  <2>5. Len(u) < n => Dying(in, bucket, u, now) = {}
    <3>1. Len(t) \in Nat /\ n \in Nat
      BY <1>0, <2>3, LenProperties
    <3>2. CASE u = t /\ Dying(in, bucket, t, now) = {}
      BY <3>2
    <3>3. CASE Len(u) = Len(t) + 1
      <4>1. SUFFICES ASSUME Len(u) < n PROVE FALSE
        BY <2>4
      <4>2. Len(t) < n - 1
        BY <3>1, <3>3, <4>1
      <4>3. Dying(in, bucket, t, now) = {}
        BY <2>3, <4>2
      <4>4. u = t
        BY <2>t, <4>3 DEF Longer
      <4> QED BY <3>1, <3>3, <4>4
    <3> QED BY <2>4, <3>2, <3>3
  <2>6. Len(t) \in Nat /\ n \in Nat
    BY <1>0, <2>3, LenProperties
  <2>7. Len(u) <= n
    BY <2>3, <2>4, <2>6
  <2> QED BY <2>4, <2>5, <2>7 DEF u
<1> HIDE DEF Good
<1>5. Good(StepAround)
  <2> DEFINE T == {n \in 0..StepAround : ~Good(n)}
  <2>1. SUFFICES T = {}
    BY <1>0
  <2>2. SUFFICES ASSUME T # {} PROVE FALSE
    OBVIOUS
  <2>3. PICK x \in T : \A y \in T : x <= y
    <3> HIDE DEF T
    <3>1. T \subseteq Nat
      BY <1>0 DEF T
    <3> QED BY <2>2, <3>1, LeastNat
  <2>4. x \in 1..StepAround /\ x - 1 \in 0..StepAround
    BY <1>0, <1>3, <2>3
  <2>5. x - 1 \notin T
    BY <2>3, <2>4
  <2> QED BY <1>4, <2>3, <2>4, <2>5
<1> QED BY <1>1, <1>5 DEF Good, Walked

-----------------------------------------------------------------------------
(* The keys in the table.  A derived key belongs to a share as it was asked
   for, comes from a window that has begun, and its trail leads past grants
   that hold the keys on the way; no two grants share a key.               *)
Derived(g) == rows[g].key # None /\ rows[g].key.shape # None

KeysAreUnique ==
  \A g, h \in DOMAIN rows : rows[g].key # None /\ rows[g].key = rows[h].key => g = h

DerivedFrom(g) ==
  LET key == rows[g].key
  IN  /\ key = AutoKey(key.shape, key.bucket, key.trail) /\ key.shape \in Shares
      /\ key.bucket \in Int /\ key.bucket <= clock \div Window
      /\ key.trail \in Seq(DOMAIN rows)
      /\ \A i \in 1..Len(key.trail) :
           rows[key.trail[i]].key = AutoKey(key.shape, key.bucket, Before(key.trail, i))

AsAsked(g) ==
  LET in == rows[g].key.shape
  IN  /\ rows[g].subject = in.subject /\ rows[g].caps = in.caps
      /\ in.max \in (Nat \ {0}) \cup {None}
      /\ Within(rows[g].max, in.max)

KeysAreDerived == \A g \in DOMAIN rows : Derived(g) => DerivedFrom(g) /\ AsAsked(g)

(* A derived key is not NULL. *)
LEMMA AutoKeyIsAKey ==
  ASSUME TypeOK, NEW in \in Shares, NEW bucket \in Int, NEW t \in Seq(DOMAIN rows)
  PROVE  AutoKey(in, bucket, t) # None
<1>1. DOMAIN rows \subseteq Nat
  BY Table
<1>2. t \in Seq(Nat)
  BY <1>1, SeqMonotonic
<1>3. AutoKey(in, bucket, t) \in Key
  BY <1>2 DEF AutoKey, Key
<1> QED BY <1>3, SharingAssumption

(* A trail of a share: each grant holds the key derived from those before it. *)
IsATrail(in, bucket, t) ==
  /\ t \in Seq(DOMAIN rows)
  /\ \A i \in 1..Len(t) : rows[t[i]].key = AutoKey(in, bucket, Before(t, i))

(* Two trails of the same share in the same window agree as far as both go. *)
LEMMA TrailsAgree ==
  ASSUME TypeOK, KeysAreUnique, NEW in \in Shares, NEW bucket \in Int,
         NEW t, IsATrail(in, bucket, t), NEW u, IsATrail(in, bucket, u),
         NEW i \in Nat \ {0}, i <= Len(t), i <= Len(u)
  PROVE  t[i] = u[i]
<1>. USE DEF IsATrail
<1>0. /\ Len(t) \in Nat /\ t \in [1..Len(t) -> DOMAIN rows]
      /\ Len(u) \in Nat /\ u \in [1..Len(u) -> DOMAIN rows]
  BY LenProperties
<1> DEFINE T == {j \in Nat \ {0} : j <= Len(t) /\ j <= Len(u) /\ t[j] # u[j]}
<1>1. SUFFICES ASSUME T # {} PROVE FALSE
  OBVIOUS
<1>2. PICK x \in T : \A y \in T : x <= y
  <2> HIDE DEF T
  <2>1. T \subseteq Nat
    BY DEF T
  <2> QED BY <1>1, <2>1, LeastNat
<1>3. \A j \in 1..(x-1) : t[j] = u[j]
  BY <1>0, <1>2
<1>4. Before(t, x) = Before(u, x)
  BY <1>3 DEF Before
<1>5. rows[t[x]].key = rows[u[x]].key /\ rows[t[x]].key # None
  <2>1. x \in 1..Len(t) /\ x \in 1..Len(u)
    BY <1>0, <1>2
  <2>2. rows[t[x]].key = AutoKey(in, bucket, Before(t, x))
    BY <2>1
  <2>3. rows[u[x]].key = AutoKey(in, bucket, Before(t, x))
    BY <1>4, <2>1
  <2>4. AutoKey(in, bucket, Before(t, x)) # None
    <3>1. x \in 1..(Len(t) + 1)
      BY <1>0, <1>2
    <3>2. Before(t, x) \in Seq(DOMAIN rows)
      BY <3>1, BeforeIsSeq
    <3> QED BY <3>2, AutoKeyIsAKey
  <2> QED BY <2>2, <2>3, <2>4
<1>6. t[x] \in DOMAIN rows /\ u[x] \in DOMAIN rows
  BY <1>0, <1>2
<1>7. t[x] = u[x]
  BY <1>5, <1>6 DEF KeysAreUnique
<1> QED BY <1>2, <1>7

-----------------------------------------------------------------------------
(* What a step does to the keys. *)
LEMMA ClockGrows ==
  ASSUME TypeOK, [Next]_vars
  PROVE  clock' \in Nat /\ clock <= clock'
<1>0. clock \in Nat
  BY DEF TypeOK
<1>1. ASSUME NEW s \in Sessions, Begin(s) PROVE clock' = clock
  BY <1>1 DEF Begin, BeginRead, BeginShare, BeginRevoke, BeginUnshare, Open
<1>2. ASSUME NEW s \in Sessions, Settle(s) PROVE clock' = clock
  BY <1>2 DEF Settle, Reserve, RefuseRead, AnswerPrevious, RefuseShare, ReplayShare,
              InsertShare, SettleRevoke, SettleUnshare
<1>3. ASSUME NEW a \in Actors, DeleteFile(a) PROVE clock' = clock
  BY <1>3 DEF DeleteFile
<1>4. ASSUME NEW x \in Suspendable, Suspend(x) \/ Restore(x) PROVE clock' = clock
  BY <1>4 DEF Suspend, Restore
<1>5. ASSUME NEW c \in RoleChanges, ChangeRole(c[1], c[2], c[3]) PROVE clock' = clock
  BY <1>5 DEF ChangeRole
<1>6. Tick => clock' = clock + 1
  BY DEF Tick
<1>7. UNCHANGED vars => clock' = clock
  BY DEF vars
<1> QED BY <1>0, <1>1, <1>2, <1>3, <1>4, <1>5, <1>6, <1>7 DEF Next

LEMMA WindowsGrow ==
  ASSUME NEW a \in Nat, NEW b \in Nat, a <= b
  PROVE  a \div Window \in Int /\ a \div Window <= b \div Window
<1>1. Window \in Nat \ {0}
  BY SharingAssumption
<1> DEFINE p == a \div Window
           q == b \div Window
<1>2. p \in Int /\ q \in Int
  BY <1>1
<1>3. Window * p <= a /\ b < Window * q + Window
  BY <1>1
<1> HIDE DEF p, q
<1>4. ASSUME p > q PROVE FALSE
  <2>1. p = q + 1 + (p - q - 1) /\ p - q - 1 \in Nat
    BY <1>2, <1>4
  <2>2. Window * p = Window * q + Window + Window * (p - q - 1)
    BY <1>1, <1>2, <2>1
  <2>3. Window * (p - q - 1) >= 0
    BY <1>1, <2>1
  <2>4. Window * p \in Int /\ Window * q \in Int /\ Window * (p - q - 1) \in Int
    BY <1>1, <1>2, <2>1
  <2> QED BY <1>1, <1>3, <2>2, <2>3, <2>4
<1>5. p <= q
  BY <1>2, <1>4
<1> QED BY <1>2, <1>5 DEF p, q

LEMMA KeysLast ==
  ASSUME TypeOK, [Next]_vars
  PROVE  \A h \in DOMAIN rows : /\ rows'[h].key = rows[h].key
                                /\ rows'[h].creator = rows[h].creator
<1> DEFINE Goal == \A h \in DOMAIN rows : /\ rows'[h].key = rows[h].key
                                          /\ rows'[h].creator = rows[h].creator
<1>1. UNCHANGED <<rows, deliveries>> => Goal
  OBVIOUS
<1>2. ASSUME NEW s \in Sessions, Reserve(s) PROVE Goal
  <2> DEFINE g == session[s].via
  <2>1. g \in DOMAIN rows /\ rows' = Consume(rows, g)
    BY <1>2, ReservedRows
  <2> HIDE DEF g
  <2> QED BY <2>1, ConsumedRows
<1>3. ASSUME NEW s \in Sessions, InsertShare(s) PROVE Goal
  BY <1>3, InsertedRow
<1>4. ASSUME NEW S, rows' = Revoke(rows, S) PROVE Goal
  BY <1>4, RevokedRows
<1> HIDE DEF Goal
<1>5. Goal
  BY <1>1, <1>2, <1>3, <1>4, Steps
<1> QED BY <1>5 DEF Goal

(* A grant that works tomorrow works today. *)
LEMMA LiveBefore ==
  ASSUME TypeOK, NEW g \in DOMAIN rows, NEW a \in Nat, NEW b \in Nat, a <= b,
         KeyLive(rows[g], b)
  PROVE  KeyLive(rows[g], a)
<1>1. rows[g].expires \in Nat \cup {None}
  BY Table DEF Row
<1> QED BY <1>1 DEF KeyLive

LEMMA LiveYesterday ==
  ASSUME TypeOK, [Next]_vars, NEW g \in DOMAIN rows, KeyLive(rows'[g], clock')
  PROVE  KeyLive(rows[g], clock)
<1>1. rows'[g].expires = rows[g].expires /\ (rows[g].revoked => rows'[g].revoked)
  BY RowsLast
<1>2. clock \in Nat /\ clock' \in Nat /\ clock <= clock'
  BY ClockGrows DEF TypeOK
<1>3. KeyLive(rows[g], clock')
  BY <1>1 DEF KeyLive
<1> QED BY <1>2, <1>3, LiveBefore

(* What the INSERT of a share writes. *)
LEMMA InsertedKey ==
  ASSUME TypeOK, NEW s \in Sessions, InsertShare(s)
  PROVE  LET n  == Len(rows) + 1
             in == session[s].in
         IN  /\ in \in Shares /\ session[s].start \in 0..clock
             /\ session[s].by \in Actors /\ clock' = clock
             /\ DOMAIN rows' = DOMAIN rows \cup {n} /\ n \notin DOMAIN rows
             /\ n \in Nat
             /\ rows'[n].subject = in.subject /\ rows'[n].caps = in.caps
             /\ Within(rows'[n].max, in.max)
             /\ rows'[n].creator = session[s].by
             /\ rows'[n].key = StoredKey(in, session[s].start)
             /\ Keyed(StoredKey(in, session[s].start)) = {}
             /\ PreviousGrant(in, session[s].start) = {}
<1> DEFINE o == Offered(s)
           n == Len(rows) + 1
           in == session[s].in
           p == session[s].via
<1>1. /\ session[s].op = "share" /\ clock' = clock
      /\ rows' = Append(rows, Attenuate(rows, o))
      /\ Keyed(o.key) = {} /\ PreviousGrant(in, session[s].start) = {}
  BY DEF InsertShare, Settling, Admitted
<1>2. session[s] \in [op : {"share"}, start : 0..clock, via : DOMAIN rows \cup {None},
                      by : Actors, in : Shares]
  BY <1>1 DEF TypeOK, Request, Idle
<1>3. /\ o.subject = in.subject /\ o.caps = in.caps /\ o.max = in.max
      /\ o.creator = session[s].by /\ o.key = StoredKey(in, session[s].start)
      /\ o.parent = p
  BY DEF Offered
<1>4. o \in Row({o.key})
  BY <1>1, OfferedRow
<1>5. Len(rows) \in Nat /\ rows \in Seq(Row(Keys)) /\ \A g \in DOMAIN rows : rows[g] \in Row(Keys)
  BY Table DEF TypeOK, Keys
<1>6. DOMAIN rows' = DOMAIN rows \cup {n} /\ n \notin DOMAIN rows
  BY InsertedRow
<1> HIDE DEF o
<1>7. rows'[n] = Attenuate(rows, o)
  <2>1. rows' = Append(rows, rows'[n])
    BY InsertedRow
  <2> QED BY <1>1, <1>5
<1>8. /\ rows'[n].subject = o.subject /\ rows'[n].caps = o.caps
      /\ rows'[n].creator = o.creator
      /\ Within(rows'[n].max, o.max)
  <2>1. CASE p = None
    <3>1. rows'[n] = o
      BY <1>3, <1>7, <2>1 DEF Attenuate
    <3>2. o.max \in Nat \cup {None}
      BY <1>4 DEF Row
    <3> QED BY <3>1, <3>2 DEF Within
  <2>2. CASE p # None
    <3> DEFINE left == IF rows[p].max = None THEN None ELSE rows[p].max - rows[p].count
               e == Clamp(o.expires, rows[p].expires)
               m == Clamp(o.max, left)
    <3>1. rows'[n] = [o EXCEPT !.expires = e, !.max = m]
      BY <1>3, <1>7, <2>2 DEF Attenuate
    <3>2. p \in DOMAIN rows
      BY <1>2, <2>2
    <3>3. o.max \in Int \cup {None} /\ left \in Int \cup {None}
      BY <1>4, <1>5, <3>2 DEF Row
    <3> HIDE DEF left
    <3>4. Within(m, o.max)
      BY <3>3, ClampIsWithin
    <3> HIDE DEF e, m
    <3> QED BY <1>4, <3>1, <3>4 DEF Row
  <2> QED BY <2>1, <2>2
<1>9. n \in Nat
  BY <1>5
<1>10. in \in Shares /\ session[s].start \in 0..clock /\ session[s].by \in Actors
  BY <1>2
<1>11. rows'[n].key = o.key
  BY InsertedRow DEF o
<1> HIDE DEF in, n
<1>12. /\ rows'[n].subject = in.subject /\ rows'[n].caps = in.caps
       /\ Within(rows'[n].max, in.max) /\ rows'[n].creator = session[s].by
       /\ rows'[n].key = StoredKey(in, session[s].start)
       /\ Keyed(StoredKey(in, session[s].start)) = {}
  BY <1>1, <1>3, <1>8, <1>11
<1> QED BY <1>1, <1>6, <1>9, <1>10, <1>12 DEF in, n

(* A share with a derived key was submitted without a key, to no link. *)
LEMMA DerivedKey ==
  ASSUME NEW in \in Shares, NEW now,
         StoredKey(in, now) # None, StoredKey(in, now).shape # None
  PROVE  /\ in.key = None /\ in.subject.type # "link"
         /\ StoredKey(in, now) =
              AutoKey(in, clock \div Window, Trail(in, clock \div Window, now))
<1>1. CASE in.key # None
  BY <1>1 DEF StoredKey, NamedKey
<1>2. CASE in.key = None /\ in.subject.type = "link"
  BY <1>2 DEF StoredKey
<1>3. CASE in.key = None /\ in.subject.type # "link"
  BY <1>3 DEF StoredKey
<1> QED BY <1>1, <1>2, <1>3

LEMMA KeysAreUniqueStep ==
  TypeOK /\ KeysAreUnique /\ [Next]_vars => KeysAreUnique'
<1> SUFFICES ASSUME TypeOK, KeysAreUnique, [Next]_vars,
                    NEW g \in DOMAIN rows', NEW h \in DOMAIN rows',
                    rows'[g].key # None, rows'[g].key = rows'[h].key
             PROVE  g = h
  BY DEF KeysAreUnique
<1>1. CASE g \in DOMAIN rows /\ h \in DOMAIN rows
  BY <1>1, KeysLast DEF KeysAreUnique
<1>2. CASE g \notin DOMAIN rows \/ h \notin DOMAIN rows
  <2>1. PICK s \in Sessions : InsertShare(s)
    BY <1>2, NewRows
  <2> DEFINE n == Len(rows) + 1
             k == StoredKey(session[s].in, session[s].start)
  <2>2. DOMAIN rows' = DOMAIN rows \cup {n} /\ rows'[n].key = k /\ Keyed(k) = {}
    BY <2>1, InsertedKey
  <2> HIDE DEF n, k
  <2>3. \A x \in DOMAIN rows : rows'[x].key # k \/ k = None
    BY <2>2, KeysLast DEF Keyed
  <2> QED BY <1>2, <2>2, <2>3
<1> QED BY <1>1, <1>2

LEMMA KeysAreDerivedStep ==
  TypeOK /\ KeysAreDerived /\ [Next]_vars => KeysAreDerived'
<1> SUFFICES ASSUME TypeOK, KeysAreDerived, [Next]_vars,
                    NEW g \in DOMAIN rows', Derived(g)'
             PROVE  DerivedFrom(g)' /\ AsAsked(g)'
  BY DEF KeysAreDerived
<1>0. /\ clock \in Nat /\ clock' \in Nat
      /\ clock \div Window \in Int /\ clock' \div Window \in Int
      /\ clock \div Window <= clock' \div Window
  BY ClockGrows, WindowsGrow DEF TypeOK
<1>d. DOMAIN rows \subseteq DOMAIN rows'
  BY RowsLast
<1>1. CASE g \in DOMAIN rows
  <2> DEFINE key == rows[g].key
  <2>1. rows'[g].key = key
    BY <1>1, KeysLast
  <2>2. Derived(g)
    BY <2>1 DEF Derived
  <2>3. DerivedFrom(g) /\ AsAsked(g)
    BY <1>1, <2>2 DEF KeysAreDerived
  <2>4. /\ key = AutoKey(key.shape, key.bucket, key.trail) /\ key.shape \in Shares
        /\ key.bucket \in Int /\ key.bucket <= clock \div Window
        /\ key.trail \in Seq(DOMAIN rows)
        /\ \A i \in 1..Len(key.trail) :
             rows[key.trail[i]].key = AutoKey(key.shape, key.bucket, Before(key.trail, i))
    BY <2>3 DEF DerivedFrom
  <2> HIDE DEF key
  <2>5. key.trail \in Seq(DOMAIN rows')
    BY <1>d, <2>4, SeqMonotonic
  <2>6. key.bucket <= clock' \div Window
    BY <1>0, <2>4
  <2>7. \A i \in 1..Len(key.trail) :
          rows'[key.trail[i]].key = AutoKey(key.shape, key.bucket, Before(key.trail, i))
    <3> TAKE i \in 1..Len(key.trail)
    <3>1. key.trail[i] \in DOMAIN rows
      BY <2>4, ElementOfSeq
    <3> QED BY <2>4, <3>1, KeysLast
  <2>8. DerivedFrom(g)'
    BY <2>1, <2>4, <2>5, <2>6, <2>7 DEF DerivedFrom, AutoKey
  <2>9. AsAsked(g)'
    BY <1>1, <2>1, <2>3, RowsLast DEF AsAsked, key
  <2> QED BY <2>8, <2>9
<1>2. CASE g \notin DOMAIN rows
  <2>1. PICK s \in Sessions : InsertShare(s) /\ g = Len(rows) + 1
    BY <1>2, NewRows
  <2> DEFINE in == session[s].in
             start == session[s].start
             b == clock \div Window
             t == Trail(in, b, start)
             key == rows'[g].key
  <2>2. /\ in \in Shares /\ clock' = clock
        /\ rows'[g].subject = in.subject /\ rows'[g].caps = in.caps
        /\ Within(rows'[g].max, in.max) /\ key = StoredKey(in, start)
    BY <2>1, InsertedKey
  <2>3. key = AutoKey(in, b, t)
    <3>1. StoredKey(in, start) # None /\ StoredKey(in, start).shape # None
      BY <2>2 DEF Derived
    <3> HIDE DEF in, start
    <3> QED BY <2>2, <3>1, DerivedKey
  <2>4. Walked(in, b, t, start)
    BY TrailWalks
  <2> HIDE DEF in, b, t, key, start
  <2>5. t \in Seq(DOMAIN rows) /\ \A i \in 1..Len(t) : t[i] \in Dying(in, b, Before(t, i), start)
    BY <2>4 DEF Walked
  <2>6. /\ key.shape = in /\ key.bucket = b /\ key.trail = t
    BY <2>3 DEF AutoKey
  <2>7. \A i \in 1..Len(t) : rows'[t[i]].key = AutoKey(in, b, Before(t, i))
    <3> TAKE i \in 1..Len(t)
    <3>1. t[i] \in Keyed(AutoKey(in, b, Before(t, i)))
      BY <2>5 DEF Dying
    <3>2. t[i] \in DOMAIN rows /\ rows[t[i]].key = AutoKey(in, b, Before(t, i))
      BY <3>1 DEF Keyed
    <3> QED BY <3>2, KeysLast
  <2>8. t \in Seq(DOMAIN rows')
    BY <1>d, <2>5, SeqMonotonic
  <2>9. b \in Int /\ b <= clock' \div Window
    BY <1>0, <2>2 DEF b
  <2>10. DerivedFrom(g)'
    BY <2>2, <2>3, <2>6, <2>7, <2>8, <2>9 DEF DerivedFrom, key
  <2>11. in.max \in (Nat \ {0}) \cup {None}
    BY <2>2, SharingAssumption
  <2>12. AsAsked(g)'
    BY <2>2, <2>6, <2>11 DEF AsAsked, key
  <2> QED BY <2>10, <2>12
<1> QED BY <1>1, <1>2

-----------------------------------------------------------------------------
(* Where the walk ends free, no grant of the same share and window is alive:
   each is on the walk, and what is on the walk is dead.                   *)
LEMMA NobodyElseIsAlive ==
  ASSUME TypeOK, KeysAreUnique, KeysAreDerived,
         NEW in \in Shares, NEW start \in 0..clock, NEW bucket \in Int,
         Keyed(AutoKey(in, bucket, Trail(in, bucket, start))) = {},
         NEW h \in DOMAIN rows, Derived(h),
         rows[h].key.shape = in, rows[h].key.bucket = bucket
  PROVE  ~KeyLive(rows[h], clock)
<1> DEFINE t == Trail(in, bucket, start)
           u == rows[h].key.trail
<1>1. Walked(in, bucket, t, start)
  BY TrailWalks
<1>k. Keyed(AutoKey(in, bucket, t)) = {}
  OBVIOUS
<1> HIDE DEF t
<1>2. /\ t \in Seq(DOMAIN rows)
      /\ \A i \in 1..Len(t) : t[i] \in Dying(in, bucket, Before(t, i), start)
  BY <1>1 DEF Walked
<1>3. /\ u \in Seq(DOMAIN rows) /\ rows[h].key = AutoKey(in, bucket, u)
      /\ \A i \in 1..Len(u) : rows[u[i]].key = AutoKey(in, bucket, Before(u, i))
  BY DEF KeysAreDerived, DerivedFrom
<1> HIDE DEF u
<1>4. \A i \in 1..Len(t) : rows[t[i]].key = AutoKey(in, bucket, Before(t, i))
  BY <1>2 DEF Dying, Keyed
<1>5. /\ Len(t) \in Nat /\ t \in [1..Len(t) -> DOMAIN rows]
      /\ Len(u) \in Nat /\ u \in [1..Len(u) -> DOMAIN rows]
  BY <1>2, <1>3, LenProperties
<1>6. ASSUME NEW i \in Nat \ {0}, i <= Len(t), i <= Len(u) PROVE t[i] = u[i]
  <2>1. IsATrail(in, bucket, t) /\ IsATrail(in, bucket, u)
    BY <1>2, <1>3, <1>4 DEF IsATrail
  <2> QED BY <1>6, <2>1, TrailsAgree
<1>7. \A x \in DOMAIN rows : \A v \in Seq(DOMAIN rows) :
        rows[x].key = AutoKey(in, bucket, v) => v # t
  <2>1. \A v \in Seq(DOMAIN rows) : AutoKey(in, bucket, v) # None
    BY AutoKeyIsAKey
  <2> QED BY <1>k, <2>1 DEF Keyed
<1>8. CASE Len(u) = Len(t)
  <2>1. \A i \in 1..Len(t) : t[i] = u[i]
    BY <1>5, <1>6, <1>8
  <2>2. u = t
    BY <1>2, <1>3, <1>8, <2>1, SeqEqual
  <2> QED BY <1>3, <1>7, <2>2
<1>9. CASE Len(u) > Len(t)
  <2> DEFINE i == Len(t) + 1
  <2>1. i \in 1..Len(u) /\ i \in 1..(Len(u) + 1) /\ i - 1 = Len(t)
    BY <1>5, <1>9
  <2>2. /\ Before(u, i) \in Seq(DOMAIN rows) /\ Len(Before(u, i)) = Len(t)
        /\ \A j \in 1..Len(t) : Before(u, i)[j] = u[j]
    <3> HIDE DEF i
    <3>1. u \in Seq(DOMAIN rows) /\ i \in 1..(Len(u) + 1)
      BY <1>3, <2>1
    <3>2. /\ Before(u, i) \in Seq(DOMAIN rows) /\ Len(Before(u, i)) = i - 1
          /\ \A j \in 1..(i-1) : Before(u, i)[j] = u[j]
      BY <3>1, BeforeIsSeq
    <3> QED BY <2>1, <3>2
  <2>3. \A j \in 1..Len(t) : Before(u, i)[j] = t[j]
    BY <1>5, <1>6, <1>9, <2>2
  <2>4. Before(u, i) = t
    BY <1>2, <2>2, <2>3, SeqEqual
  <2>5. u[i] \in DOMAIN rows /\ rows[u[i]].key = AutoKey(in, bucket, Before(u, i))
    BY <1>3, <1>5, <2>1
  <2> QED BY <1>7, <2>2, <2>4, <2>5
<1>10. CASE Len(u) < Len(t)
  <2> DEFINE i == Len(u) + 1
  <2>1. i \in 1..Len(t) /\ i \in 1..(Len(t) + 1) /\ i - 1 = Len(u)
    BY <1>5, <1>10
  <2>2. /\ Before(t, i) \in Seq(DOMAIN rows) /\ Len(Before(t, i)) = Len(u)
        /\ \A j \in 1..Len(u) : Before(t, i)[j] = t[j]
    <3> HIDE DEF i
    <3> QED BY <1>2, <2>1, BeforeIsSeq
  <2>3. \A j \in 1..Len(u) : Before(t, i)[j] = u[j]
    BY <1>5, <1>6, <1>10, <2>2
  <2>4. Before(t, i) = u
    BY <1>3, <2>2, <2>3, SeqEqual
  <2>5. t[i] \in Dying(in, bucket, u, start)
    BY <1>2, <2>1, <2>4
  <2>6. t[i] \in DOMAIN rows /\ rows[t[i]].key = rows[h].key /\ ~KeyLive(rows[t[i]], start)
    BY <1>3, <2>5 DEF Dying, Keyed
  <2>7. h = t[i]
    BY <2>6 DEF KeysAreUnique, Derived
  <2>8. start \in Nat /\ start <= clock /\ clock \in Nat
    BY DEF TypeOK
  <2> QED BY <2>6, <2>7, <2>8, LiveBefore
<1>11. Len(u) = Len(t) \/ Len(u) > Len(t) \/ Len(u) < Len(t)
  <2>1. \A i, j \in Nat : i = j \/ i > j \/ i < j
    OBVIOUS
  <2> QED BY <1>5, <2>1
<1> QED BY <1>8, <1>9, <1>10, <1>11

LEMMA OneLiveStep ==
  TypeOK /\ KeysAreUnique /\ KeysAreDerived /\ OneLivePerBucket /\ [Next]_vars
    => OneLivePerBucket'
<1> SUFFICES ASSUME TypeOK, KeysAreUnique, KeysAreDerived, OneLivePerBucket, [Next]_vars,
                    NEW g \in DOMAIN rows', NEW h \in DOMAIN rows', SameBucket(g, h)',
                    KeyLive(rows'[g], clock'), KeyLive(rows'[h], clock')
             PROVE  g = h
  BY DEF OneLivePerBucket
<1>1. CASE g \in DOMAIN rows /\ h \in DOMAIN rows
  <2>1. SameBucket(g, h)
    BY <1>1, KeysLast DEF SameBucket
  <2>2. KeyLive(rows[g], clock) /\ KeyLive(rows[h], clock)
    BY <1>1, LiveYesterday
  <2> QED BY <1>1, <2>1, <2>2 DEF OneLivePerBucket
<1>2. ASSUME NEW n \in DOMAIN rows', NEW x \in DOMAIN rows, SameBucket(n, x)',
             n \notin DOMAIN rows
      PROVE  ~KeyLive(rows'[x], clock')
  <2>1. PICK s \in Sessions : InsertShare(s) /\ n = Len(rows) + 1
    BY <1>2, NewRows
  <2> DEFINE in == session[s].in
             start == session[s].start
             b == clock \div Window
             k == StoredKey(in, start)
  <2>2. in \in Shares /\ start \in 0..clock /\ rows'[n].key = k /\ Keyed(k) = {}
    BY <2>1, InsertedKey
  <2>3. rows'[x].key = rows[x].key
    BY KeysLast
  <2>4. /\ k # None /\ k.shape # None /\ Derived(x)
        /\ rows[x].key.shape = k.shape /\ rows[x].key.bucket = k.bucket
    BY <1>2, <2>2, <2>3 DEF SameBucket, Derived
  <2>5. k = AutoKey(in, b, Trail(in, b, start))
    <3> HIDE DEF in, start
    <3> QED BY <2>2, <2>4, DerivedKey
  <2>6. k.shape = in /\ k.bucket = b
    BY <2>5 DEF AutoKey
  <2>7. b \in Int
    BY WindowsGrow DEF TypeOK
  <2> HIDE DEF in, start, b, k
  <2>8. ~KeyLive(rows[x], clock)
    BY <2>2, <2>4, <2>5, <2>6, <2>7, NobodyElseIsAlive
  <2> QED BY <2>8, LiveYesterday
<1>3. SameBucket(h, g)'
  BY DEF SameBucket
<1>4. CASE g \notin DOMAIN rows /\ h \notin DOMAIN rows
  BY <1>4, NewRows
<1> QED BY <1>1, <1>2, <1>3, <1>4

(* Two grants of one share from neighbouring windows, where the later window
   is never ahead of the clock.                                            *)
LEMMA TwiceStep ==
  TypeOK /\ KeysAreDerived /\ KeysAreDerived' /\ TwiceOnlyAroundADeadGrant /\ [Next]_vars
    => TwiceOnlyAroundADeadGrant'
<1> SUFFICES ASSUME TypeOK, KeysAreDerived, KeysAreDerived',
                    TwiceOnlyAroundADeadGrant, [Next]_vars,
                    NEW g \in DOMAIN rows', NEW h \in DOMAIN rows',
                    rows'[g].key # None, rows'[h].key # None,
                    rows'[g].key.shape # None, rows'[g].key.shape = rows'[h].key.shape,
                    rows'[h].key.bucket = rows'[g].key.bucket + 1,
                    KeyLive(rows'[g], clock'), KeyLive(rows'[h], clock')
             PROVE  rows'[g].key.trail # <<>>
  BY DEF TwiceOnlyAroundADeadGrant
<1>0. clock \in Nat /\ clock \div Window \in Int
  BY WindowsGrow DEF TypeOK
<1>1. CASE g \in DOMAIN rows /\ h \in DOMAIN rows
  <2>1. rows'[g].key = rows[g].key /\ rows'[h].key = rows[h].key
    BY <1>1, KeysLast
  <2>2. KeyLive(rows[g], clock) /\ KeyLive(rows[h], clock)
    BY <1>1, LiveYesterday
  <2> QED BY <1>1, <2>1, <2>2 DEF TwiceOnlyAroundADeadGrant
<1>d. Derived(g)' /\ Derived(h)' /\ DerivedFrom(g)' /\ DerivedFrom(h)'
  BY DEF KeysAreDerived, Derived
<1>b. rows'[g].key.bucket \in Int /\ rows'[h].key.bucket \in Int
  BY <1>d DEF DerivedFrom
<1>2. ASSUME NEW x \in DOMAIN rows', x \notin DOMAIN rows, Derived(x)'
      PROVE  \E s \in Sessions :
               LET in == session[s].in
               IN  /\ x = Len(rows) + 1 /\ clock' = clock
                   /\ in.key = None /\ in.subject.type # "link"
                   /\ rows'[x].key.shape = in
                   /\ rows'[x].key.bucket = clock \div Window
                   /\ PreviousGrant(in, session[s].start) = {}
                   /\ session[s].start \in 0..clock
  <2>1. PICK s \in Sessions : InsertShare(s) /\ x = Len(rows) + 1
    BY <1>2, NewRows
  <2> DEFINE in == session[s].in
             start == session[s].start
             b == clock \div Window
             k == StoredKey(in, start)
  <2>2. /\ in \in Shares /\ rows'[x].key = k /\ PreviousGrant(in, start) = {}
        /\ start \in 0..clock /\ clock' = clock
    BY <2>1, InsertedKey
  <2>3. k # None /\ k.shape # None
    BY <1>2, <2>2 DEF Derived
  <2>4. in.key = None /\ in.subject.type # "link" /\ k = AutoKey(in, b, Trail(in, b, start))
    <3> HIDE DEF in, start
    <3> QED BY <2>2, <2>3, DerivedKey
  <2>5. k.shape = in /\ k.bucket = b
    BY <2>4 DEF AutoKey
  <2> HIDE DEF k
  <2> QED BY <2>1, <2>2, <2>4, <2>5
<1>3. CASE g \in DOMAIN rows /\ h \notin DOMAIN rows
  <2>1. PICK s \in Sessions :
           /\ session[s].in.key = None /\ session[s].in.subject.type # "link"
           /\ rows'[h].key.shape = session[s].in
           /\ rows'[h].key.bucket = clock \div Window
           /\ PreviousGrant(session[s].in, session[s].start) = {}
           /\ session[s].start \in 0..clock
    BY <1>2, <1>3, <1>d
  <2> DEFINE in == session[s].in
             start == session[s].start
             b == (clock \div Window) - 1
  <2>2. rows'[g].key = rows[g].key /\ KeyLive(rows[g], clock)
    BY <1>3, KeysLast, LiveYesterday
  <2>3. rows[g].key.bucket = b
    BY <1>0, <1>b, <2>1, <2>2
  <2>4. rows[g].key = AutoKey(in, b, rows[g].key.trail)
    BY <1>d, <2>1, <2>2, <2>3 DEF DerivedFrom, AutoKey
  <2>5. start \in Nat /\ start <= clock
    BY <1>0, <2>1
  <2>6. KeyLive(rows[g], start)
    BY <1>0, <1>3, <2>2, <2>5, LiveBefore
  <2>7. g \notin Keyed(AutoKey(in, b, <<>>))
    BY <2>1, <2>6 DEF PreviousGrant
  <2>8. ASSUME rows[g].key.trail = <<>> PROVE FALSE
    BY <1>3, <2>2, <2>4, <2>7, <2>8 DEF Keyed
  <2> QED BY <2>2, <2>8
<1>4. CASE g \notin DOMAIN rows
  <2>1. rows'[g].key.bucket = clock \div Window /\ clock' = clock
    BY <1>2, <1>4, <1>d
  <2>2. rows'[h].key.bucket <= clock' \div Window
    BY <1>d DEF DerivedFrom
  <2> QED BY <1>0, <1>b, <2>1, <2>2
<1> QED BY <1>1, <1>3, <1>4

-----------------------------------------------------------------------------
(* What the keys are good for. *)
KInv == TypeOK /\ KeysAreUnique /\ KeysAreDerived /\ OneGrantPerShare

LEMMA KeysHold == Spec => []KInv
<1>1. Init => KInv
  <2> SUFFICES ASSUME Init PROVE KeysAreUnique /\ KeysAreDerived /\ OneGrantPerShare
    BY TypeCorrectInit DEF KInv
  <2> QED BY DEF Init, KeysAreUnique, KeysAreDerived, OneGrantPerShare, OneLivePerBucket,
                 TwiceOnlyAroundADeadGrant
<1>2. KInv /\ [Next]_vars => KInv'
  <2> SUFFICES ASSUME KInv, [Next]_vars PROVE KInv'
    OBVIOUS
  <2>1. TypeOK /\ KeysAreUnique /\ KeysAreDerived /\ OneLivePerBucket
        /\ TwiceOnlyAroundADeadGrant
    BY DEF KInv, OneGrantPerShare
  <2>2. TypeOK' /\ KeysAreUnique' /\ KeysAreDerived'
    BY <2>1, TypeCorrectStep, KeysAreUniqueStep, KeysAreDerivedStep
  <2>3. OneLivePerBucket' /\ TwiceOnlyAroundADeadGrant'
    BY <2>1, <2>2, OneLiveStep, TwiceStep
  <2> QED BY <2>2, <2>3 DEF KInv, OneGrantPerShare
<1> QED BY <1>1, <1>2, PTL DEF Spec

(* However often and whenever a share is submitted, and whatever is revoked
   or expires in between: one live grant of it per window, and one more from
   the window before only around a dead one.                               *)
THEOREM OneGrantPerShareHolds == Spec => []OneGrantPerShare
<1>1. KInv => OneGrantPerShare
  BY DEF KInv
<1> QED BY <1>1, KeysHold, PTL

LEMMA TwinsShareOneCap ==
  KInv /\ BudgetIsShared => RetriesShareOneCap
<1> SUFFICES ASSUME KInv, BudgetIsShared, NEW g \in DOMAIN rows,
                    SameBucket(g, g), rows[g].key.shape.max # None
             PROVE  LET twins == {h \in DOMAIN rows :
                                    /\ SameBucket(g, h) /\ ~rows[h].revoked
                                    /\ rows[h].expires = None \/ rows[h].expires > clock}
                    IN  Cardinality(UNION {Drawn(h) : h \in twins}) <= rows[g].key.shape.max
  BY DEF RetriesShareOneCap
<1>0. TypeOK /\ KeysAreDerived /\ OneLivePerBucket
  BY DEF KInv, OneGrantPerShare
<1> DEFINE cap == rows[g].key.shape.max
           twins == {h \in DOMAIN rows :
                       /\ SameBucket(g, h) /\ ~rows[h].revoked
                       /\ rows[h].expires = None \/ rows[h].expires > clock}
<1>1. \A h \in twins : SameBucket(g, h) /\ KeyLive(rows[h], clock) /\ h \in DOMAIN rows
  BY DEF KeyLive
<1>2. \A h, k \in twins : h = k
  BY <1>0, <1>1 DEF OneLivePerBucket, SameBucket
<1>3. cap \in Nat
  BY <1>0 DEF SameBucket, KeysAreDerived, Derived, AsAsked
<1> HIDE DEF twins
<1>4. CASE twins = {}
  <2>1. UNION {Drawn(h) : h \in twins} = {}
    BY <1>4
  <2>2. Cardinality(UNION {Drawn(h) : h \in twins}) = 0
    BY <2>1, FS_EmptySet
  <2> HIDE DEF cap
  <2>3. Cardinality(UNION {Drawn(h) : h \in twins}) <= cap
    BY <1>3, <2>2
  <2> QED BY <2>3 DEF cap, twins
<1>5. CASE twins # {}
  <2>1. PICK h \in twins : TRUE
    BY <1>5
  <2>2. UNION {Drawn(x) : x \in twins} = Drawn(h)
    BY <1>2, <2>1
  <2>3. /\ h \in DOMAIN rows /\ Derived(h) /\ rows[h].key.shape = rows[g].key.shape
    BY <1>1, <2>1 DEF SameBucket, Derived
  <2>4. AsAsked(h)
    BY <1>0, <2>3 DEF KeysAreDerived
  <2>5. rows[h].max # None /\ rows[h].max <= cap
    BY <2>3, <2>4 DEF AsAsked, Within
  <2>6. Cardinality(Drawn(h)) <= rows[h].max
    BY <2>3, <2>5 DEF BudgetIsShared
  <2>7. Cardinality(Drawn(h)) \in Nat
    BY <1>0, DrawnIsFinite
  <2>8. rows[h].max \in Nat \cup {None}
    BY <1>0, <2>3, Table DEF Row
  <2> HIDE DEF cap
  <2>9. Cardinality(Drawn(h)) <= cap
    BY <1>3, <2>5, <2>6, <2>7, <2>8
  <2>10. Cardinality(UNION {Drawn(x) : x \in twins}) <= cap
    BY <2>2, <2>9
  <2> QED BY <2>10 DEF cap, twins
<1> QED BY <1>4, <1>5

(* Asking again does not refill a cap. *)
THEOREM RetriesAreWithinTheCap == Spec => []RetriesShareOneCap
<1>1. KInv /\ BudgetIsShared => RetriesShareOneCap
  BY TwinsShareOneCap
<1> QED BY <1>1, KeysHold, BudgetHolds, PTL

-----------------------------------------------------------------------------
(* Answers.  Every step sets the answer or clears it. *)
LEMMA Answers ==
  ASSUME [Next]_vars
  PROVE  \/ reply' = None
         \/ UNCHANGED <<rows, reply>>
         \/ \E s \in Sessions : AnswerPrevious(s) \/ ReplayShare(s) \/ InsertShare(s)
         \/ \E s \in Sessions : SettleUnshare(s)
<1>1. ASSUME NEW s \in Sessions, Begin(s) PROVE reply' = None
  BY <1>1 DEF Begin, BeginRead, BeginShare, BeginRevoke, BeginUnshare, Open
<1>2. ASSUME NEW s \in Sessions, Reserve(s) \/ RefuseRead(s) \/ RefuseShare(s) \/ SettleRevoke(s)
      PROVE  reply' = None
  BY <1>2 DEF Reserve, RefuseRead, RefuseShare, SettleRevoke
<1>3. ASSUME NEW a \in Actors, DeleteFile(a) PROVE reply' = None
  BY <1>3 DEF DeleteFile
<1>4. ASSUME NEW x \in Suspendable, Suspend(x) \/ Restore(x) PROVE reply' = None
  BY <1>4 DEF Suspend, Restore
<1>5. ASSUME NEW c \in RoleChanges, ChangeRole(c[1], c[2], c[3]) PROVE reply' = None
  BY <1>5 DEF ChangeRole
<1>6. Tick => reply' = None
  BY DEF Tick
<1>7. UNCHANGED vars => UNCHANGED <<rows, reply>>
  BY DEF vars
<1> QED BY <1>1, <1>2, <1>3, <1>4, <1>5, <1>6, <1>7 DEF Next, Settle

(* A grant that holds the key of a share is to the subject of the share, and
   of its capabilities, when the key is derived.                           *)
LEMMA KeyTellsTheShare ==
  ASSUME KInv, NEW in \in Shares, NEW b \in Int, NEW t \in Seq(DOMAIN rows),
         NEW g \in Keyed(AutoKey(in, b, t))
  PROVE  /\ g \in DOMAIN rows /\ rows[g].key = AutoKey(in, b, t)
         /\ rows[g].subject = in.subject /\ rows[g].caps = in.caps
<1>1. /\ g \in DOMAIN rows /\ rows[g].key = AutoKey(in, b, t) /\ rows[g].key # None
  BY DEF Keyed
<1>2. rows[g].key.shape = in
  BY <1>1 DEF AutoKey
<1>3. AsAsked(g)
  BY <1>1, <1>2, SharingAssumption DEF KInv, KeysAreDerived, Derived
<1> QED BY <1>1, <1>2, <1>3 DEF AsAsked

LEMMA AnswersStep == KInv /\ AnswersAreTrue /\ [Next]_vars => AnswersAreTrue'
<1> SUFFICES ASSUME KInv, AnswersAreTrue, [Next]_vars PROVE AnswersAreTrue'
  OBVIOUS
<1>0. TypeOK /\ clock \in Nat
  BY DEF KInv, TypeOK
<1>1. CASE reply' = None
  BY <1>1 DEF AnswersAreTrue, AnswersTheRequest, NeverAnswersRevoked, DerivedAnswer
<1>2. CASE UNCHANGED <<rows, reply>>
  BY <1>2 DEF AnswersAreTrue, AnswersTheRequest, NeverAnswersRevoked, DerivedAnswer
<1>r. ASSUME NEW s \in Sessions, session[s].op = "share"
      PROVE  session[s].in \in Shares
  BY <1>0, <1>r DEF TypeOK, Request, Idle
<1>3. ASSUME NEW s \in Sessions, AnswerPrevious(s) PROVE AnswersAreTrue'
  <2> DEFINE in == session[s].in
             b == (clock \div Window) - 1
  <2>1. PICK g \in PreviousGrant(in, session[s].start) :
          reply' = [op |-> "share", grant |-> g, in |-> in]
    BY <1>3 DEF AnswerPrevious
  <2>2. in \in Shares /\ rows' = rows
    BY <1>3, <1>r DEF AnswerPrevious, Settling
  <2> DEFINE nothing == <<>>
  <2>3. /\ g \in Keyed(AutoKey(in, b, nothing)) /\ KeyLive(rows[g], session[s].start)
    BY <2>1 DEF PreviousGrant
  <2>4. b \in Int /\ nothing \in Seq(DOMAIN rows)
    BY <1>0, WindowsGrow, EmptySeq
  <2> HIDE DEF b, nothing, in
  <2>5. rows[g].subject = in.subject /\ rows[g].caps = in.caps
    BY <2>2, <2>3, <2>4, KeyTellsTheShare
  <2>6. ~rows[g].revoked
    BY <2>3 DEF KeyLive
  <2> QED BY <2>1, <2>2, <2>5, <2>6
          DEF AnswersAreTrue, AnswersTheRequest, NeverAnswersRevoked
<1>4. ASSUME NEW s \in Sessions, ReplayShare(s) PROVE AnswersAreTrue'
  <2> DEFINE in == session[s].in
             start == session[s].start
             k == StoredKey(in, start)
             b == clock \div Window
             t == Trail(in, b, start)
  <2>1. PICK g \in Keyed(k) :
          reply' = IF rows[g].subject = in.subject /\ rows[g].caps = in.caps
                   THEN [op |-> "share", grant |-> g, in |-> in] ELSE None
    BY <1>4 DEF ReplayShare, Offered
  <2>2. in \in Shares /\ rows' = rows
    BY <1>4, <1>r DEF ReplayShare, Settling
  <2>3. ASSUME reply' # None, in.key = None, in.subject.type # "link", rows[g].revoked
        PROVE  Len(rows[g].key.trail) = StepAround
    <3>1. k = AutoKey(in, b, t)
      BY <2>3 DEF StoredKey
    <3>2. Walked(in, b, t, start)
      BY TrailWalks
    <3> HIDE DEF in, start, b, t
    <3>3. g \in Dying(in, b, t, start)
      BY <2>1, <2>3, <3>1 DEF Dying, KeyLive
    <3>4. Len(t) <= StepAround /\ ~(Len(t) < StepAround) /\ Len(t) \in Nat
      BY <3>2, <3>3, LenProperties DEF Walked
    <3>5. rows[g].key = AutoKey(in, b, t)
      BY <2>1, <3>1 DEF Keyed
    <3>6. rows[g].key.trail = t
      BY <3>5 DEF AutoKey
    <3>7. StepAround \in Nat
      BY SharingAssumption
    <3> QED BY <3>4, <3>6, <3>7
  <2> HIDE DEF in, k
  <2>4. reply' # None => /\ reply' = [op |-> "share", grant |-> g, in |-> in]
                         /\ rows[g].subject = in.subject /\ rows[g].caps = in.caps
    BY <2>1
  <2> QED BY <2>2, <2>3, <2>4
          DEF AnswersAreTrue, AnswersTheRequest, NeverAnswersRevoked, DerivedAnswer
<1>5. ASSUME NEW s \in Sessions, InsertShare(s) PROVE AnswersAreTrue'
  <2> DEFINE in == session[s].in
             n == Len(rows) + 1
  <2>1. reply' = [op |-> "share", grant |-> n, in |-> in]
    BY <1>5 DEF InsertShare
  <2>2. rows'[n].subject = in.subject /\ rows'[n].caps = in.caps
    BY <1>0, <1>5, InsertedKey
  <2>3. ~rows'[n].revoked
    BY <1>0, <1>5, InsertedRow
  <2> HIDE DEF in, n
  <2> QED BY <2>1, <2>2, <2>3
          DEF AnswersAreTrue, AnswersTheRequest, NeverAnswersRevoked
<1>6. ASSUME NEW s \in Sessions, SettleUnshare(s) PROVE AnswersAreTrue'
  <2>1. reply'.op = "unshare"
    BY <1>6 DEF SettleUnshare
  <2> QED BY <2>1
          DEF AnswersAreTrue, AnswersTheRequest, NeverAnswersRevoked, DerivedAnswer
<1> QED BY <1>1, <1>2, <1>3, <1>4, <1>5, <1>6, Answers

(* A repeated share is answered with a grant of what it asked for, and with a
   revoked one only where the walk around dead grants has come to its end. *)
THEOREM AnswersHold == Spec => []AnswersAreTrue
<1>1. Init => AnswersAreTrue
  BY DEF Init, AnswersAreTrue, AnswersTheRequest, NeverAnswersRevoked, DerivedAnswer
<1>2. KInv /\ AnswersAreTrue /\ [Next]_vars => AnswersAreTrue'
  BY AnswersStep
<1> QED BY <1>1, <1>2, KeysHold, PTL DEF Spec
=============================================================================
