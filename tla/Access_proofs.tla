---------------------------- MODULE Access_proofs ----------------------------
(***************************************************************************)
(* Proofs about who gets to read and for how long: deliveries of a capped  *)
(* grant, redirects after a revocation, streams that are let go of, and    *)
(* unsharing, of MCServices.                                               *)
(***************************************************************************)
EXTENDS Objects_proofs

-----------------------------------------------------------------------------
(* Delivery.  Wire and Copy differ in the values of the constants; an action
   of one is an action of the other, so the steps are proved once, for any set
   R of requests.                                                           *)

Fields == {"pull", "head", "byGrant", "mode", "stage", "raw", "range", "reserved", "status",
           "lo", "hi", "sent", "open", "there"}

IsRequest(k) == k = [f \in Fields |-> k[f]]

AllRaws ==
  {[form |-> "none"]}
  \cup [form : {"suffix"}, n : Nat]
  \cup [form : {"from"}, a : Nat]
  \cup [form : {"between"}, a : Nat, b : Nat]

DeliveryType ==
  /\ clock \in Nat
  /\ grant \in [via : {"actor", "anonymous"}, cap : Nat \cup {None}, used : Nat,
                revoked : Nat \cup {None}]
  /\ grant.revoked # None => grant.revoked <= clock
  /\ grant.cap # None => grant.used <= grant.cap
  /\ object \in [there : BOOLEAN, size : 0..MaxSafe]
  /\ config # None => config.ttl \in Nat /\ config.ttl <= MaxTtl

(* What a grant delivers it has been charged for, before it was revoked; and
   under a cap the whole object is what is delivered.                       *)
IsCharged(k) ==
  /\ k.stage \in {"decide", "reserve"} => k.reserved = None /\ k.status = None
  /\ k.reserved # None =>
       /\ k.reserved \in Nat /\ k.reserved <= clock
       /\ k.byGrant /\ grant.revoked # None => k.reserved <= grant.revoked
  /\ k.byGrant /\ (k.stage \in {"fetch", "which"} \/ k.status \in {200, 206, 302})
     => k.reserved # None
  /\ k.byGrant /\ grant.cap # None =>
       k.status # 206 /\ (k.stage \in {"fetch", "which"} => k.range = None)

(* The range in hand is what the header says, or the bytes a suffix stands for. *)
RangeInHand(k) ==
  \/ k.range = None
  \/ k.range = Wire!ParseRange(k.raw)
  \/ /\ k.raw.form = "suffix" /\ k.raw.n # 0 /\ object.size # 0
     /\ k.range = [start |-> Wire!LargerOf(0, object.size - k.raw.n), end |-> object.size - 1]

IsHonest(k) ==
  /\ k.raw \in AllRaws
  /\ k.stage \in {"decide", "reserve", "fetch", "which"} => k.status = None /\ RangeInHand(k)
  /\ k.stage = "which" => /\ k.range # None /\ ~Wire!IsSuffix(k.range)
                          /\ object.there => ~Wire!Satisfiable(k.range)
  /\ k.status = 206 => k.lo..k.hi = Wire!BytesNamed(k.raw, object.size) /\ k.lo <= k.hi
  /\ k.status = 200 => k.lo..k.hi = 0..(object.size - 1)
  /\ k.status = 416 => /\ Wire!BytesNamed(k.raw, object.size) = {}
                       /\ k.raw.form = "between" => k.raw.a <= k.raw.b

RequestsHold(R) ==
  /\ req = [q \in R |-> req[q]]
  /\ \A q \in R : req[q].stage # "new" => IsRequest(req[q]) /\ IsCharged(req[q]) /\ IsHonest(req[q])

Charged(R) == {q \in R : req[q].stage # "new" /\ req[q].byGrant /\ req[q].reserved # None}

Counted(R) == IsFiniteSet(Charged(R)) /\ Cardinality(Charged(R)) <= grant.used

UrlsHold ==
  \A u \in urls :
    /\ u \in [signed : Nat, expires : Nat, ttl : Nat, cacheable : BOOLEAN, fresh : Nat \cup {None}]
    /\ config # None /\ u.ttl = config.ttl /\ u.expires = u.signed + u.ttl
    /\ u.signed <= clock
    /\ grant.revoked # None => u.signed <= grant.revoked

DeliveryInv(R) == DeliveryType /\ RequestsHold(R) /\ Counted(R) /\ UrlsHold

LEMMA DeliveryFits ==
  /\ MaxSafe \in Nat /\ None \notin Nat /\ WireSizes \subseteq 0..MaxSafe
  /\ Caps \subseteq Nat \cup {None} /\ WireNumbers \subseteq Nat
  /\ TtlsAskedFor \subseteq Nat \ {0} /\ MaxTtl \in Nat \ {0}
  /\ WireAsks \subseteq Wire!AllAsks
BY ConstantsFit DEF Wire!DeliveryConstants

(* A header that is taken names the bytes that are opened, and none when there
   is nothing to open for it.                                               *)
LEMMA OpensWhatIsNamed ==
  ASSUME NEW raw \in AllRaws, NEW r, object.size \in 0..MaxSafe,
         \/ r = Wire!ParseRange(raw)
         \/ /\ raw.form = "suffix" /\ raw.n # 0 /\ object.size # 0
            /\ r = [start |-> Wire!LargerOf(0, object.size - raw.n), end |-> object.size - 1],
         r # None, ~Wire!IsSuffix(r)
  PROVE  /\ Wire!Satisfiable(r) =>
              /\ Wire!FirstByte(r)..Wire!LastByte(r) = Wire!BytesNamed(raw, object.size)
              /\ Wire!FirstByte(r) <= Wire!LastByte(r)
         /\ ~Wire!Satisfiable(r) =>
              /\ Wire!BytesNamed(raw, object.size) = {}
              /\ raw.form = "between" => raw.a <= raw.b
<1>. USE DEF Wire!Satisfiable, Wire!FirstByte, Wire!LastByte, Wire!SmallerOf, Wire!LargerOf, Wire!From
<1>1. None \notin Nat /\ MaxSafe \in Nat
  BY DeliveryFits
<1>2. CASE raw.form = "none"
  BY <1>1, <1>2 DEF Wire!ParseRange, AllRaws
<1>3. CASE raw.form = "suffix"
  <2>1. raw.n \in Nat
    BY <1>3 DEF AllRaws
  <2>2. /\ raw.n # 0 /\ object.size # 0
        /\ r = [start |-> Wire!LargerOf(0, object.size - raw.n), end |-> object.size - 1]
    BY <1>1, <1>3, <2>1 DEF Wire!ParseRange, Wire!IsSuffix
  <2>3. Wire!FirstByte(r) = Wire!LargerOf(0, object.size - raw.n) /\ Wire!LastByte(r) = object.size - 1
    BY <1>1, <2>1, <2>2
  <2>4. Wire!BytesNamed(raw, object.size) = {i \in 0..(object.size - 1) : i >= object.size - raw.n}
    BY <1>3 DEF Wire!BytesNamed
  <2>. QED
    BY <1>3, <2>1, <2>2, <2>3, <2>4
<1>4. CASE raw.form = "from"
  <2>1. raw.a \in Nat
    BY <1>4 DEF AllRaws
  <2>2. r = [start |-> raw.a, end |-> None]
    BY <1>1, <1>4, <2>1 DEF Wire!ParseRange
  <2>3. Wire!FirstByte(r) = raw.a /\ Wire!LastByte(r) = object.size - 1
    BY <1>1, <2>1, <2>2
  <2>4. Wire!BytesNamed(raw, object.size) = {i \in 0..(object.size - 1) : i >= raw.a}
    BY <1>4 DEF Wire!BytesNamed
  <2>. QED
    BY <1>4, <2>1, <2>2, <2>3, <2>4
<1>5. CASE raw.form = "between"
  <2>1. raw.a \in Nat /\ raw.b \in Nat
    BY <1>5 DEF AllRaws
  <2>2. Wire!BytesNamed(raw, object.size) = {i \in 0..(object.size - 1) : raw.a <= i /\ i <= raw.b}
    BY <1>5 DEF Wire!BytesNamed
  <2>3. raw.a <= MaxSafe
    BY <1>1, <1>5, <2>1 DEF Wire!ParseRange
  <2>4. raw.a <= raw.b
    BY <1>1, <1>5, <2>1, <2>3 DEF Wire!ParseRange
  <2>5. CASE raw.b > MaxSafe
    <3>1. r = [start |-> raw.a, end |-> None]
      BY <1>5, <2>3, <2>5 DEF Wire!ParseRange
    <3>2. Wire!FirstByte(r) = raw.a /\ Wire!LastByte(r) = object.size - 1
      BY <3>1
    <3>3. object.size - 1 < raw.b
      BY <1>1, <2>1, <2>5, DeliveryFits
    <3>. QED
      BY <2>1, <2>2, <2>4, <3>2, <3>3
  <2>6. CASE raw.b <= MaxSafe
    <3>1. r = [start |-> raw.a, end |-> raw.b]
      BY <1>1, <1>5, <2>1, <2>3, <2>4, <2>6 DEF Wire!ParseRange
    <3>2. /\ Wire!FirstByte(r) = raw.a
          /\ Wire!LastByte(r) = IF raw.b < object.size - 1 THEN raw.b ELSE object.size - 1
      BY <1>1, <2>1, <3>1
    <3>. QED
      BY <2>1, <2>2, <2>4, <3>2
  <2>. QED
    BY <1>1, <2>1, <2>5, <2>6
<1>. QED
  BY <1>2, <1>3, <1>4, <1>5 DEF AllRaws

(* One request moves, and is charged for as much as before. *)
LEMMA RequestMoves ==
  ASSUME NEW R, NEW q \in R, DeliveryInv(R), UNCHANGED <<clock, grant, object, config, urls>>,
         req' = [req EXCEPT ![q] = req'[q]],
         req'[q].stage # "new",
         IsRequest(req'[q]), IsCharged(req'[q]), IsHonest(req'[q]),
         q \in Charged(R) <=> req'[q].byGrant /\ req'[q].reserved # None
  PROVE  DeliveryInv(R)'
<1>1. DeliveryType' /\ UrlsHold'
  BY DEF DeliveryInv, DeliveryType, UrlsHold
<1>2. \A p \in R : p # q => req'[p] = req[p]
  BY DEF DeliveryInv, RequestsHold
<1>3. RequestsHold(R)'
  <2>1. req' = [p \in R |-> req'[p]]
    BY DEF DeliveryInv, RequestsHold
  <2>2. ASSUME NEW p \in R, req'[p].stage # "new"
        PROVE  IsRequest(req'[p]) /\ IsCharged(req'[p]) /\ IsHonest(req'[p])
    BY <1>2, <2>2 DEF DeliveryInv, RequestsHold
  <2>3. ASSUME NEW p \in R, req'[p].stage # "new"
        PROVE  IsRequest(req[p])' /\ IsCharged(req[p])' /\ IsHonest(req[p])'
    BY <2>2, <2>3 DEF IsRequest, IsCharged, IsHonest, RangeInHand, Wire!Satisfiable, Wire!FirstByte,
       Wire!LastByte
  <2>. QED
    BY <2>1, <2>3 DEF RequestsHold
<1>4. Charged(R)' = Charged(R)
  BY <1>2 DEF Charged
<1>5. Counted(R)'
  BY <1>4 DEF DeliveryInv, Counted
<1>. QED
  BY <1>1, <1>3, <1>5 DEF DeliveryInv

LEMMA RequestAtHand ==
  ASSUME NEW R, NEW q \in R, DeliveryInv(R), req[q].stage # "new"
  PROVE  /\ IsRequest(req[q]) /\ IsCharged(req[q]) /\ IsHonest(req[q])
         /\ req = [p \in R |-> req[p]]
         /\ q \in Charged(R) <=> req[q].byGrant /\ req[q].reserved # None
         /\ clock \in Nat /\ object.size \in 0..MaxSafe
BY DeliveryFits DEF DeliveryInv, DeliveryType, RequestsHold, Charged

(* The copy of an object does not touch what was answered. *)
Carries(k, l) == \A f \in Fields \ {"stage", "sent", "open", "there"} : l[f] = k[f]

LEMMA CopyMoves ==
  ASSUME NEW R, NEW q \in R, DeliveryInv(R), UNCHANGED <<clock, grant, object, config, urls>>,
         req[q].stage # "new",
         req' = [req EXCEPT ![q] = req'[q]],
         IsRequest(req'[q]), Carries(req[q], req'[q]),
         \/ req'[q].stage = req[q].stage
         \/ /\ req[q].stage \in {"reading", "writing", "waiting"}
            /\ req'[q].stage \in {"reading", "writing", "waiting", "returned"}
  PROVE  DeliveryInv(R)'
<1>1. IsRequest(req[q]) /\ IsCharged(req[q]) /\ IsHonest(req[q])
      /\ (q \in Charged(R) <=> req[q].byGrant /\ req[q].reserved # None)
  BY RequestAtHand
<1>2. /\ req'[q].byGrant = req[q].byGrant /\ req'[q].raw = req[q].raw
      /\ req'[q].range = req[q].range /\ req'[q].reserved = req[q].reserved
      /\ req'[q].status = req[q].status /\ req'[q].lo = req[q].lo /\ req'[q].hi = req[q].hi
  BY DEF Carries, Fields
<1>3. IsCharged(req'[q])
  BY <1>1, <1>2 DEF IsCharged
<1>4. IsHonest(req'[q])
  BY <1>1, <1>2 DEF IsHonest, RangeInHand
<1>. QED
  BY <1>1, <1>2, <1>3, <1>4, RequestMoves

(* The steps of a copy under way. *)
LEMMA CopySteps ==
  ASSUME NEW R, NEW q \in R, DeliveryInv(R),
         \/ Wire!ReadChunk(q) \/ Wire!ReadFails(q) \/ Wire!WriteTakes(q) \/ Wire!WriteIsFull(q)
         \/ Wire!RuntimeCancels(q) \/ Wire!Drain(q) \/ Wire!ClientLeaves(q)
  PROVE  DeliveryInv(R)'
<1>. USE DEF Wire!Finishes, Wire!Cancelled
<1>1. req[q].stage # "new" /\ UNCHANGED <<clock, grant, object, config, urls>>
  BY DEF Wire!ReadChunk, Wire!ReadFails, Wire!WriteTakes, Wire!WriteIsFull, Wire!RuntimeCancels,
     Wire!Drain, Wire!ClientLeaves
<1>2. IsRequest(req[q]) /\ req = [p \in R |-> req[p]]
  BY <1>1, RequestAtHand
<1>3. ASSUME NEW l, req' = [req EXCEPT ![q] = l], IsRequest(l), Carries(req[q], l),
             \/ l.stage = req[q].stage
             \/ /\ req[q].stage \in {"reading", "writing", "waiting"}
                /\ l.stage \in {"reading", "writing", "waiting", "returned"}
      PROVE  DeliveryInv(R)'
  <2>1. req'[q] = l
    BY <1>2, <1>3
  <2>. QED
    BY <1>1, <1>3, <2>1, CopyMoves
<1>4. CASE Wire!ReadChunk(q) /\ req[q].sent = Wire!Length(req[q])
  <2>. DEFINE l == [req[q] EXCEPT !.stage = "returned",
                                  !.open = FALSE]
  <2>1. req' = [req EXCEPT ![q] = l]
    BY <1>2, <1>4 DEF Wire!ReadChunk
  <2>2. IsRequest(l) /\ Carries(req[q], l)
    BY <1>2 DEF IsRequest, Carries, Fields
  <2>3. \/ l.stage = req[q].stage
        \/ /\ req[q].stage \in {"reading", "writing", "waiting"}
           /\ l.stage \in {"reading", "writing", "waiting", "returned"}
    BY <1>2, <1>4 DEF Wire!ReadChunk, IsRequest, Fields
  <2>. HIDE DEF l
  <2>. QED
    BY <1>3, <2>1, <2>2, <2>3
<1>5. CASE Wire!ReadChunk(q) /\ req[q].sent # Wire!Length(req[q])
  <2>. DEFINE l == [req[q] EXCEPT !.stage = "writing", !.sent = req[q].sent + 1]
  <2>1. req' = [req EXCEPT ![q] = l]
    BY <1>2, <1>5 DEF Wire!ReadChunk
  <2>2. IsRequest(l) /\ Carries(req[q], l)
    BY <1>2 DEF IsRequest, Carries, Fields
  <2>3. \/ l.stage = req[q].stage
        \/ /\ req[q].stage \in {"reading", "writing", "waiting"}
           /\ l.stage \in {"reading", "writing", "waiting", "returned"}
    BY <1>2, <1>5 DEF Wire!ReadChunk, IsRequest, Fields
  <2>. HIDE DEF l
  <2>. QED
    BY <1>3, <2>1, <2>2, <2>3
<1>6. CASE Wire!ReadFails(q)
  <2>. DEFINE l == [req[q] EXCEPT !.stage = "returned", !.open = FALSE]
  <2>1. req' = [req EXCEPT ![q] = l]
    BY <1>2, <1>6 DEF Wire!ReadFails
  <2>2. IsRequest(l) /\ Carries(req[q], l)
    BY <1>2 DEF IsRequest, Carries, Fields
  <2>3. \/ l.stage = req[q].stage
        \/ /\ req[q].stage \in {"reading", "writing", "waiting"}
           /\ l.stage \in {"reading", "writing", "waiting", "returned"}
    BY <1>2, <1>6 DEF Wire!ReadFails, IsRequest, Fields
  <2>. HIDE DEF l
  <2>. QED
    BY <1>3, <2>1, <2>2, <2>3
<1>7. CASE Wire!WriteTakes(q) \/ Wire!Drain(q)
  <2>. DEFINE l == [req[q] EXCEPT !.stage = "reading"]
  <2>1. req' = [req EXCEPT ![q] = l]
    BY <1>2, <1>7 DEF Wire!WriteTakes, Wire!Drain
  <2>2. IsRequest(l) /\ Carries(req[q], l)
    BY <1>2 DEF IsRequest, Carries, Fields
  <2>3. \/ l.stage = req[q].stage
        \/ /\ req[q].stage \in {"reading", "writing", "waiting"}
           /\ l.stage \in {"reading", "writing", "waiting", "returned"}
    BY <1>2, <1>7 DEF Wire!WriteTakes, Wire!Drain, IsRequest, Fields
  <2>. HIDE DEF l
  <2>. QED
    BY <1>3, <2>1, <2>2, <2>3
<1>8. CASE Wire!WriteIsFull(q)
  <2>. DEFINE l == [req[q] EXCEPT !.stage = "waiting"]
  <2>1. req' = [req EXCEPT ![q] = l]
    BY <1>2, <1>8 DEF Wire!WriteIsFull
  <2>2. IsRequest(l) /\ Carries(req[q], l)
    BY <1>2 DEF IsRequest, Carries, Fields
  <2>3. \/ l.stage = req[q].stage
        \/ /\ req[q].stage \in {"reading", "writing", "waiting"}
           /\ l.stage \in {"reading", "writing", "waiting", "returned"}
    BY <1>2, <1>8 DEF Wire!WriteIsFull, IsRequest, Fields
  <2>. HIDE DEF l
  <2>. QED
    BY <1>3, <2>1, <2>2, <2>3
<1>9. CASE Wire!RuntimeCancels(q)
  <2>. DEFINE l == [req[q] EXCEPT !.stage = "returned", !.open = FALSE]
  <2>1. req' = [req EXCEPT ![q] = l]
    BY <1>2, <1>9 DEF Wire!RuntimeCancels
  <2>2. IsRequest(l) /\ Carries(req[q], l)
    BY <1>2 DEF IsRequest, Carries, Fields
  <2>3. \/ l.stage = req[q].stage
        \/ /\ req[q].stage \in {"reading", "writing", "waiting"}
           /\ l.stage \in {"reading", "writing", "waiting", "returned"}
    BY <1>2, <1>9 DEF Wire!RuntimeCancels, IsRequest, Fields
  <2>. HIDE DEF l
  <2>. QED
    BY <1>3, <2>1, <2>2, <2>3
<1>10. CASE Wire!ClientLeaves(q) /\ req[q].stage = "waiting"
  <2>. DEFINE l == [req[q] EXCEPT !.stage = "returned", !.open = FALSE, !.there = FALSE]
  <2>1. req' = [req EXCEPT ![q] = l]
    BY <1>2, <1>10 DEF Wire!ClientLeaves
  <2>2. IsRequest(l) /\ Carries(req[q], l)
    BY <1>2 DEF IsRequest, Carries, Fields
  <2>3. \/ l.stage = req[q].stage
        \/ /\ req[q].stage \in {"reading", "writing", "waiting"}
           /\ l.stage \in {"reading", "writing", "waiting", "returned"}
    BY <1>2, <1>10 DEF Wire!ClientLeaves, IsRequest, Fields
  <2>. HIDE DEF l
  <2>. QED
    BY <1>3, <2>1, <2>2, <2>3
<1>11. CASE Wire!ClientLeaves(q) /\ req[q].stage # "waiting"
  <2>. DEFINE l == [req[q] EXCEPT !.there = FALSE]
  <2>1. req' = [req EXCEPT ![q] = l]
    BY <1>2, <1>11 DEF Wire!ClientLeaves
  <2>2. IsRequest(l) /\ Carries(req[q], l)
    BY <1>2 DEF IsRequest, Carries, Fields
  <2>3. \/ l.stage = req[q].stage
        \/ /\ req[q].stage \in {"reading", "writing", "waiting"}
           /\ l.stage \in {"reading", "writing", "waiting", "returned"}
    BY <1>2, <1>11 DEF Wire!ClientLeaves, IsRequest, Fields
  <2>. HIDE DEF l
  <2>. QED
    BY <1>3, <2>1, <2>2, <2>3
<1>. QED
  BY <1>4, <1>5, <1>6, <1>7, <1>8, <1>9, <1>10, <1>11

(* A request comes: uncharged, with the range its header means. *)
LEMMA ArriveStep ==
  ASSUME NEW R, NEW q \in R, NEW ask \in Wire!AllAsks, NEW raw \in AllRaws,
         DeliveryInv(R), Wire!Arrive(q, ask, raw)
  PROVE  DeliveryInv(R)'
<1>. DEFINE k == [pull |-> ask.pull, head |-> ask.head, byGrant |-> ask.byGrant, mode |-> ask.mode,
                  stage |-> "decide", raw |-> raw, range |-> Wire!ParseRange(raw), reserved |-> None,
                  status |-> None, lo |-> 0, hi |-> -1, sent |-> 0, open |-> FALSE, there |-> TRUE]
<1>1. req = [p \in R |-> req[p]] /\ req[q].stage = "new"
  BY DEF DeliveryInv, RequestsHold, Wire!Arrive
<1>2. req' = [req EXCEPT ![q] = k] /\ UNCHANGED <<clock, grant, object, config, urls>>
  BY DEF Wire!Arrive
<1>3. req'[q] = k
  BY <1>1, <1>2
<1>4. /\ k.stage = "decide" /\ k.raw = raw /\ k.range = Wire!ParseRange(raw)
      /\ k.reserved = None /\ k.status = None /\ k.byGrant = ask.byGrant
  OBVIOUS
<1>5. IsRequest(k)
  BY DEF IsRequest, Fields
<1>. HIDE DEF k
<1>6. IsCharged(k) /\ IsHonest(k)
  BY <1>4, DeliveryFits DEF IsCharged, IsHonest, RangeInHand
<1>7. q \notin Charged(R)
  BY <1>1 DEF Charged
<1>. QED
  BY <1>1, <1>2, <1>3, <1>4, <1>5, <1>6, <1>7, RequestMoves

(* A request is answered and nothing of the object goes out. *)
LEMMA RepliesStep ==
  ASSUME NEW R, NEW q \in R, NEW status, DeliveryInv(R), req[q].stage # "new",
         req' = Wire!Replies(q, status), UNCHANGED <<clock, grant, object, config, urls>>,
         status \in {404, 416, 500},
         status = 416 =>
           /\ Wire!BytesNamed(req[q].raw, object.size) = {}
           /\ req[q].raw.form = "between" => req[q].raw.a <= req[q].raw.b
  PROVE  DeliveryInv(R)'
<1>1. /\ IsRequest(req[q]) /\ IsCharged(req[q]) /\ IsHonest(req[q])
      /\ req = [p \in R |-> req[p]]
      /\ q \in Charged(R) <=> req[q].byGrant /\ req[q].reserved # None
  BY RequestAtHand
<1>2. req'[q] = [req[q] EXCEPT !.stage = "returned", !.status = status]
  BY <1>1 DEF Wire!Replies
<1>3. /\ req'[q].stage = "returned" /\ req'[q].status = status
      /\ req'[q].byGrant = req[q].byGrant /\ req'[q].raw = req[q].raw
      /\ req'[q].range = req[q].range /\ req'[q].reserved = req[q].reserved
      /\ IsRequest(req'[q])
  <2>1. IsRequest(req[q])
    BY <1>1
  <2>2. IsRequest(req'[q])
    BY <1>2, <2>1, ZenonT(40) DEF IsRequest
  <2>3. req'[q].stage = "returned" /\ req'[q].status = status
    BY <1>2, <2>1 DEF IsRequest, Fields
  <2>. QED
    BY <1>2, <2>1, <2>2, <2>3 DEF IsRequest, Fields
<1>4. req' = [req EXCEPT ![q] = req'[q]]
  <2>1. req' = [p \in R |-> req'[p]]
    BY <1>1 DEF Wire!Replies
  <2>2. \A p \in R : p # q => req'[p] = req[p]
    BY <1>1 DEF Wire!Replies
  <2>. QED
    BY <1>1, <2>1, <2>2
<1>5. IsCharged(req'[q])
  BY <1>1, <1>3 DEF IsCharged
<1>6. IsHonest(req'[q])
  BY <1>1, <1>3 DEF IsHonest
<1>. QED
  BY <1>1, <1>3, <1>4, <1>5, <1>6, RequestMoves

LEMMA DecideStep ==
  ASSUME NEW R, NEW q \in R, DeliveryInv(R), Wire!Decide(q)
  PROVE  DeliveryInv(R)'
<1>1. req[q].stage = "decide" /\ UNCHANGED <<clock, grant, object, config, urls>>
  BY DEF Wire!Decide
<1>2. /\ IsRequest(req[q]) /\ IsCharged(req[q]) /\ IsHonest(req[q])
      /\ req = [p \in R |-> req[p]]
      /\ q \in Charged(R) <=> req[q].byGrant /\ req[q].reserved # None
  BY <1>1, RequestAtHand
<1>3. CASE req' = Wire!Replies(q, 404)
  BY <1>1, <1>3, RepliesStep
<1>4. CASE req' = [req EXCEPT ![q].stage = "reserve"]
  <2>1. req'[q] = [req[q] EXCEPT !.stage = "reserve"] /\ req' = [req EXCEPT ![q] = req'[q]]
    BY <1>2, <1>4
  <2>2. /\ req'[q].stage = "reserve" /\ req'[q].status = req[q].status
        /\ req'[q].byGrant = req[q].byGrant /\ req'[q].raw = req[q].raw
        /\ req'[q].range = req[q].range /\ req'[q].reserved = req[q].reserved
        /\ IsRequest(req'[q])
    BY <1>2, <2>1 DEF IsRequest, Fields
  <2>3. IsCharged(req'[q])
    BY <1>1, <1>2, <2>2, DeliveryFits DEF IsCharged
  <2>4. IsHonest(req'[q])
    BY <1>1, <1>2, <2>2, DeliveryFits DEF IsHonest, RangeInHand
  <2>. QED
    BY <1>1, <1>2, <2>1, <2>2, <2>3, <2>4, RequestMoves
<1>. QED
  BY <1>3, <1>4 DEF Wire!Decide

LEMMA ResolveSuffixStep ==
  ASSUME NEW R, NEW q \in R, DeliveryInv(R), Wire!ResolveSuffix(q)
  PROVE  DeliveryInv(R)'
<1>1. /\ req[q].stage = "fetch" /\ UNCHANGED <<clock, grant, object, config, urls>>
      /\ req[q].range # None /\ Wire!IsSuffix(req[q].range)
  BY DEF Wire!ResolveSuffix
<1>2. /\ IsRequest(req[q]) /\ IsCharged(req[q]) /\ IsHonest(req[q])
      /\ req = [p \in R |-> req[p]]
      /\ q \in Charged(R) <=> req[q].byGrant /\ req[q].reserved # None
      /\ object.size \in 0..MaxSafe
  BY <1>1, RequestAtHand
<1>3. /\ req[q].raw.form = "suffix" /\ req[q].raw.n \in Nat /\ req[q].raw.n # 0
      /\ req[q].range = [suffix |-> req[q].raw.n]
  <2>1. req[q].range = Wire!ParseRange(req[q].raw) /\ req[q].raw \in AllRaws
    BY <1>1, <1>2 DEF IsHonest, RangeInHand, Wire!IsSuffix
  <2>. QED
    BY <1>1, <2>1, DeliveryFits DEF AllRaws, Wire!ParseRange, Wire!IsSuffix, Wire!From
<1>4. CASE req' = Wire!Replies(q, 404)
  BY <1>1, <1>4, RepliesStep
<1>5. CASE object.size = 0 /\ req' = Wire!Replies(q, 416)
  <2>1. Wire!BytesNamed(req[q].raw, object.size) = {}
    BY <1>3, <1>5 DEF Wire!BytesNamed
  <2>. QED
    BY <1>1, <1>3, <1>5, <2>1, RepliesStep
<1>6. CASE /\ object.size # 0
           /\ req' = [req EXCEPT ![q].range =
                        [start |-> Wire!LargerOf(0, object.size - req[q].range.suffix),
                         end |-> object.size - 1]]
  <2>. DEFINE r == [start |-> Wire!LargerOf(0, object.size - req[q].raw.n), end |-> object.size - 1]
  <2>1. req' = [req EXCEPT ![q].range = r]
    BY <1>3, <1>6
  <2>. HIDE DEF r
  <2>2. req'[q] = [req[q] EXCEPT !.range = r] /\ req' = [req EXCEPT ![q] = req'[q]]
    BY <1>2, <2>1
  <2>3. /\ req'[q].stage = "fetch" /\ req'[q].status = req[q].status
        /\ req'[q].byGrant = req[q].byGrant /\ req'[q].raw = req[q].raw
        /\ req'[q].range = r /\ req'[q].reserved = req[q].reserved
        /\ IsRequest(req'[q])
    BY <1>1, <1>2, <2>2 DEF IsRequest, Fields
  <2>4. IsCharged(req'[q])
    BY <1>1, <1>2, <2>3, DeliveryFits DEF IsCharged
  <2>5. IsHonest(req'[q])
    <3>1. RangeInHand(req'[q])
      BY <1>3, <1>6, <2>3 DEF RangeInHand, r
    <3>. QED
      BY <1>1, <1>2, <2>3, <3>1, DeliveryFits DEF IsHonest
  <2>. QED
    BY <1>1, <1>2, <2>2, <2>3, <2>4, <2>5, RequestMoves
<1>. QED
  BY <1>4, <1>5, <1>6 DEF Wire!ResolveSuffix

LEMMA OpenObjectStep ==
  ASSUME NEW R, NEW q \in R, DeliveryInv(R), Wire!OpenObject(q)
  PROVE  DeliveryInv(R)'
<1>1. /\ req[q].stage = "fetch" /\ UNCHANGED <<clock, grant, object, config, urls>>
      /\ req[q].range # None => ~Wire!IsSuffix(req[q].range)
      /\ object.there /\ Wire!Satisfiable(req[q].range)
  BY DEF Wire!OpenObject
<1>2. /\ IsRequest(req[q]) /\ IsCharged(req[q]) /\ IsHonest(req[q])
      /\ req = [p \in R |-> req[p]]
      /\ q \in Charged(R) <=> req[q].byGrant /\ req[q].reserved # None
      /\ object.size \in 0..MaxSafe
  BY <1>1, RequestAtHand
<1>. DEFINE stage  == IF req[q].pull = "fetch" /\ req[q].head THEN "returned" ELSE "reading"
            status == IF req[q].range = None THEN 200 ELSE 206
            lo     == Wire!FirstByte(req[q].range)
            hi     == Wire!LastByte(req[q].range)
<1>3. req' = [req EXCEPT ![q].stage = stage, ![q].status = status, ![q].lo = lo, ![q].hi = hi,
                         ![q].open = TRUE]
  BY DEF Wire!OpenObject
<1>4. stage \in {"returned", "reading"} /\ status \in {200, 206}
  OBVIOUS
<1>5. status = 200 <=> req[q].range = None
  OBVIOUS
<1>6. status = 200 => lo = 0 /\ hi = object.size - 1
  BY DEF Wire!FirstByte, Wire!LastByte
<1>7. status = 206 => lo..hi = Wire!BytesNamed(req[q].raw, object.size) /\ lo <= hi
  <2>. SUFFICES ASSUME req[q].range # None
                PROVE  lo..hi = Wire!BytesNamed(req[q].raw, object.size) /\ lo <= hi
    BY <1>5
  <2>. QED
    BY <1>1, <1>2, OpensWhatIsNamed DEF IsHonest, RangeInHand
<1>. HIDE DEF stage, status, lo, hi
<1>8. /\ req'[q] = [req[q] EXCEPT !.stage = stage, !.status = status, !.lo = lo, !.hi = hi,
                                  !.open = TRUE]
      /\ req' = [req EXCEPT ![q] = req'[q]]
  BY <1>2, <1>3
<1>9. /\ req'[q].stage = stage /\ req'[q].status = status /\ req'[q].lo = lo /\ req'[q].hi = hi
      /\ req'[q].byGrant = req[q].byGrant /\ req'[q].raw = req[q].raw
      /\ req'[q].range = req[q].range /\ req'[q].reserved = req[q].reserved
      /\ IsRequest(req'[q])
  <2>1. IsRequest(req'[q])
    BY <1>2, <1>8 DEF IsRequest
  <2>2. /\ req'[q].stage = stage /\ req'[q].status = status /\ req'[q].lo = lo /\ req'[q].hi = hi
    BY <1>2, <1>8 DEF IsRequest, Fields
  <2>. QED
    BY <1>2, <1>8, <2>1, <2>2 DEF IsRequest, Fields
<1>10. IsCharged(req'[q])
  BY <1>1, <1>2, <1>4, <1>5, <1>9 DEF IsCharged
<1>11. IsHonest(req'[q])
  BY <1>2, <1>4, <1>6, <1>7, <1>9 DEF IsHonest
<1>12. /\ req'[q].stage # "new"
       /\ q \in Charged(R) <=> req'[q].byGrant /\ req'[q].reserved # None
  BY <1>2, <1>4, <1>9
<1>. QED
  BY <1>1, <1>8, <1>9, <1>10, <1>11, <1>12, RequestMoves

LEMMA NothingToOpenStep ==
  ASSUME NEW R, NEW q \in R, DeliveryInv(R), Wire!NothingToOpen(q)
  PROVE  DeliveryInv(R)'
<1>1. /\ req[q].stage = "fetch" /\ UNCHANGED <<clock, grant, object, config, urls>>
      /\ req[q].range # None => ~Wire!IsSuffix(req[q].range)
      /\ ~object.there \/ ~Wire!Satisfiable(req[q].range)
  BY DEF Wire!NothingToOpen
<1>2. /\ IsRequest(req[q]) /\ IsCharged(req[q]) /\ IsHonest(req[q])
      /\ req = [p \in R |-> req[p]]
      /\ q \in Charged(R) <=> req[q].byGrant /\ req[q].reserved # None
  BY <1>1, RequestAtHand
<1>3. CASE req' = Wire!Replies(q, 404)
  BY <1>1, <1>3, RepliesStep
<1>4. CASE req[q].range # None /\ req' = [req EXCEPT ![q].stage = "which"]
  <2>1. req'[q] = [req[q] EXCEPT !.stage = "which"] /\ req' = [req EXCEPT ![q] = req'[q]]
    BY <1>2, <1>4
  <2>2. /\ req'[q].stage = "which" /\ req'[q].status = req[q].status
        /\ req'[q].byGrant = req[q].byGrant /\ req'[q].raw = req[q].raw
        /\ req'[q].range = req[q].range /\ req'[q].reserved = req[q].reserved
        /\ IsRequest(req'[q])
    BY <1>2, <2>1 DEF IsRequest, Fields
  <2>3. IsCharged(req'[q])
    BY <1>1, <1>2, <2>2, DeliveryFits DEF IsCharged
  <2>4. IsHonest(req'[q])
    BY <1>1, <1>2, <1>4, <2>2, DeliveryFits DEF IsHonest, RangeInHand
  <2>. QED
    BY <1>1, <1>2, <2>1, <2>2, <2>3, <2>4, RequestMoves
<1>. QED
  BY <1>3, <1>4 DEF Wire!NothingToOpen

LEMMA HeadAgainStep ==
  ASSUME NEW R, NEW q \in R, DeliveryInv(R), Wire!HeadAgain(q)
  PROVE  DeliveryInv(R)'
<1>1. req[q].stage = "which" /\ UNCHANGED <<clock, grant, object, config, urls>>
  BY DEF Wire!HeadAgain
<1>2. IsHonest(req[q]) /\ object.size \in 0..MaxSafe
  BY <1>1, RequestAtHand
<1>3. object.there =>
        /\ Wire!BytesNamed(req[q].raw, object.size) = {}
        /\ req[q].raw.form = "between" => req[q].raw.a <= req[q].raw.b
  BY <1>1, <1>2, OpensWhatIsNamed DEF IsHonest, RangeInHand
<1>4. CASE object.there
  BY <1>1, <1>3, <1>4, RepliesStep DEF Wire!HeadAgain
<1>5. CASE ~object.there
  BY <1>1, <1>5, RepliesStep DEF Wire!HeadAgain
<1>. QED
  BY <1>4, <1>5

(* The refusals that need no more than a look at the request. *)
LEMMA RefusalSteps ==
  ASSUME NEW R, NEW q \in R, DeliveryInv(R), Wire!RefuseReservation(q) \/ Wire!StorageFails(q)
  PROVE  DeliveryInv(R)'
<1>1. CASE Wire!RefuseReservation(q)
  BY <1>1, RepliesStep DEF Wire!RefuseReservation
<1>2. CASE Wire!StorageFails(q)
  BY <1>2, RepliesStep DEF Wire!StorageFails
<1>. QED
  BY <1>1, <1>2

(* The download is charged for, or needs no charge; a redirect is signed now. *)
LEMMA ReserveStep ==
  ASSUME NEW R, NEW q \in R, DeliveryInv(R), Wire!Reserve(q)
  PROVE  DeliveryInv(R)'
<1>1. /\ req[q].stage = "reserve" /\ UNCHANGED <<clock, object, config>>
      /\ req[q].byGrant => Wire!Usable
      /\ grant' = IF req[q].byGrant THEN [grant EXCEPT !.used = @ + 1] ELSE grant
  BY DEF Wire!Reserve, Wire!Consumed
<1>2. /\ IsRequest(req[q]) /\ IsCharged(req[q]) /\ IsHonest(req[q])
      /\ req = [p \in R |-> req[p]]
      /\ clock \in Nat /\ object.size \in 0..MaxSafe
  BY <1>1, RequestAtHand
<1>3. DeliveryType /\ RequestsHold(R) /\ Counted(R) /\ UrlsHold
  BY DEF DeliveryInv
<1>4. /\ req[q].byGrant =>
           /\ grant.revoked = None /\ grant' = [grant EXCEPT !.used = grant.used + 1]
           /\ grant.cap # None => grant.used < grant.cap
      /\ ~req[q].byGrant => grant' = grant
  BY <1>1 DEF Wire!Usable, Wire!Capped
<1>5. /\ grant'.cap = grant.cap /\ grant'.revoked = grant.revoked
      /\ grant'.used = IF req[q].byGrant THEN grant.used + 1 ELSE grant.used
      /\ grant' \in [via : {"actor", "anonymous"}, cap : Nat \cup {None}, used : Nat,
                     revoked : Nat \cup {None}]
      /\ grant'.cap # None => grant'.used <= grant'.cap
  <2>1. CASE req[q].byGrant
    BY <1>3, <1>4, <2>1, DeliveryFits DEF DeliveryType
  <2>2. CASE ~req[q].byGrant
    BY <1>3, <1>4, <2>2 DEF DeliveryType
  <2>. QED
    BY <2>1, <2>2
<1>6. DeliveryType'
  BY <1>1, <1>3, <1>5 DEF DeliveryType
<1>7. Wire!RedirectEligible(q) => req[q].byGrant /\ config # None
  BY DEF Wire!RedirectEligible
<1>8. UrlsHold'
  <2>1. CASE urls' = urls
    BY <1>1, <1>3, <1>5, <2>1 DEF UrlsHold
  <2>2. CASE Wire!RedirectEligible(q) /\ urls' = urls \cup {Wire!Presigned}
    <3>1. config # None /\ config.ttl \in Nat /\ grant.revoked = None
      BY <1>3, <1>4, <1>7, <2>2 DEF DeliveryType
    <3>2. /\ Wire!Presigned \in [signed : Nat, expires : Nat, ttl : Nat, cacheable : BOOLEAN,
                                 fresh : Nat \cup {None}]
          /\ Wire!Presigned.ttl = config.ttl /\ Wire!Presigned.signed = clock
          /\ Wire!Presigned.expires = clock + config.ttl
      BY <1>2, <3>1 DEF Wire!Presigned
    <3>. QED
      BY <1>1, <1>2, <1>3, <1>5, <2>2, <3>1, <3>2 DEF UrlsHold
  <2>. QED
    BY <2>1, <2>2 DEF Wire!Reserve
<1>9. /\ req' = [req EXCEPT ![q] = req'[q]] /\ IsRequest(req'[q])
      /\ req'[q].byGrant = req[q].byGrant /\ req'[q].raw = req[q].raw
      /\ req'[q].reserved = clock
      /\ \/ /\ req'[q].stage = "returned" /\ req'[q].status = 302
            /\ req'[q].range = req[q].range
         \/ /\ req'[q].stage = "fetch" /\ req'[q].status = req[q].status
            /\ req'[q].range = Wire!EffectiveRange(q)
  <2>0. IsRequest(req[q])
    BY <1>2
  <2>1. CASE req' = [Wire!Replies(q, 302) EXCEPT ![q].reserved = clock]
    <3>0. req' = [req EXCEPT ![q] = [req[q] EXCEPT !.stage = "returned", !.status = 302,
                                                   !.reserved = clock]]
      BY <1>2, <2>1, ZenonT(40) DEF Wire!Replies
    <3>1. /\ req'[q] = [req[q] EXCEPT !.stage = "returned", !.status = 302, !.reserved = clock]
          /\ req' = [req EXCEPT ![q] = req'[q]]
      BY <1>2, <3>0
    <3>2. IsRequest(req'[q])
      BY <2>0, <3>1 DEF IsRequest
    <3>3. /\ req'[q].stage = "returned" /\ req'[q].status = 302 /\ req'[q].reserved = clock
          /\ req'[q].range = req[q].range
      BY <2>0, <3>1 DEF IsRequest, Fields
    <3>4. req'[q].byGrant = req[q].byGrant /\ req'[q].raw = req[q].raw
      BY <2>0, <3>1 DEF IsRequest, Fields
    <3>. QED
      BY <3>1, <3>2, <3>3, <3>4
  <2>2. CASE req' = [req EXCEPT ![q].stage = "fetch", ![q].reserved = clock,
                                ![q].range = Wire!EffectiveRange(q)]
    <3>. DEFINE range == Wire!EffectiveRange(q)
    <3>1. /\ req'[q] = [req[q] EXCEPT !.stage = "fetch", !.reserved = clock, !.range = range]
          /\ req' = [req EXCEPT ![q] = req'[q]]
      BY <1>2, <2>2
    <3>. HIDE DEF range
    <3>2. IsRequest(req'[q])
      BY <2>0, <3>1 DEF IsRequest
    <3>3. /\ req'[q].stage = "fetch" /\ req'[q].reserved = clock /\ req'[q].range = range
          /\ req'[q].status = req[q].status
      BY <2>0, <3>1 DEF IsRequest, Fields
    <3>4. req'[q].byGrant = req[q].byGrant /\ req'[q].raw = req[q].raw
      BY <2>0, <3>1 DEF IsRequest, Fields
    <3>. QED
      BY <3>1, <3>2, <3>3, <3>4 DEF range
  <2>. QED
    BY <2>1, <2>2 DEF Wire!Reserve
<1>10. \A p \in R : p # q => req'[p] = req[p]
  BY <1>2, <1>9
<1>11. RequestsHold(R)'
  <2>1. ASSUME NEW p \in R, p # q, req'[p].stage # "new"
        PROVE  IsRequest(req[p])' /\ IsCharged(req[p])' /\ IsHonest(req[p])'
    <3>1. req'[p] = req[p] /\ IsRequest(req[p]) /\ IsCharged(req[p]) /\ IsHonest(req[p])
      BY <1>3, <1>10, <2>1 DEF RequestsHold
    <3>2. IsCharged(req[p])'
      BY <1>1, <1>5, <3>1 DEF IsCharged
    <3>3. IsHonest(req[p])'
      BY <1>1, <3>1 DEF IsHonest, RangeInHand, Wire!Satisfiable, Wire!FirstByte, Wire!LastByte
    <3>4. IsRequest(req[p])'
      BY <3>1 DEF IsRequest
    <3>. QED
      BY <3>2, <3>3, <3>4
  <2>2. IsCharged(req[q])'
    BY <1>1, <1>2, <1>4, <1>5, <1>9, DeliveryFits DEF IsCharged, Wire!EffectiveRange, Wire!Capped
  <2>3. IsHonest(req[q])'
    <3>1. Wire!EffectiveRange(q) = None \/ Wire!EffectiveRange(q) = req[q].range
      BY DEF Wire!EffectiveRange
    <3>2. req[q].status = None /\ RangeInHand(req[q]) /\ req[q].raw \in AllRaws
      BY <1>1, <1>2 DEF IsHonest
    <3>. QED
      BY <1>1, <1>9, <3>1, <3>2, DeliveryFits DEF IsHonest, RangeInHand
  <2>4. IsRequest(req[q])'
    BY <1>9 DEF IsRequest
  <2>5. req' = [p \in R |-> req'[p]]
    BY <1>2, <1>9
  <2>. QED
    BY <2>1, <2>2, <2>3, <2>4, <2>5 DEF RequestsHold
<1>12. Counted(R)'
  <2>1. grant.used \in Nat /\ IsFiniteSet(Charged(R)) /\ Cardinality(Charged(R)) <= grant.used
    BY <1>3 DEF DeliveryType, Counted
  <2>2. Cardinality(Charged(R)) \in Nat
    BY <2>1, FS_CardinalityType
  <2>3. CASE req[q].byGrant
    <3>1. Charged(R)' = Charged(R) \cup {q}
      BY <1>2, <1>9, <1>10, <2>3, DeliveryFits DEF Charged
    <3>2. /\ IsFiniteSet(Charged(R) \cup {q})
          /\ Cardinality(Charged(R) \cup {q}) <= Cardinality(Charged(R)) + 1
      BY <2>1, <2>2, FS_AddElement
    <3>3. Cardinality(Charged(R) \cup {q}) \in Nat
      BY <3>2, FS_CardinalityType
    <3>. QED
      BY <1>5, <2>1, <2>2, <2>3, <3>1, <3>2, <3>3 DEF Counted
  <2>4. CASE ~req[q].byGrant
    <3>1. Charged(R)' = Charged(R)
      BY <1>9, <1>10, <2>4 DEF Charged
    <3>. QED
      BY <1>5, <2>1, <2>4, <3>1 DEF Counted
  <2>. QED
    BY <2>3, <2>4
<1>. QED
  BY <1>6, <1>8, <1>11, <1>12 DEF DeliveryInv

(* What goes on around the requests. *)
LEMMA AroundSteps ==
  ASSUME NEW R, DeliveryInv(R),
         Wire!Revoke \/ Wire!RemoveObject \/ Wire!Tick \/ (\E u \in urls : Wire!Cache(u))
  PROVE  DeliveryInv(R)'
<1>. USE DeliveryFits
<1>1. DeliveryType /\ RequestsHold(R) /\ Counted(R) /\ UrlsHold
  BY DEF DeliveryInv
<1>2. /\ req' = req /\ config' = config
      /\ clock \in Nat /\ clock' \in Nat /\ clock <= clock'
      /\ object'.size = object.size /\ (object'.there => object.there)
      /\ grant'.cap = grant.cap /\ grant'.used = grant.used
      /\ grant.revoked # None => grant'.revoked = grant.revoked
      /\ grant.revoked = None =>
           grant'.revoked = None \/ (grant'.revoked = clock /\ clock' = clock)
      /\ DeliveryType'
  <2>1. CASE Wire!Revoke
    BY <1>1, <2>1 DEF Wire!Revoke, DeliveryType
  <2>2. CASE Wire!RemoveObject
    <3>1. /\ object' = [object EXCEPT !.there = FALSE] /\ object.there
          /\ UNCHANGED <<clock, grant, config, req, urls>>
      BY <2>2 DEF Wire!RemoveObject
    <3>2. object'.size = object.size /\ object'.there = FALSE /\ object' \in [there : BOOLEAN, size : 0..MaxSafe]
      BY <1>1, <3>1 DEF DeliveryType
    <3>3. DeliveryType'
      BY <1>1, <3>1, <3>2 DEF DeliveryType
    <3>. QED
      BY <1>1, <3>1, <3>2, <3>3 DEF DeliveryType
  <2>3. CASE Wire!Tick
    <3>1. clock' = clock + 1 /\ UNCHANGED <<grant, object, config, req, urls>> /\ clock \in Nat
      BY <1>1, <2>3 DEF Wire!Tick, DeliveryType
    <3>2. DeliveryType'
      BY <1>1, <3>1 DEF DeliveryType
    <3>3. clock' \in Nat /\ clock <= clock'
      BY <3>1
    <3>4. object' = object /\ grant' = grant /\ req' = req /\ config' = config
      BY <3>1
    <3>5. /\ object'.size = object.size /\ (object'.there => object.there)
          /\ grant'.cap = grant.cap /\ grant'.used = grant.used /\ grant'.revoked = grant.revoked
      BY <3>4
    <3>. QED
      BY <3>1, <3>2, <3>3, <3>4, <3>5
  <2>4. CASE \E u \in urls : Wire!Cache(u)
    BY <1>1, <2>4 DEF Wire!Cache, DeliveryType
  <2>. QED
    BY <2>1, <2>2, <2>3, <2>4
<1>3. RequestsHold(R)'
  <2>1. ASSUME NEW p \in R, req[p].stage # "new"
        PROVE  IsRequest(req[p])' /\ IsCharged(req[p])' /\ IsHonest(req[p])'
    <3>1. IsRequest(req[p]) /\ IsCharged(req[p]) /\ IsHonest(req[p])
      BY <1>1, <2>1 DEF RequestsHold
    <3>2. IsCharged(req[p])'
      BY <1>2, <3>1 DEF IsCharged
    <3>3. IsHonest(req[p])'
      BY <1>2, <3>1 DEF IsHonest, RangeInHand, Wire!Satisfiable, Wire!FirstByte, Wire!LastByte
    <3>. QED
      BY <1>2, <3>1, <3>2, <3>3 DEF IsRequest
  <2>. QED
    BY <1>1, <1>2, <2>1 DEF RequestsHold
<1>4. Counted(R)'
  BY <1>1, <1>2 DEF Counted, Charged
<1>5. UrlsHold'
  <2>1. CASE urls' = urls
    BY <1>1, <1>2, <2>1 DEF UrlsHold
  <2>2. CASE \E u \in urls : Wire!Cache(u)
    <3>1. PICK u \in urls : Wire!Cache(u)
      BY <2>2
    <3>. DEFINE v == [u EXCEPT !.fresh = clock + Wire!MaxAge(u.ttl)]
    <3>2. urls' = (urls \ {u}) \cup {v} /\ UNCHANGED <<clock, grant, config>>
      BY <3>1 DEF Wire!Cache
    <3>3. u.ttl \in Nat /\ Wire!MaxAge(u.ttl) \in Nat
      BY <1>1, <3>1 DEF UrlsHold, Wire!MaxAge, Wire!LargerOf
    <3>4. /\ v.signed = u.signed /\ v.expires = u.expires /\ v.ttl = u.ttl
          /\ v \in [signed : Nat, expires : Nat, ttl : Nat, cacheable : BOOLEAN,
                    fresh : Nat \cup {None}]
      BY <1>1, <1>2, <3>3 DEF UrlsHold
    <3>. HIDE DEF v
    <3>. QED
      BY <1>1, <1>2, <3>2, <3>4 DEF UrlsHold
  <2>. QED
    BY <2>1, <2>2 DEF Wire!Revoke, Wire!RemoveObject, Wire!Tick
<1>. QED
  BY <1>2, <1>3, <1>4, <1>5 DEF DeliveryInv

(* A step of Copy is a step of Wire, but for the passing of time: the two have
   other requests, headers, objects and bounds, and the same MaxSafe and None. *)
LEMMA CopyIsWire ==
  /\ \A q, ask, raw : Copy!Arrive(q, ask, raw) => Wire!Arrive(q, ask, raw)
  /\ \A q : Copy!Decide(q) => Wire!Decide(q)
  /\ \A q : Copy!Reserve(q) => Wire!Reserve(q)
  /\ \A q : Copy!RefuseReservation(q) => Wire!RefuseReservation(q)
  /\ \A q : Copy!ResolveSuffix(q) => Wire!ResolveSuffix(q)
  /\ \A q : Copy!OpenObject(q) => Wire!OpenObject(q)
  /\ \A q : Copy!NothingToOpen(q) => Wire!NothingToOpen(q)
  /\ \A q : Copy!HeadAgain(q) => Wire!HeadAgain(q)
  /\ \A q : Copy!StorageFails(q) => Wire!StorageFails(q)
  /\ \A q : Copy!ReadChunk(q) => Wire!ReadChunk(q)
  /\ \A q : Copy!ReadFails(q) => Wire!ReadFails(q)
  /\ \A q : Copy!WriteTakes(q) => Wire!WriteTakes(q)
  /\ \A q : Copy!WriteIsFull(q) => Wire!WriteIsFull(q)
  /\ \A q : Copy!RuntimeCancels(q) => Wire!RuntimeCancels(q)
  /\ \A q : Copy!Drain(q) => Wire!Drain(q)
  /\ \A q : Copy!ClientLeaves(q) => Wire!ClientLeaves(q)
  /\ Copy!Revoke => Wire!Revoke
  /\ Copy!RemoveObject => Wire!RemoveObject
  /\ \A u : Copy!Cache(u) => Wire!Cache(u)
<1>1. \A q, ask, raw : Copy!Arrive(q, ask, raw) => Wire!Arrive(q, ask, raw)
  BY DEF Copy!Arrive, Wire!Arrive, Copy!ParseRange, Wire!ParseRange, Copy!From,
     Wire!From
<1>2. \A q : Copy!Decide(q) => Wire!Decide(q)
  BY DEF Copy!Decide, Wire!Decide, Copy!Usable, Wire!Usable, Copy!Capped, Wire!Capped,
     Copy!Replies, Wire!Replies
<1>3. \A q : Copy!Reserve(q) => Wire!Reserve(q)
  BY DEF Copy!Reserve, Wire!Reserve, Copy!Consumed, Wire!Consumed, Copy!Usable,
     Wire!Usable, Copy!Capped, Wire!Capped, Copy!RedirectEligible,
     Wire!RedirectEligible, Copy!EffectiveRange, Wire!EffectiveRange, Copy!Presigned,
     Wire!Presigned, Copy!Replies, Wire!Replies
<1>4. \A q : Copy!RefuseReservation(q) => Wire!RefuseReservation(q)
  BY DEF Copy!RefuseReservation, Wire!RefuseReservation, Copy!Consumed, Wire!Consumed,
     Copy!Usable, Wire!Usable, Copy!Capped, Wire!Capped, Copy!Replies, Wire!Replies
<1>5. \A q : Copy!ResolveSuffix(q) => Wire!ResolveSuffix(q)
  BY DEF Copy!ResolveSuffix, Wire!ResolveSuffix, Copy!IsSuffix, Wire!IsSuffix,
     Copy!LargerOf, Wire!LargerOf, Copy!Replies, Wire!Replies
<1>6. \A q : Copy!OpenObject(q) => Wire!OpenObject(q)
  BY DEF Copy!OpenObject, Wire!OpenObject, Copy!IsSuffix, Wire!IsSuffix,
     Copy!Satisfiable, Wire!Satisfiable, Copy!FirstByte, Wire!FirstByte, Copy!LastByte,
     Wire!LastByte, Copy!SmallerOf, Wire!SmallerOf
<1>7. \A q : Copy!NothingToOpen(q) => Wire!NothingToOpen(q)
  BY DEF Copy!NothingToOpen, Wire!NothingToOpen, Copy!IsSuffix, Wire!IsSuffix,
     Copy!Satisfiable, Wire!Satisfiable, Copy!FirstByte, Wire!FirstByte, Copy!LastByte,
     Wire!LastByte, Copy!SmallerOf, Wire!SmallerOf, Copy!Replies, Wire!Replies
<1>8. \A q : Copy!HeadAgain(q) => Wire!HeadAgain(q)
  BY DEF Copy!HeadAgain, Wire!HeadAgain, Copy!Replies, Wire!Replies
<1>9. \A q : Copy!StorageFails(q) => Wire!StorageFails(q)
  BY DEF Copy!StorageFails, Wire!StorageFails, Copy!Replies, Wire!Replies
<1>10. \A q : Copy!ReadChunk(q) => Wire!ReadChunk(q)
  BY DEF Copy!ReadChunk, Wire!ReadChunk, Copy!Finishes, Wire!Finishes, Copy!Cancelled,
     Wire!Cancelled, Copy!Length, Wire!Length
<1>11. \A q : Copy!ReadFails(q) => Wire!ReadFails(q)
  BY DEF Copy!ReadFails, Wire!ReadFails, Copy!Cancelled, Wire!Cancelled
<1>12. \A q : Copy!WriteTakes(q) => Wire!WriteTakes(q)
  BY DEF Copy!WriteTakes, Wire!WriteTakes
<1>13. \A q : Copy!WriteIsFull(q) => Wire!WriteIsFull(q)
  BY DEF Copy!WriteIsFull, Wire!WriteIsFull
<1>14. \A q : Copy!RuntimeCancels(q) => Wire!RuntimeCancels(q)
  BY DEF Copy!RuntimeCancels, Wire!RuntimeCancels, Copy!Finishes, Wire!Finishes,
     Copy!Cancelled, Wire!Cancelled, Copy!Length, Wire!Length
<1>15. \A q : Copy!Drain(q) => Wire!Drain(q)
  BY DEF Copy!Drain, Wire!Drain
<1>16. \A q : Copy!ClientLeaves(q) => Wire!ClientLeaves(q)
  BY DEF Copy!ClientLeaves, Wire!ClientLeaves, Copy!Finishes, Wire!Finishes,
     Copy!Cancelled, Wire!Cancelled, Copy!Length, Wire!Length
<1>17. Copy!Revoke => Wire!Revoke
  BY DEF Copy!Revoke, Wire!Revoke
<1>18. Copy!RemoveObject => Wire!RemoveObject
  BY DEF Copy!RemoveObject, Wire!RemoveObject
<1>19. \A u : Copy!Cache(u) => Wire!Cache(u)
  BY DEF Copy!Cache, Wire!Cache, Copy!MaxAge, Wire!MaxAge, Copy!LargerOf, Wire!LargerOf
<1>. QED
  BY <1>1, <1>2, <1>3, <1>4, <1>5, <1>6, <1>7, <1>8, <1>9, <1>10, <1>11, <1>12, <1>13,
     <1>14, <1>15, <1>16, <1>17, <1>18, <1>19

LEMMA HandleStep ==
  ASSUME NEW R, NEW q \in R, DeliveryInv(R),
         Wire!Handle(q) \/ Wire!Drain(q) \/ Wire!ClientLeaves(q)
  PROVE  DeliveryInv(R)'
BY DecideStep, ReserveStep, RefusalSteps, ResolveSuffixStep, OpenObjectStep, NothingToOpenStep,
   HeadAgainStep, CopySteps
   DEF Wire!Handle

(* One step of either, whoever may ask with whatever header. *)
LEMMA WireStep ==
  ASSUME DeliveryInv(Requests), Wire!DeliveryNext
  PROVE  DeliveryInv(Requests)'
<1>1. WireAsks \subseteq Wire!AllAsks /\ Wire!Raws \subseteq AllRaws
  BY DeliveryFits DEF Wire!Raws, AllRaws
<1>2. ASSUME NEW q \in Requests, NEW ask \in WireAsks, NEW raw \in Wire!Raws,
             \/ Wire!ShareRoute(q, ask, raw) \/ Wire!FileRoute(q, ask, raw)
             \/ Wire!FetchRoute(q, ask, raw)
      PROVE  DeliveryInv(Requests)'
  BY <1>1, <1>2, ArriveStep DEF Wire!ShareRoute, Wire!FileRoute, Wire!FetchRoute
<1>. QED
  BY <1>2, HandleStep, AroundSteps DEF Wire!DeliveryNext

LEMMA CopyStep ==
  ASSUME DeliveryInv({q1}), Copy!DeliveryNext
  PROVE  DeliveryInv({q1})'
<1>1. Copy!Raws \subseteq AllRaws
  BY DEF Copy!Raws, AllRaws
<1>2. ASSUME NEW q \in {q1}, NEW ask \in Wire!AllAsks, NEW raw \in Copy!Raws,
             \/ Copy!ShareRoute(q, ask, raw) \/ Copy!FileRoute(q, ask, raw)
             \/ Copy!FetchRoute(q, ask, raw)
      PROVE  DeliveryInv({q1})'
  BY <1>1, <1>2, ArriveStep, CopyIsWire DEF Copy!ShareRoute, Copy!FileRoute, Copy!FetchRoute
<1>3. ASSUME NEW q \in {q1}, Copy!Handle(q) \/ Copy!Drain(q) \/ Copy!ClientLeaves(q)
      PROVE  DeliveryInv({q1})'
  <2>1. Wire!Handle(q) \/ Wire!Drain(q) \/ Wire!ClientLeaves(q)
    BY <1>3, CopyIsWire DEF Copy!Handle, Wire!Handle
  <2>. QED
    BY <2>1, HandleStep
<1>4. CASE Copy!Revoke \/ Copy!RemoveObject \/ (\E u \in urls : Copy!Cache(u))
  BY <1>4, AroundSteps, CopyIsWire
<1>5. ~Copy!Tick
  BY DEF Copy!Tick, DeliveryInv, DeliveryType
<1>. QED
  BY <1>2, <1>3, <1>4, <1>5, ConstantsFit DEF Copy!DeliveryNext, Copy!DeliveryConstants,
     Copy!AllAsks, Wire!AllAsks

LEMMA DeliveryBegins ==
  /\ Init /\ part = "wire" => DeliveryInv(Requests)
  /\ Init /\ part = "copy" => DeliveryInv({q1})
<1>. USE DeliveryFits, FS_EmptySet
<1>1. ASSUME NEW R, clock = 0, urls = {}, req = [q \in R |-> [stage |-> "new"]],
             grant \in [via : {"actor", "anonymous"}, cap : Caps, used : {0}, revoked : {None}],
             object \in [there : {TRUE}, size : 0..MaxSafe],
             config # None => config.ttl \in Nat /\ config.ttl <= MaxTtl
      PROVE  DeliveryInv(R)
  <2>1. DeliveryType
    <3>1. grant.used = 0 /\ grant.revoked = None /\ grant.cap \in Nat \cup {None}
      BY <1>1
    <3>2. grant \in [via : {"actor", "anonymous"}, cap : Nat \cup {None}, used : Nat,
                     revoked : Nat \cup {None}]
      <4>1. {0} \subseteq Nat /\ {None} \subseteq Nat \cup {None}
        OBVIOUS
      <4>2. grant.via \in {"actor", "anonymous"}
            /\ grant = [via |-> grant.via, cap |-> grant.cap, used |-> grant.used,
                        revoked |-> grant.revoked]
        BY <1>1
      <4>. QED
        BY <3>1, <4>1, <4>2
    <3>3. object \in [there : BOOLEAN, size : 0..MaxSafe]
      BY <1>1
    <3>. QED
      BY <1>1, <3>1, <3>2, <3>3 DEF DeliveryType
  <2>2. RequestsHold(R)
    BY <1>1 DEF RequestsHold
  <2>3. Charged(R) = {}
    BY <1>1 DEF Charged
  <2>4. Counted(R) /\ UrlsHold
    BY <1>1, <2>3 DEF Counted, UrlsHold
  <2>. QED
    BY <2>1, <2>2, <2>4 DEF DeliveryInv
<1>2. ASSUME Init, part = "wire" PROVE DeliveryInv(Requests)
  <2>1. Wire!DeliveryInit
    BY <1>2 DEF Init
  <2>2. config # None => config.ttl \in Nat /\ config.ttl <= MaxTtl
    BY <2>1 DEF Wire!DeliveryInit, Wire!Configs, Wire!ResolveTtl, Wire!SmallerOf
  <2>. QED
    BY <1>1, <2>1, <2>2 DEF Wire!DeliveryInit
<1>3. ASSUME Init, part = "copy" PROVE DeliveryInv({q1})
  <2>1. Copy!DeliveryInit
    BY <1>3 DEF Init
  <2>2. config = None
    BY <2>1 DEF Copy!DeliveryInit, Copy!Configs
  <2>3. {0, 1, 3} \subseteq 0..MaxSafe
    BY ConstantsFit DEF Copy!DeliveryConstants
  <2>. QED
    BY <1>1, <2>1, <2>2, <2>3 DEF Copy!DeliveryInit
<1>. QED
  BY <1>2, <1>3

LEMMA DeliveryInvariant ==
  Spec => []((part = "wire" => DeliveryInv(Requests)) /\ (part = "copy" => DeliveryInv({q1})))
<1>. DEFINE I == (part = "wire" => DeliveryInv(Requests)) /\ (part = "copy" => DeliveryInv({q1}))
<1>1. Init => I
  BY DeliveryBegins
<1>2. I /\ [Next]_vars => I'
  <2>1. ASSUME NEW R, DeliveryInv(R), UNCHANGED wire PROVE DeliveryInv(R)'
    <3>1. DeliveryType' /\ Counted(R)' /\ UrlsHold'
      BY <2>1 DEF wire, DeliveryInv, DeliveryType, Counted, Charged, UrlsHold
    <3>2. RequestsHold(R)'
      <4>1. RequestsHold(R) /\ UNCHANGED <<req, clock, grant, object, config, urls>>
        BY <2>1 DEF wire, DeliveryInv
      <4>2. ASSUME NEW q \in R, req'[q].stage # "new"
            PROVE  IsRequest(req[q])' /\ IsCharged(req[q])' /\ IsHonest(req[q])'
        <5>1. IsRequest(req[q]) /\ IsCharged(req[q]) /\ IsHonest(req[q]) /\ req'[q] = req[q]
          BY <4>1, <4>2 DEF RequestsHold
        <5>2. IsRequest(req[q])' /\ IsCharged(req[q])'
          BY <4>1, <5>1 DEF IsRequest, IsCharged
        <5>3. IsHonest(req[q])'
          BY <4>1, <5>1 DEF IsHonest, RangeInHand, Wire!Satisfiable, Wire!FirstByte, Wire!LastByte
        <5>. QED
          BY <5>2, <5>3
      <4>. QED
        BY <4>1, <4>2 DEF RequestsHold
    <3>. QED
      BY <3>1, <3>2 DEF DeliveryInv
  <2>2. ASSUME [Next]_vars
        PROVE  /\ part = "wire" => Wire!DeliveryNext \/ UNCHANGED wire
               /\ part = "copy" => Copy!DeliveryNext \/ UNCHANGED wire
    BY <2>2 DEF Next, vars, services, others, wire
  <2>. QED
    BY <2>1, <2>2, WireStep, CopyStep, PartStands
<1>. QED
  BY <1>1, <1>2, PTL DEF Spec

(* However revocations, redirects, caches and the clock interleave: nothing is
   delivered through a grant but what was reserved before its revocation, no
   URL outlives it by more than the ttl, and no cache that got its redirect in
   the first half of the URL's life serves it dead (delivery.ts,
   redirectHeaders; filelayer.ts, #reserve).                                *)
THEOREM RevokedRedirectsExpire == Spec => []RedirectsExpire
<1>1. (part = "wire" => DeliveryInv(Requests)) => RedirectsExpire
  <2>. SUFFICES ASSUME DeliveryInv(Requests)
                PROVE  Wire!RevocationWindow /\ Wire!CachedRedirectsLive
    BY DEF RedirectsExpire
  <2>. USE DeliveryFits
  <2>0. DeliveryType /\ RequestsHold(Requests) /\ UrlsHold
    BY DEF DeliveryInv
  <2>1. Wire!RevocationWindow
    <3>. SUFFICES ASSUME grant.revoked # None
                  PROVE  /\ \A q \in Requests :
                              req[q].stage # "new" /\ req[q].byGrant /\ req[q].reserved # None
                              => req[q].reserved <= grant.revoked
                         /\ \A u \in urls :
                              /\ u.signed <= grant.revoked
                              /\ u.expires <= grant.revoked + Wire!SmallerOf(config.ttl, MaxTtl)
      BY DEF Wire!RevocationWindow
    <3>1. grant.revoked \in Nat
      BY <2>0 DEF DeliveryType
    <3>2. ASSUME NEW q \in Requests, req[q].stage # "new", req[q].byGrant, req[q].reserved # None
          PROVE  req[q].reserved <= grant.revoked
      BY <2>0, <3>2 DEF RequestsHold, IsCharged
    <3>3. ASSUME NEW u \in urls
          PROVE  /\ u.signed <= grant.revoked
                 /\ u.expires <= grant.revoked + Wire!SmallerOf(config.ttl, MaxTtl)
      <4>1. /\ u.signed \in Nat /\ u.expires = u.signed + config.ttl /\ config # None
            /\ u.signed <= grant.revoked
        BY <2>0, <3>3 DEF UrlsHold
      <4>2. config.ttl \in Nat /\ config.ttl <= MaxTtl
        BY <2>0, <4>1 DEF DeliveryType
      <4>. QED
        BY <3>1, <4>1, <4>2 DEF Wire!SmallerOf
    <3>. QED
      BY <3>2, <3>3
  <2>2. Wire!CachedRedirectsLive
    <3>. SUFFICES ASSUME NEW u \in urls, u.fresh # None, u.ttl > 1, clock < u.fresh,
                         2 * (u.fresh - Wire!MaxAge(u.ttl) - u.signed) < u.ttl
                  PROVE  clock < u.expires
      BY DEF Wire!CachedRedirectsLive
    <3>1. /\ u.signed \in Nat /\ u.ttl \in Nat /\ u.fresh \in Nat /\ clock \in Nat
          /\ u.expires = u.signed + u.ttl
      BY <2>0 DEF UrlsHold, DeliveryType
    <3>2. Wire!MaxAge(u.ttl) = u.ttl \div 2
      BY <3>1 DEF Wire!MaxAge, Wire!LargerOf
    <3>3. 2 * (u.ttl \div 2) <= u.ttl /\ u.ttl \div 2 \in Nat
      BY <3>1
    <3>. QED
      BY <3>1, <3>2, <3>3
  <2>. QED
    BY <2>1, <2>2
<1>. QED
  BY <1>1, DeliveryInvariant, PTL

(* A request holds no object before its copy begins, nor when it is over; but
   the Fetch handler's HEAD lets go of nothing.                             *)
LetsGo(k) ==
  /\ k.stage \in {"decide", "reserve", "fetch", "which"} => ~k.open
  /\ k.stage = "returned" /\ k.open => k.pull = "fetch" /\ k.head

StreamsHeld(R) == \A q \in R : req[q].stage # "new" => LetsGo(req[q])

LEMMA HoldMoves ==
  ASSUME NEW R, NEW q \in R, req = [p \in R |-> req[p]], StreamsHeld(R),
         NEW l, req' = [req EXCEPT ![q] = l], LetsGo(l)
  PROVE  StreamsHeld(R)'
<1>1. \A p \in R : req'[p] = IF p = q THEN l ELSE req[p]
  OBVIOUS
<1>. QED
  BY <1>1 DEF StreamsHeld, LetsGo

LEMMA ReplyLetsGo ==
  ASSUME NEW R, NEW q \in R, DeliveryInv(R), StreamsHeld(R), NEW status,
         req[q].stage \in {"decide", "reserve", "fetch", "which"},
         req' = Wire!Replies(q, status)
  PROVE  StreamsHeld(R)'
<1>1. IsRequest(req[q]) /\ req = [p \in R |-> req[p]] /\ ~req[q].open
  BY RequestAtHand DEF StreamsHeld, LetsGo
<1>. DEFINE l == [req[q] EXCEPT !.stage = "returned", !.status = status]
<1>2. req' = [req EXCEPT ![q] = l]
  BY <1>1 DEF Wire!Replies
<1>3. l.stage = "returned" /\ l.open = req[q].open
  BY <1>1 DEF IsRequest, Fields
<1>. HIDE DEF l
<1>4. LetsGo(l)
  BY <1>1, <1>3 DEF LetsGo
<1>. QED
  BY <1>1, <1>2, <1>4, HoldMoves

(* What a handler makes of its request before it reads: another stage, or the end. *)
LEMMA HandlerLetsGo ==
  ASSUME NEW R, NEW q \in R, DeliveryInv(R), StreamsHeld(R),
         \/ Wire!Decide(q) \/ Wire!Reserve(q) \/ Wire!RefuseReservation(q) \/ Wire!ResolveSuffix(q)
         \/ Wire!OpenObject(q) \/ Wire!NothingToOpen(q) \/ Wire!HeadAgain(q) \/ Wire!StorageFails(q)
  PROVE  StreamsHeld(R)'
<1>1. req[q].stage \in {"decide", "reserve", "fetch", "which"}
  BY DEF Wire!Decide, Wire!Reserve, Wire!RefuseReservation, Wire!ResolveSuffix, Wire!OpenObject,
     Wire!NothingToOpen, Wire!HeadAgain, Wire!StorageFails
<1>2. IsRequest(req[q]) /\ req = [p \in R |-> req[p]] /\ ~req[q].open
  BY <1>1, RequestAtHand DEF StreamsHeld, LetsGo
<1>3. ASSUME NEW l, req' = [req EXCEPT ![q] = l], l.stage # "returned", ~l.open
      PROVE  StreamsHeld(R)'
  BY <1>2, <1>3, HoldMoves DEF LetsGo
<1>4. CASE \E status : req' = Wire!Replies(q, status)
  BY <1>1, <1>4, ReplyLetsGo
<1>5. ASSUME NEW stage, stage # "returned", req' = [req EXCEPT ![q].stage = stage]
      PROVE  StreamsHeld(R)'
  <2>. DEFINE l == [req[q] EXCEPT !.stage = stage]
  <2>1. req' = [req EXCEPT ![q] = l]
    BY <1>2, <1>5
  <2>2. l.stage = stage /\ l.open = req[q].open
    BY <1>2 DEF IsRequest, Fields
  <2>. HIDE DEF l
  <2>. QED
    BY <1>2, <1>3, <1>5, <2>1, <2>2
<1>6. CASE Wire!Decide(q)
  BY <1>4, <1>5, <1>6 DEF Wire!Decide
<1>7. CASE Wire!RefuseReservation(q) \/ Wire!HeadAgain(q) \/ Wire!StorageFails(q)
  BY <1>4, <1>7 DEF Wire!RefuseReservation, Wire!HeadAgain, Wire!StorageFails
<1>8. CASE Wire!NothingToOpen(q)
  BY <1>4, <1>5, <1>8 DEF Wire!NothingToOpen
<1>9. CASE Wire!Reserve(q)
  <2>1. CASE req' = [Wire!Replies(q, 302) EXCEPT ![q].reserved = clock]
    <3>. DEFINE l == [req[q] EXCEPT !.stage = "returned", !.status = 302, !.reserved = clock]
    <3>1. req' = [req EXCEPT ![q] = l]
      BY <1>2, <2>1, ZenonT(40) DEF Wire!Replies
    <3>2. l.stage = "returned" /\ l.open = req[q].open
      BY <1>2 DEF IsRequest, Fields
    <3>. HIDE DEF l
    <3>3. LetsGo(l)
      BY <1>2, <3>2 DEF LetsGo
    <3>. QED
      BY <1>2, <3>1, <3>3, HoldMoves
  <2>2. CASE req' = [req EXCEPT ![q].stage = "fetch", ![q].reserved = clock,
                                ![q].range = Wire!EffectiveRange(q)]
    <3>. DEFINE l == [req[q] EXCEPT !.stage = "fetch", !.reserved = clock,
                                    !.range = Wire!EffectiveRange(q)]
    <3>1. req' = [req EXCEPT ![q] = l]
      BY <1>2, <2>2
    <3>2. l.stage = "fetch" /\ l.open = req[q].open
      BY <1>2 DEF IsRequest, Fields
    <3>. HIDE DEF l
    <3>. QED
      BY <1>2, <1>3, <3>1, <3>2
  <2>. QED
    BY <1>9, <2>1, <2>2 DEF Wire!Reserve
<1>10. CASE Wire!ResolveSuffix(q)
  <2>1. ASSUME NEW range, req' = [req EXCEPT ![q].range = range] PROVE StreamsHeld(R)'
    <3>. DEFINE l == [req[q] EXCEPT !.range = range]
    <3>1. req' = [req EXCEPT ![q] = l]
      BY <1>2, <2>1
    <3>2. l.stage = req[q].stage /\ l.open = req[q].open
      BY <1>2 DEF IsRequest, Fields
    <3>. HIDE DEF l
    <3>. QED
      BY <1>1, <1>2, <1>3, <3>1, <3>2
  <2>. QED
    BY <1>4, <1>10, <2>1 DEF Wire!ResolveSuffix
<1>11. CASE Wire!OpenObject(q)
  <2>. DEFINE k == req[q]
              stage == IF k.pull = "fetch" /\ k.head THEN "returned" ELSE "reading"
              status == IF k.range = None THEN 200 ELSE 206
              l == [k EXCEPT !.stage = stage, !.status = status, !.lo = Wire!FirstByte(k.range),
                             !.hi = Wire!LastByte(k.range), !.open = TRUE]
  <2>0. req' = [req EXCEPT ![q].stage = stage, ![q].status = status,
                           ![q].lo = Wire!FirstByte(k.range), ![q].hi = Wire!LastByte(k.range),
                           ![q].open = TRUE]
    BY <1>11, Zenon DEF Wire!OpenObject
  <2>4. stage \in {"returned", "reading"} /\ (stage = "returned" => k.pull = "fetch" /\ k.head)
    OBVIOUS
  <2>. HIDE DEF stage, status
  <2>1. req' = [req EXCEPT ![q] = l]
    BY <1>2, <2>0
  <2>2. l.stage = stage /\ l.pull = k.pull /\ l.head = k.head
    BY <1>2 DEF IsRequest, Fields
  <2>. HIDE DEF l
  <2>3. LetsGo(l)
    BY <2>2, <2>4 DEF LetsGo
  <2>. QED
    BY <1>2, <2>1, <2>3, HoldMoves
<1>. QED
  BY <1>6, <1>7, <1>8, <1>9, <1>10, <1>11

LEMMA CopyLetsGo ==
  ASSUME NEW R, NEW q \in R, DeliveryInv(R), StreamsHeld(R),
         \/ Wire!ReadChunk(q) \/ Wire!ReadFails(q) \/ Wire!WriteTakes(q) \/ Wire!WriteIsFull(q)
         \/ Wire!RuntimeCancels(q) \/ Wire!Drain(q) \/ Wire!ClientLeaves(q)
  PROVE  StreamsHeld(R)'
<1>1. req[q].stage # "new"
  BY DEF Wire!ReadChunk, Wire!ReadFails, Wire!WriteTakes, Wire!WriteIsFull, Wire!RuntimeCancels,
     Wire!Drain, Wire!ClientLeaves
<1>2. IsRequest(req[q]) /\ req = [p \in R |-> req[p]] /\ LetsGo(req[q])
  BY <1>1, RequestAtHand DEF StreamsHeld
<1>3. ASSUME NEW l, req' = [req EXCEPT ![q] = l],
             \/ ~l.open
             \/ l.stage \in {"reading", "writing", "waiting"}
             \/ /\ l.stage = req[q].stage /\ l.open = req[q].open
                /\ l.pull = req[q].pull /\ l.head = req[q].head
      PROVE  StreamsHeld(R)'
  <2>1. LetsGo(l)
    BY <1>2, <1>3 DEF LetsGo
  <2>. QED
    BY <1>2, <1>3, <2>1, HoldMoves
<1>4. ASSUME NEW stage \in {"reading", "writing", "waiting"}, NEW sent,
             req' = [req EXCEPT ![q].stage = stage, ![q].sent = sent]
      PROVE  StreamsHeld(R)'
  <2>. DEFINE l == [req[q] EXCEPT !.stage = stage, !.sent = sent]
  <2>1. req' = [req EXCEPT ![q] = l]
    BY <1>2, <1>4
  <2>2. l.stage = stage
    BY <1>2 DEF IsRequest, Fields
  <2>. HIDE DEF l
  <2>. QED
    BY <1>3, <1>4, <2>1, <2>2
<1>5. ASSUME NEW stage \in {"reading", "waiting"}, req' = [req EXCEPT ![q].stage = stage]
      PROVE  StreamsHeld(R)'
  <2>. DEFINE l == [req[q] EXCEPT !.stage = stage]
  <2>1. req' = [req EXCEPT ![q] = l]
    BY <1>2, <1>5
  <2>2. l.stage = stage
    BY <1>2 DEF IsRequest, Fields
  <2>. HIDE DEF l
  <2>. QED
    BY <1>3, <1>5, <2>1, <2>2
<1>6. ASSUME req' = [req EXCEPT ![q].stage = "returned", ![q].open = FALSE]
      PROVE  StreamsHeld(R)'
  <2>. DEFINE l == [req[q] EXCEPT !.stage = "returned", !.open = FALSE]
  <2>1. req' = [req EXCEPT ![q] = l]
    BY <1>2, <1>6
  <2>2. l.open = FALSE
    BY <1>2 DEF IsRequest, Fields
  <2>. HIDE DEF l
  <2>. QED
    BY <1>3, <2>1, <2>2
<1>7. Wire!Finishes(q) = [req EXCEPT ![q].stage = "returned", ![q].open = FALSE]
  BY DEF Wire!Finishes, Wire!Cancelled
<1>8. CASE Wire!ReadChunk(q)
  <2>1. CASE req' = Wire!Finishes(q)
    BY <1>6, <1>7, <2>1
  <2>2. CASE req' = [req EXCEPT ![q].stage = "writing", ![q].sent = req[q].sent + 1]
    BY <1>4, <2>2
  <2>. QED
    BY <1>2, <1>8, <2>1, <2>2 DEF Wire!ReadChunk
<1>9. CASE Wire!ReadFails(q)
  BY <1>6, <1>9 DEF Wire!ReadFails, Wire!Cancelled
<1>10. CASE Wire!WriteTakes(q) \/ Wire!WriteIsFull(q) \/ Wire!Drain(q)
  BY <1>5, <1>10 DEF Wire!WriteTakes, Wire!WriteIsFull, Wire!Drain
<1>11. CASE Wire!RuntimeCancels(q)
  BY <1>6, <1>7, <1>11 DEF Wire!RuntimeCancels
<1>12. CASE Wire!ClientLeaves(q)
  <2>1. CASE req' = [Wire!Finishes(q) EXCEPT ![q].there = FALSE]
    <3>. DEFINE l == [req[q] EXCEPT !.stage = "returned", !.open = FALSE, !.there = FALSE]
    <3>1. req' = [req EXCEPT ![q] = l]
      BY <1>2, <1>7, <2>1
    <3>2. l.open = FALSE
      BY <1>2 DEF IsRequest, Fields
    <3>. HIDE DEF l
    <3>. QED
      BY <1>3, <3>1, <3>2
  <2>2. CASE req' = [req EXCEPT ![q].there = FALSE]
    <3>. DEFINE l == [req[q] EXCEPT !.there = FALSE]
    <3>1. req' = [req EXCEPT ![q] = l]
      BY <1>2, <2>2
    <3>2. /\ l.stage = req[q].stage /\ l.open = req[q].open
          /\ l.pull = req[q].pull /\ l.head = req[q].head
      BY <1>2 DEF IsRequest, Fields
    <3>. HIDE DEF l
    <3>. QED
      BY <1>3, <3>1, <3>2
  <2>. QED
    BY <1>12, <2>1, <2>2 DEF Wire!ClientLeaves
<1>. QED
  BY <1>8, <1>9, <1>10, <1>11, <1>12

LEMMA ArriveLetsGo ==
  ASSUME NEW R, NEW q \in R, DeliveryInv(R), StreamsHeld(R), NEW ask, NEW raw,
         Wire!Arrive(q, ask, raw)
  PROVE  StreamsHeld(R)'
<1>. DEFINE l == [pull |-> ask.pull, head |-> ask.head, byGrant |-> ask.byGrant, mode |-> ask.mode,
                  stage |-> "decide", raw |-> raw, range |-> Wire!ParseRange(raw), reserved |-> None,
                  status |-> None, lo |-> 0, hi |-> -1, sent |-> 0, open |-> FALSE, there |-> TRUE]
<1>1. req = [p \in R |-> req[p]] /\ req' = [req EXCEPT ![q] = l]
  BY DEF DeliveryInv, RequestsHold, Wire!Arrive
<1>2. LetsGo(l)
  BY DEF LetsGo
<1>. HIDE DEF l
<1>. QED
  BY <1>1, <1>2, HoldMoves

(* The bytes of an object are not held open for longer than somebody reads them,
   however a delivery ends, but for a HEAD through the Fetch handler
   (delivery.ts, sendNodeStream and deliveryFetch).                       *)
LEMMA StreamsStayReleased ==
  Spec => []((part = "wire" => Wire!StreamsAreReleased) /\ (part = "copy" => Copy!StreamsAreReleased))
<1>. DEFINE D == (part = "wire" => DeliveryInv(Requests)) /\ (part = "copy" => DeliveryInv({q1}))
            H == (part = "wire" => StreamsHeld(Requests)) /\ (part = "copy" => StreamsHeld({q1}))
<1>1. Init => H
  <2>1. Init /\ part = "wire" => StreamsHeld(Requests)
    BY DEF Init, Wire!DeliveryInit, StreamsHeld
  <2>2. Init /\ part = "copy" => StreamsHeld({q1})
    BY DEF Init, Copy!DeliveryInit, StreamsHeld
  <2>. QED
    BY <2>1, <2>2
<1>2. D /\ H /\ [Next]_vars => H'
  <2>1. ASSUME NEW R, StreamsHeld(R), req' = req PROVE StreamsHeld(R)'
    BY <2>1 DEF StreamsHeld
  <2>2. ASSUME NEW R, NEW q \in R, DeliveryInv(R), StreamsHeld(R),
               \/ \E ask, raw : Wire!Arrive(q, ask, raw)
               \/ Wire!Handle(q) \/ Wire!Drain(q) \/ Wire!ClientLeaves(q)
        PROVE  StreamsHeld(R)'
    BY <2>2, ArriveLetsGo, HandlerLetsGo, CopyLetsGo DEF Wire!Handle
  <2>3. ASSUME [Next]_vars
        PROVE  /\ part = "wire" => Wire!DeliveryNext \/ UNCHANGED wire
               /\ part = "copy" => Copy!DeliveryNext \/ UNCHANGED wire
    BY <2>3 DEF Next, vars, services, others, wire
  <2>4. ASSUME D, H, [Next]_vars, part = "wire" PROVE StreamsHeld(Requests)'
    <3>1. CASE \E q \in Requests : \/ \E ask, raw : Wire!Arrive(q, ask, raw)
                                   \/ Wire!Handle(q) \/ Wire!Drain(q) \/ Wire!ClientLeaves(q)
      BY <2>2, <2>4, <3>1
    <3>2. CASE req' = req
      BY <2>1, <2>4, <3>2
    <3>. QED
      BY <2>3, <2>4, <3>1, <3>2
         DEF Wire!DeliveryNext, Wire!ShareRoute, Wire!FileRoute, Wire!FetchRoute,
             Wire!Revoke, Wire!RemoveObject, Wire!Tick, Wire!Cache, wire
  <2>5. ASSUME D, H, [Next]_vars, part = "copy" PROVE StreamsHeld({q1})'
    <3>1. CASE \/ \E ask, raw : Copy!Arrive(q1, ask, raw)
               \/ Copy!Handle(q1) \/ Copy!Drain(q1) \/ Copy!ClientLeaves(q1)
      <4>1. \/ \E ask, raw : Wire!Arrive(q1, ask, raw)
            \/ Wire!Handle(q1) \/ Wire!Drain(q1) \/ Wire!ClientLeaves(q1)
        BY <3>1, CopyIsWire DEF Copy!Handle, Wire!Handle
      <4>. QED
        BY <2>2, <2>5, <4>1
    <3>2. CASE req' = req
      BY <2>1, <2>5, <3>2
    <3>. QED
      BY <2>3, <2>5, <3>1, <3>2
         DEF Copy!DeliveryNext, Copy!ShareRoute, Copy!FileRoute, Copy!FetchRoute,
             Copy!Revoke, Copy!RemoveObject, Copy!Tick, Copy!Cache, wire
  <2>. QED
    BY <2>4, <2>5, PartStands
<1>3. H => (part = "wire" => Wire!StreamsAreReleased) /\ (part = "copy" => Copy!StreamsAreReleased)
  BY DEF StreamsHeld, LetsGo, Wire!StreamsAreReleased, Copy!StreamsAreReleased
<1>. QED
  BY <1>1, <1>2, <1>3, DeliveryInvariant, PTL DEF Spec

(* Whatever the header asks for and whatever becomes of the object: a 206 is
   the bytes it names, a 200 the whole, a 416 said of a range that names none;
   a grant never gives away more copies than it was charged for, each of them
   whole under a cap; and the object is let go of (delivery.ts, parseRangeHeader
   and sendNodeStream; filelayer.ts, #reserve and #fetchDelivery).          *)
THEOREM DownloadsStayHonest == Spec => []DownloadsAreHonest
<1>. USE DeliveryFits
<1>1. ASSUME NEW R, DeliveryInv(R), grant.cap # None,
             NEW D \in SUBSET Charged(R)
      PROVE  Cardinality(D) <= grant.used /\ grant.used <= grant.cap
  <2>1. /\ IsFiniteSet(Charged(R)) /\ Cardinality(Charged(R)) <= grant.used
        /\ grant.used \in Nat /\ grant.used <= grant.cap
    BY <1>1 DEF DeliveryInv, Counted, DeliveryType
  <2>2. IsFiniteSet(D) /\ Cardinality(D) <= Cardinality(Charged(R))
    BY <2>1, FS_Subset
  <2>3. Cardinality(D) \in Nat /\ Cardinality(Charged(R)) \in Nat
    BY <2>1, <2>2, FS_CardinalityType
  <2>. QED
    BY <2>1, <2>2, <2>3
<1>. DEFINE Delivered(R) == {q \in R : req[q].stage # "new" /\ req[q].byGrant
                                      /\ req[q].status \in {200, 206, 302}}
<1>2. ASSUME NEW R, DeliveryInv(R)
      PROVE  /\ Delivered(R) \in SUBSET Charged(R)
             /\ grant.cap # None => \A q \in Delivered(R) : req[q].status # 206
  BY <1>2 DEF DeliveryInv, RequestsHold, IsCharged, Charged
<1>3. ASSUME NEW R, DeliveryInv(R), grant.cap # None
      PROVE  /\ Cardinality(Delivered(R)) <= grant.used /\ grant.used <= grant.cap
             /\ \A q \in Delivered(R) : req[q].status # 206
  BY <1>1, <1>2, <1>3
<1>4. /\ DeliveryInv(Requests) => Wire!CopiesWithinCap
      /\ DeliveryInv({q1}) => Copy!CopiesWithinCap
  <2>0. \A S : Wire!Cardinality(S) = Cardinality(S) /\ Copy!Cardinality(S) = Cardinality(S)
    BY Zenon DEF Cardinality, Wire!Cardinality, Copy!Cardinality
  <2>1. ASSUME DeliveryInv(Requests), grant.cap # None
        PROVE  /\ Cardinality(Delivered(Requests)) <= grant.used /\ grant.used <= grant.cap
               /\ \A q \in Delivered(Requests) : req[q].status # 206
    BY <1>3, <2>1
  <2>2. ASSUME DeliveryInv({q1}), grant.cap # None
        PROVE  /\ Cardinality(Delivered({q1})) <= grant.used /\ grant.used <= grant.cap
               /\ \A q \in Delivered({q1}) : req[q].status # 206
    BY <1>3, <2>2
  <2>3. DeliveryInv(Requests) => Wire!CopiesWithinCap
    BY <2>0, <2>1, Zenon DEF Wire!CopiesWithinCap, Wire!Capped
  <2>4. DeliveryInv({q1}) => Copy!CopiesWithinCap
    BY <2>0, <2>2, Zenon DEF Copy!CopiesWithinCap, Copy!Capped
  <2>. QED
    BY <2>3, <2>4
<1>5. DeliveryInv({q1}) => Copy!RangeIsHonest
  <2>1. \A raw, size : Copy!BytesNamed(raw, size) = Wire!BytesNamed(raw, size)
    BY DEF Copy!BytesNamed, Wire!BytesNamed
  <2>. QED
    BY <2>1 DEF DeliveryInv, RequestsHold, IsHonest, Copy!RangeIsHonest
<1>6. (part = "wire" => DeliveryInv(Requests)) /\ (part = "copy" => DeliveryInv({q1}))
      /\ (part = "wire" => Wire!StreamsAreReleased) /\ (part = "copy" => Copy!StreamsAreReleased)
      => DownloadsAreHonest
  BY <1>4, <1>5 DEF DownloadsAreHonest
<1>. QED
  BY <1>6, DeliveryInvariant, StreamsStayReleased, PTL

-----------------------------------------------------------------------------
(* Unsharing, statement by statement. *)

Stmts_Work == {"decide", "allow", "deny", "update", "probe", "commit"}

Fields_Work == {"stmt", "name", "at", "todo", "done", "before", "out", "asked",
                "can", "held"}

GrantRow == [issuer : Issuers, expires : Nat \cup {None}, revoked : BOOLEAN, row : Calls \cup {None}]

IsWork(l) ==
  /\ DOMAIN l = Fields_Work
  /\ l.stmt \in Stmts_Work
  /\ l.name \in {"revoke", "unshare"}
  /\ l.todo \in Seq(Nat)
  /\ l.held \in BOOLEAN

SharesType ==
  /\ grants \in Seq(GrantRow)
  /\ away \subseteq Switched
  /\ chain \in Calls \cup {None}
  /\ hour \in Nat
  /\ DOMAIN op = Calls
  /\ \A c \in Calls : op[c].stmt \in {"idle", "ask", "list"} \/ IsWork(op[c])

Rows == 1..Len(grants)

(* A grant is no longer to be withdrawn, or was out of sight. *)
OutOfIt(g, out) ==
  \/ grants[g].revoked
  \/ grants[g].expires # None /\ grants[g].expires <= hour
  \/ out \cap {bob, grants[g].issuer} # {}

(* The rows a call has done and those before it; an unshare knows of all the
   grants there were when it was called.                                    *)
RowsAhead(l) ==
  /\ l.done \subseteq Rows /\ l.before \subseteq Rows
  /\ \A i \in 1..Len(l.todo) : l.todo[i] \in Rows
  /\ l.name = "unshare" =>
       \A g \in l.before :
         g \in l.done \/ (\E i \in 1..Len(l.todo) : l.todo[i] = g) \/ OutOfIt(g, l.out)

(* It holds the rows it has done, and the chain from before the first of them;
   what it found out of the reader, and of its caller's role, stays so for as
   long, and a refusal that it has decided on is for a caller without standing. *)
LocksOf(c, l) ==
  /\ \A g \in l.done : grants[g].revoked \/ grants[g].row = c
  /\ l.done # {} => chain = c
  /\ l.stmt \in {"decide", "allow", "deny", "update"} => l.todo # <<>>
  /\ l.stmt = "update" => chain = c
  /\ l.stmt \in {"probe", "commit"} => l.done # {}
  /\ l.stmt = "commit" => /\ l.todo = <<>>
                          /\ l.can = Shares!Readable(l.at, l.asked, l.done)
  /\ l.held => chain = c /\ c \in able
  /\ l.stmt = "deny" /\ chain = c => c \in l.asked \/ c \notin able

CallHolds(c, l) ==
  /\ l.stmt \in {"ask", "list"} => DOMAIN l = {"stmt", "before"} /\ l.before \subseteq Rows
  /\ l.stmt \in Stmts_Work => RowsAhead(l) /\ LocksOf(c, l)

(* Who has a row or the chain is at work with it. *)
LocksHeld ==
  /\ \A g \in Rows : grants[g].row # None =>
       op[grants[g].row].stmt \in Stmts_Work /\ g \in op[grants[g].row].done
  /\ chain # None => op[chain].stmt \in Stmts_Work

CallsHold == \A c \in Calls : CallHolds(c, op[c])

UnsharingInv ==
  /\ SharesType
  /\ CallsHold
  /\ LocksHeld
  /\ Shares!UnshareLasts
  /\ Shares!AnswerIsTrue
  /\ Shares!HalfWayWithoutStanding

LEMMA SharesFit ==
  /\ None \notin Calls /\ None \notin Nat /\ Revokers \subseteq Calls /\ bob \notin Issuers
  /\ Switched \subseteq Issuers \cup Calls \cup {bob} /\ Lifetimes \subseteq Nat \cup {None}
BY ConstantsFit DEF Shares!UnsharingConstants

LEMMA SharesBegin == Init /\ part = "unshare" => UnsharingInv
<1>. SUFFICES ASSUME Init, part = "unshare" PROVE UnsharingInv
  OBVIOUS
<1>1. /\ grants = <<>> /\ away = {} /\ chain = None /\ hour = 0 /\ said = None
      /\ op = [c \in Calls |-> [stmt |-> "idle"]]
  BY DEF Init, Shares!UnsharingInit, Shares!Idle
<1>2. SharesType
  BY <1>1 DEF SharesType
<1>3. CallsHold
  <2>1. \A c \in Calls : op[c].stmt = "idle"
    BY <1>1
  <2>. QED
    BY <2>1 DEF CallHolds, CallsHold, Stmts_Work
<1>4. LocksHeld
  BY <1>1 DEF LocksHeld, Rows
<1>. QED
  BY <1>1, <1>2, <1>3, <1>4 DEF UnsharingInv, Shares!UnshareLasts, Shares!AnswerIsTrue,
     Shares!HalfWayWithoutStanding

LEMMA RowFields ==
  ASSUME SharesType
  PROVE  /\ Len(grants) \in Nat /\ DOMAIN grants = Rows
         /\ \A g \in Rows : /\ grants[g] \in GrantRow
                            /\ grants[g].expires \in Nat \cup {None}
                            /\ grants[g].revoked \in BOOLEAN
                            /\ grants[g].row \in Calls \cup {None}
<1>1. Len(grants) \in Nat /\ DOMAIN grants = Rows /\ \A g \in Rows : grants[g] \in GrantRow
  BY DEF SharesType, Rows
<1>. QED
  BY <1>1 DEF GrantRow

(* A step of c, or of nobody's: rows are only added, what is revoked stays so,
   and nobody else loses a row or the chain.  Whoever has the chain sees the
   reader's access as it was.                                               *)
RowsGoOn(c) ==
  /\ Len(grants) <= Len(grants')
  /\ \A g \in Rows : /\ grants'[g].issuer = grants[g].issuer /\ grants'[g].expires = grants[g].expires
                     /\ grants[g].revoked => grants'[g].revoked
                     /\ \A d \in Calls : d # c /\ grants[g].row = d => grants'[g].row = d
  /\ hour <= hour'

ChainGoesOn(c) ==
  \A d \in Calls : d # c =>
    /\ chain' = d => chain = d
    /\ chain = d => /\ chain' = d /\ able' = able /\ Len(grants') = Len(grants)
                    /\ \A g \in Rows : grants'[g].revoked = grants[g].revoked

OthersWait(c) == \A d \in Calls : d # c => op'[d] = op[d]

(* What is held after it was held before by another, or is c's. *)
LocksGoOn(c) ==
  /\ \A g \in Rows' :
       \/ grants'[g].row = None
       \/ g \in Rows /\ grants'[g].row = grants[g].row /\ grants[g].row # c
       \/ c \in Calls /\ grants'[g].row = c /\ op'[c].stmt \in Stmts_Work /\ g \in op'[c].done
  /\ \/ chain' = None
     \/ chain' = chain /\ chain # c
     \/ c \in Calls /\ chain' = c /\ op'[c].stmt \in Stmts_Work

LEMMA SameSight ==
  ASSUME SharesType, SharesType', able' = able, Len(grants') = Len(grants),
         \A g \in Rows : /\ grants'[g].issuer = grants[g].issuer
                         /\ grants'[g].expires = grants[g].expires
                         /\ grants'[g].revoked = grants[g].revoked,
         NEW t, NEW out, NEW W
  PROVE  Shares!Readable(t, out, W)' = Shares!Readable(t, out, W)
<1>1. DOMAIN grants = Rows /\ DOMAIN grants' = Rows
  BY DEF SharesType, Rows
<1>2. \A g \in Rows : Shares!Live(g, t, out, W)' <=> Shares!Live(g, t, out, W)
  BY DEF Shares!Live
<1>3. Shares!Readable(t, out, W)' <=> Shares!Readable(t, out, W)
  BY <1>1, <1>2 DEF Shares!Readable
<1>. QED
  BY <1>3, Zenon DEF Shares!Readable

LEMMA SightStands ==
  ASSUME grants' = grants, able' = able, NEW t, NEW out, NEW W
  PROVE  Shares!Readable(t, out, W)' = Shares!Readable(t, out, W)
<1>1. \A g \in DOMAIN grants : Shares!Live(g, t, out, W)' <=> Shares!Live(g, t, out, W)
  BY DEF Shares!Live
<1>2. Shares!Readable(t, out, W)' <=> Shares!Readable(t, out, W)
  BY <1>1 DEF Shares!Readable
<1>. QED
  BY <1>2, Zenon DEF Shares!Readable

LEMMA OthersGoOn ==
  ASSUME SharesType, SharesType', NEW c \in Calls \cup {None}, RowsGoOn(c), ChainGoesOn(c),
         NEW d \in Calls, d # c, op'[d] = op[d], CallHolds(d, op[d])
  PROVE  CallHolds(d, op[d])'
<1>. DEFINE l == op[d]
<1>1. op'[d] = l /\ CallHolds(d, l)
  OBVIOUS
<1>2. Rows \subseteq Rows' /\ Len(grants) \in Nat /\ Len(grants') \in Nat
  BY DEF SharesType, RowsGoOn, Rows
<1>3. CASE l.stmt \in {"ask", "list"}
  BY <1>1, <1>2, <1>3 DEF CallHolds, Stmts_Work
<1>4. CASE l.stmt \in Stmts_Work
  <2>1. RowsAhead(l) /\ LocksOf(d, l)
    BY <1>1, <1>4 DEF CallHolds
  <2>2. ASSUME NEW g \in Rows, OutOfIt(g, l.out) PROVE OutOfIt(g, l.out)'
    <3>1. /\ grants'[g].issuer = grants[g].issuer /\ grants'[g].expires = grants[g].expires
          /\ grants[g].revoked => grants'[g].revoked
          /\ grants[g].expires \in Nat \cup {None}
      BY RowFields DEF RowsGoOn
    <3>2. hour \in Nat /\ hour' \in Nat /\ hour <= hour'
      BY DEF SharesType, RowsGoOn
    <3>3. l'.out = l.out
      BY <1>1
    <3>. HIDE DEF l
    <3>. QED
      <4>1. CASE grants[g].revoked
        BY <3>1, <4>1 DEF OutOfIt
      <4>2. CASE grants[g].expires # None /\ grants[g].expires <= hour
        BY <3>1, <3>2, <4>2 DEF OutOfIt
      <4>3. CASE l.out \cap {bob, grants[g].issuer} # {}
        BY <3>1, <3>3, <4>3 DEF OutOfIt
      <4>. QED
        BY <2>2, <4>1, <4>2, <4>3 DEF OutOfIt
  <2>3. RowsAhead(l)'
    <3>1. \A g \in l.before : OutOfIt(g, l.out) => OutOfIt(g, l.out)'
      BY <2>1, <2>2 DEF RowsAhead
    <3>2. l' = l
      BY <1>1
    <3>. HIDE DEF l
    <3>. QED
      BY <1>2, <2>1, <3>1, <3>2 DEF RowsAhead
  <2>4. \A g \in l.done : grants'[g].revoked \/ grants'[g].row = d
    BY <2>1 DEF RowsAhead, LocksOf, RowsGoOn
  <2>5. (chain = d <=> chain' = d) /\ (chain = d => able' = able)
    BY DEF ChainGoesOn
  <2>6. l.stmt = "commit" => l.can = Shares!Readable(l.at, l.asked, l.done)'
    <3>. SUFFICES ASSUME l.stmt = "commit" PROVE l.can = Shares!Readable(l.at, l.asked, l.done)'
      OBVIOUS
    <3>1. chain = d /\ l.can = Shares!Readable(l.at, l.asked, l.done)
      BY <2>1 DEF LocksOf
    <3>2. /\ able' = able /\ Len(grants') = Len(grants)
          /\ \A g \in Rows : grants'[g].revoked = grants[g].revoked
          /\ \A g \in Rows : grants'[g].issuer = grants[g].issuer /\ grants'[g].expires = grants[g].expires
      BY <3>1 DEF RowsGoOn, ChainGoesOn
    <3>3. \A t, out, W : Shares!Readable(t, out, W)' = Shares!Readable(t, out, W)
      BY <3>2, SameSight
    <3>. QED
      BY <1>1, <3>1, <3>3
  <2>7. l' = l
    BY <1>1
  <2>8. LocksOf(d, l)'
    <3>. HIDE DEF l
    <3>. QED
      BY <1>2, <2>1, <2>4, <2>5, <2>6, <2>7 DEF LocksOf
  <2>. QED
    BY <1>4, <2>3, <2>7, <2>8 DEF CallHolds, Stmts_Work
<1>5. CASE l.stmt \notin Stmts_Work \cup {"ask", "list"}
  BY <1>1, <1>5 DEF CallHolds
<1>. QED
  BY <1>3, <1>4, <1>5

LEMMA OneCallSteps ==
  ASSUME SharesType, SharesType', CallsHold, LocksHeld, NEW c \in Calls \cup {None},
         RowsGoOn(c), ChainGoesOn(c), OthersWait(c), LocksGoOn(c),
         c \in Calls => CallHolds(c, op[c])'
  PROVE  CallsHold' /\ LocksHeld'
<1>1. CallsHold'
  BY OthersGoOn DEF CallsHold, OthersWait
<1>2. ASSUME NEW g \in Rows', grants'[g].row # None
      PROVE  op'[grants'[g].row].stmt \in Stmts_Work /\ g \in op'[grants'[g].row].done
  <2>1. CASE g \in Rows /\ grants'[g].row = grants[g].row /\ grants[g].row # c
    <3>1. grants[g].row \in Calls
      BY <1>2, <2>1, RowFields
    <3>. QED
      BY <1>2, <2>1, <3>1 DEF LocksHeld, OthersWait
  <2>2. CASE c \in Calls /\ grants'[g].row = c /\ op'[c].stmt \in Stmts_Work /\ g \in op'[c].done
    BY <2>2
  <2>. QED
    BY <1>2, <2>1, <2>2 DEF LocksGoOn
<1>3. chain' # None => op'[chain'].stmt \in Stmts_Work
  BY DEF LocksGoOn, LocksHeld, OthersWait, SharesType
<1>. QED
  BY <1>1, <1>2, <1>3 DEF LocksHeld

(* The steps that are nobody's: rows and holders stay, or a row is added while
   nobody has the chain.                                                    *)
LEMMA SharesGrow ==
  ASSUME UnsharingInv, NEW i \in Issuers, NEW e \in Lifetimes, Shares!Share(i, e)
  PROVE  UnsharingInv'
<1>. DEFINE new == [issuer |-> i, expires |-> IF e = None THEN None ELSE hour + e,
                    revoked |-> FALSE, row |-> None]
            n == Len(grants)
<1>1. /\ grants' = Append(grants, new) /\ said' = None /\ chain = None
      /\ able' = able /\ away' = away /\ chain' = chain /\ op' = op /\ hour' = hour
  BY DEF Shares!Share
<1>2. SharesType /\ CallsHold /\ LocksHeld
  BY DEF UnsharingInv
<1>3. new \in GrantRow
  BY <1>2, SharesFit DEF GrantRow, SharesType
<1>. HIDE DEF new
<1>4. /\ grants' \in Seq(GrantRow) /\ n \in Nat /\ Len(grants') = n + 1
      /\ \A g \in Rows : grants'[g] = grants[g]
      /\ grants'[n + 1] = new
  BY <1>1, <1>2, <1>3 DEF SharesType, Rows
<1>5. SharesType'
  BY <1>1, <1>2, <1>4 DEF SharesType
<1>6. RowsGoOn(None) /\ ChainGoesOn(None) /\ OthersWait(None)
  <2>1. hour \in Nat
    BY <1>2 DEF SharesType
  <2>2. RowsGoOn(None)
    <3>1. Len(grants) <= Len(grants') /\ hour <= hour'
      BY <1>1, <1>4, <2>1
    <3>. QED
      BY <1>4, <3>1 DEF RowsGoOn
  <2>3. ChainGoesOn(None) /\ OthersWait(None)
    BY <1>1, SharesFit DEF ChainGoesOn, OthersWait
  <2>. QED
    BY <2>2, <2>3
<1>7. LocksGoOn(None)
  <2>1. new.row = None
    BY DEF new
  <2>2. \A g \in Rows' : g \in Rows \/ g = n + 1
    BY <1>4 DEF Rows
  <2>3. \A g \in Rows' : grants'[g].row = None \/ (g \in Rows /\ grants'[g].row = grants[g].row)
    BY <1>4, <2>1, <2>2
  <2>. QED
    BY <1>1, <2>3 DEF LocksGoOn
<1>8. None \notin Calls
  BY SharesFit
<1>9. CallsHold' /\ LocksHeld'
  BY <1>2, <1>5, <1>6, <1>7, <1>8, OneCallSteps
<1>. QED
  BY <1>1, <1>5, <1>9 DEF UnsharingInv, Shares!UnshareLasts, Shares!AnswerIsTrue,
     Shares!HalfWayWithoutStanding

LEMMA SwitchesAndTime ==
  ASSUME UnsharingInv,
         \/ \E p \in Calls \cup {bob} : Shares!ChangeRole(p)
         \/ \E a \in Switched : Shares!Suspend(a)
         \/ Shares!Tick
  PROVE  UnsharingInv'
<1>1. /\ grants' = grants /\ said' = None /\ chain' = chain /\ op' = op
      /\ hour' = hour \/ hour' = hour + 1
      /\ away' = away \/ \E a \in Switched : away' \subseteq away \cup {a}
      /\ able' = able \/ chain = None
  BY DEF Shares!ChangeRole, Shares!Suspend, Shares!Tick
<1>2. SharesType /\ CallsHold /\ LocksHeld
  BY DEF UnsharingInv
<1>3. SharesType'
  BY <1>1, <1>2 DEF SharesType
<1>4. RowsGoOn(None) /\ ChainGoesOn(None) /\ OthersWait(None)
  BY <1>1, <1>2, SharesFit DEF RowsGoOn, ChainGoesOn, OthersWait, SharesType
<1>5. LocksGoOn(None)
  BY <1>1 DEF LocksGoOn, Rows
<1>6. None \notin Calls
  BY SharesFit
<1>7. CallsHold' /\ LocksHeld'
  BY <1>2, <1>3, <1>4, <1>5, <1>6, OneCallSteps
<1>. QED
  BY <1>1, <1>3, <1>7 DEF UnsharingInv, Shares!UnshareLasts, Shares!AnswerIsTrue,
     Shares!HalfWayWithoutStanding

(* The steps of a call that leave the rows alone. *)
LEMMA CallMovesOn ==
  ASSUME SharesType, CallsHold, LocksHeld, NEW c \in Calls,
         grants' = grants, able' = able, away' = away, hour' = hour,
         chain' = chain \/ (chain \in {None, c} /\ chain' = c),
         op' = [op EXCEPT ![c] = op'[c]],
         op'[c].stmt \in {"idle", "ask", "list"} \/ IsWork(op'[c]),
         CallHolds(c, op[c])',
         \A g \in Rows : grants[g].row = c => op'[c].stmt \in Stmts_Work /\ g \in op'[c].done,
         chain' = c => op'[c].stmt \in Stmts_Work
  PROVE  SharesType' /\ CallsHold' /\ LocksHeld'
<1>1. DOMAIN op' = Calls /\ OthersWait(c)
  BY DEF SharesType, OthersWait
<1>2. SharesType'
  BY <1>1 DEF SharesType, OthersWait
<1>3. RowsGoOn(c) /\ ChainGoesOn(c)
  BY SharesFit DEF RowsGoOn, ChainGoesOn, SharesType
<1>4. LocksGoOn(c)
  BY DEF LocksGoOn, Rows
<1>. QED
  BY <1>1, <1>2, <1>3, <1>4, OneCallSteps

LEMMA IdleHoldsNothing ==
  ASSUME SharesType, LocksHeld, NEW c \in Calls, op[c].stmt \notin Stmts_Work
  PROVE  chain # c /\ \A g \in Rows : grants[g].row # c
BY SharesFit DEF LocksHeld

LEMMA RevokeBegins ==
  ASSUME UnsharingInv, NEW c \in Calls, NEW g \in DOMAIN grants, Shares!BeginRevoke(c, g)
  PROVE  UnsharingInv'
<1>. DEFINE l == Shares!Started("revoke", <<g>>)
<1>1. /\ op[c] = Shares!Idle /\ op' = [op EXCEPT ![c] = l] /\ said' = None
      /\ grants' = grants /\ able' = able /\ away' = away /\ chain' = chain /\ hour' = hour
  BY DEF Shares!BeginRevoke
<1>2. SharesType /\ CallsHold /\ LocksHeld
  BY DEF UnsharingInv
<1>3. g \in Nat /\ g \in Rows /\ DOMAIN grants = Rows
  BY <1>2, RowFields DEF Rows
<1>4. /\ l.stmt = "decide" /\ l.name = "revoke" /\ l.todo = <<g>> /\ l.done = {} /\ l.before = Rows
      /\ l.held = FALSE /\ DOMAIN l = Fields_Work
  BY <1>3 DEF Shares!Started, Fields_Work
<1>5. op'[c] = l
  BY <1>1, <1>2 DEF SharesType
<1>. HIDE DEF l
<1>6. IsWork(l)
  <2>1. l.todo \in Seq(Nat)
    BY <1>3, <1>4
  <2>. QED
    BY <1>4, <2>1 DEF IsWork, Stmts_Work
<1>7. RowsAhead(l)
  BY <1>3, <1>4 DEF RowsAhead
<1>8. LocksOf(c, l)
  BY <1>4 DEF LocksOf
<1>9. CallHolds(c, op[c])'
  <2>1. RowsAhead(op[c])' /\ LocksOf(c, op[c])'
    BY <1>1, <1>4, <1>5, <1>7, <1>8 DEF RowsAhead, LocksOf, OutOfIt, Rows
  <2>. QED
    BY <1>4, <1>5, <2>1 DEF CallHolds
<1>10. op[c].stmt \notin Stmts_Work
  BY <1>1 DEF Shares!Idle, Stmts_Work
<1>11. chain # c /\ \A h \in Rows : grants[h].row # c
  BY <1>2, <1>10, IdleHoldsNothing
<1>12. SharesType' /\ CallsHold' /\ LocksHeld'
  BY <1>1, <1>2, <1>5, <1>6, <1>9, <1>11, CallMovesOn
<1>. QED
  BY <1>1, <1>12 DEF UnsharingInv, Shares!UnshareLasts, Shares!AnswerIsTrue,
     Shares!HalfWayWithoutStanding

LEMMA UnshareBegins ==
  ASSUME UnsharingInv, NEW c \in Calls, Shares!FindActor(c)
  PROVE  UnsharingInv'
<1>1. /\ op[c] = Shares!Idle
      /\ grants' = grants /\ able' = able /\ away' = away /\ chain' = chain /\ hour' = hour
  BY DEF Shares!FindActor
<1>2. SharesType /\ CallsHold /\ LocksHeld
  BY DEF UnsharingInv
<1>3. DOMAIN grants = Rows
  BY <1>2, RowFields
<1>4. op[c].stmt = "idle"
  BY <1>1 DEF Shares!Idle
<1>5. chain # c /\ \A h \in Rows : grants[h].row # c
  BY <1>2, <1>4, IdleHoldsNothing DEF Stmts_Work
<1>6. CASE bob \in away
  <2>1. op' = op /\ said' = [name |-> "unshare", before |-> DOMAIN grants, out |-> away]
    BY <1>6 DEF Shares!FindActor
  <2>2. SharesType' /\ CallsHold' /\ LocksHeld'
    <3>1. Rows' = Rows /\ \A d \in Calls : CallHolds(d, op[d])' = CallHolds(d, op[d])
      BY <1>1, <2>1 DEF CallHolds, RowsAhead, LocksOf, OutOfIt, Rows, Shares!Readable, Shares!Live
    <3>. QED
      BY <1>1, <1>2, <2>1, <3>1 DEF SharesType, CallsHold, LocksHeld
  <2>3. Shares!UnshareLasts' /\ Shares!AnswerIsTrue' /\ Shares!HalfWayWithoutStanding'
    BY <1>1, <1>6, <2>1 DEF Shares!UnshareLasts, Shares!AnswerIsTrue, Shares!HalfWayWithoutStanding
  <2>. QED
    BY <2>2, <2>3 DEF UnsharingInv
<1>7. CASE bob \notin away
  <2>. DEFINE l == [stmt |-> "ask", before |-> DOMAIN grants]
  <2>1. op' = [op EXCEPT ![c] = l] /\ said' = None
    BY <1>7 DEF Shares!FindActor
  <2>2. op'[c] = l
    BY <1>2, <2>1 DEF SharesType
  <2>3. l.stmt = "ask" /\ l.before = Rows /\ DOMAIN l = {"stmt", "before"}
    BY <1>3
  <2>. HIDE DEF l
  <2>4. CallHolds(c, op[c])'
    BY <1>1, <2>2, <2>3 DEF CallHolds, Stmts_Work, Rows
  <2>5. SharesType' /\ CallsHold' /\ LocksHeld'
    BY <1>1, <1>2, <1>5, <2>1, <2>2, <2>3, <2>4, CallMovesOn
  <2>. QED
    BY <2>1, <2>5 DEF UnsharingInv, Shares!UnshareLasts, Shares!AnswerIsTrue,
       Shares!HalfWayWithoutStanding
<1>. QED
  BY <1>6, <1>7

LEMMA ListingIsDecided ==
  ASSUME UnsharingInv, NEW c \in Calls, Shares!MayList(c)
  PROVE  UnsharingInv'
<1>. DEFINE l == op'[c]
<1>1. /\ op[c].stmt = "ask" /\ said' = None
      /\ op' = [op EXCEPT ![c] = IF Shares!Entitled(c) THEN [@ EXCEPT !.stmt = "list"]
                                 ELSE [stmt |-> "idle"]]
      /\ grants' = grants /\ able' = able /\ away' = away /\ chain' = chain /\ hour' = hour
  BY DEF Shares!MayList, Shares!Idle
<1>2. SharesType /\ CallsHold /\ LocksHeld
  BY DEF UnsharingInv
<1>3. DOMAIN op[c] = {"stmt", "before"} /\ op[c].before \subseteq Rows
  BY <1>1, <1>2 DEF CallsHold, CallHolds
<1>4. l = IF Shares!Entitled(c) THEN [op[c] EXCEPT !.stmt = "list"] ELSE [stmt |-> "idle"]
  BY <1>1, <1>2 DEF SharesType
<1>5. op' = [op EXCEPT ![c] = l]
  BY <1>1, <1>4
<1>. HIDE DEF l
<1>6. \/ l.stmt = "list" /\ l.before = op[c].before /\ DOMAIN l = {"stmt", "before"}
      \/ l.stmt = "idle"
  BY <1>3, <1>4
<1>7. Rows' = Rows /\ l.stmt \notin Stmts_Work
  BY <1>1, <1>6 DEF Rows, Stmts_Work
<1>8. CallHolds(c, op[c])'
  BY <1>3, <1>6, <1>7 DEF CallHolds, l
<1>9. chain # c /\ \A h \in Rows : grants[h].row # c
  BY <1>1, <1>2, IdleHoldsNothing DEF Stmts_Work
<1>10. SharesType' /\ CallsHold' /\ LocksHeld'
  BY <1>1, <1>2, <1>5, <1>6, <1>8, <1>9, CallMovesOn DEF l
<1>. QED
  BY <1>1, <1>10 DEF UnsharingInv, Shares!UnshareLasts, Shares!AnswerIsTrue,
     Shares!HalfWayWithoutStanding

(* A set of rows has one ascending enumeration. *)
Ascends(S, s) ==
  /\ \A g \in S : \E i \in DOMAIN s : s[i] = g
  /\ \A i, j \in DOMAIN s : i < j => s[i] < s[j]

LEMMA Ascending ==
  ASSUME NEW n \in Nat, NEW S \in SUBSET (1..n)
  PROVE  \E s \in [1..Cardinality(S) -> S] : Ascends(S, s)
<1>. DEFINE Can(T) == \E s \in [1..Cardinality(T) -> T] : Ascends(T, s)
            Bad == {m \in Nat : \E T \in SUBSET (1..m) : ~Can(T)}
<1>. HIDE DEF Can
<1>1. SUFFICES Bad = {}
  BY DEF Can
<1>2. SUFFICES ASSUME Bad # {} PROVE FALSE
  OBVIOUS
<1>3. PICK m \in Bad : \A k \in Bad : m <= k
  BY <1>2, LeastOf
<1>4. PICK T \in SUBSET (1..m) : ~Can(T)
  BY <1>3
<1>5. T # {}
  <2>1. Can({})
    <3>1. Cardinality({}) = 0
      BY FS_EmptySet
    <3>2. [i \in {} |-> i] \in [1..0 -> {}] /\ Ascends({}, [i \in {} |-> i])
      BY DEF Ascends
    <3>. QED
      BY <3>1, <3>2 DEF Can
  <2>. QED
    BY <1>4, <2>1
<1>6. m \in Nat /\ m # 0 /\ m - 1 \in Nat /\ m - 1 \notin Bad
  <2>1. m \in Nat
    BY <1>3
  <2>2. m # 0
    <3>1. m = 0 => 1..m = {}
      OBVIOUS
    <3>. QED
      BY <1>4, <1>5, <3>1
  <2>3. m - 1 \in Nat /\ ~(m <= m - 1)
    BY <2>1, <2>2
  <2>. QED
    BY <1>3, <2>1, <2>2, <2>3
<1>7. m \in T
  <2>1. SUFFICES ASSUME m \notin T PROVE FALSE
    OBVIOUS
  <2>2. T \in SUBSET (1..(m - 1))
    BY <1>6, <2>1
  <2>. QED
    BY <1>4, <1>6, <2>2
<1>. DEFINE R == T \ {m}
            k == Cardinality(R)
<1>8. R \in SUBSET (1..(m - 1))
  BY <1>6
<1>9. Can(R)
  BY <1>6, <1>8
<1>10. IsFiniteSet(R) /\ k \in Nat /\ Cardinality(T) = k + 1
  <2>1. IsFiniteSet(R)
    <3>1. IsFiniteSet(1..(m - 1))
      BY <1>6, FS_Interval
    <3>. QED
      BY <1>8, <3>1, FS_Subset
  <2>2. T = R \cup {m} /\ m \notin R
    BY <1>7
  <2>. QED
    BY <2>1, <2>2, FS_AddElement, FS_CardinalityType
<1>11. PICK r \in [1..k -> R] : Ascends(R, r)
  BY <1>9 DEF Can
<1>. HIDE DEF k
<1>. DEFINE s == [i \in 1..(k + 1) |-> IF i = k + 1 THEN m ELSE r[i]]
<1>12. s \in [1..(k + 1) -> T]
  BY <1>7, <1>10
<1>13. \A g \in T : \E i \in 1..(k + 1) : s[i] = g
  <2>1. ASSUME NEW g \in R PROVE \E i \in 1..(k + 1) : s[i] = g
    <3>1. PICK i \in 1..k : r[i] = g
      BY <1>11 DEF Ascends
    <3>2. i \in 1..(k + 1) /\ i # k + 1
      BY <1>10
    <3>. QED
      BY <3>1, <3>2
  <2>2. k + 1 \in 1..(k + 1) /\ s[k + 1] = m
    BY <1>10
  <2>. QED
    BY <2>1, <2>2
<1>14. \A i, j \in 1..(k + 1) : i < j => s[i] < s[j]
  <2>. SUFFICES ASSUME NEW i \in 1..(k + 1), NEW j \in 1..(k + 1), i < j PROVE s[i] < s[j]
    OBVIOUS
  <2>1. i \in 1..k /\ s[i] = r[i]
    BY <1>10
  <2>2. CASE j = k + 1
    <3>1. r[i] \in 1..(m - 1)
      BY <1>8, <2>1
    <3>. QED
      BY <1>6, <2>1, <2>2, <3>1
  <2>3. CASE j # k + 1
    <3>1. j \in 1..k /\ s[j] = r[j]
      BY <1>10, <2>3
    <3>. QED
      BY <1>11, <2>1, <3>1 DEF Ascends
  <2>. QED
    BY <2>2, <2>3
<1>15. Ascends(T, s)
  BY <1>13, <1>14 DEF Ascends
<1>. HIDE DEF s
<1>16. Can(T)
  BY <1>10, <1>12, <1>15 DEF Can
<1>. QED
  BY <1>4, <1>16

LEMMA InOrderAscends ==
  ASSUME NEW n \in Nat, NEW S \in SUBSET (1..n)
  PROVE  /\ Shares!InOrder(S) \in Seq(S)
         /\ Ascends(S, Shares!InOrder(S))
         /\ DOMAIN Shares!InOrder(S) = 1..Len(Shares!InOrder(S))
<1>. DEFINE s == Shares!InOrder(S)
<1>1. Shares!Cardinality(S) = Cardinality(S)
  BY Zenon DEF Shares!Cardinality, Cardinality, Shares!IsFiniteSet, IsFiniteSet
<1>2. s \in [1..Cardinality(S) -> S] /\ Ascends(S, s)
  BY <1>1, Ascending DEF Shares!InOrder, Ascends
<1>3. Cardinality(S) \in Nat
  <2>1. IsFiniteSet(1..n)
    BY FS_Interval
  <2>. QED
    BY <2>1, FS_Subset, FS_CardinalityType
<1>. HIDE DEF s
<1>4. s \in Seq(S) /\ DOMAIN s = 1..Len(s)
  BY <1>2, <1>3
<1>. QED
  BY <1>2, <1>4 DEF s

LEMMA GrantsAreListed ==
  ASSUME UnsharingInv, NEW c \in Calls, Shares!ListGrants(c)
  PROVE  UnsharingInv'
<1>. DEFINE matches == {g \in DOMAIN grants : Shares!Live(g, hour, away, {})}
            s == Shares!InOrder(matches)
<1>1. /\ op[c].stmt = "list"
      /\ grants' = grants /\ able' = able /\ away' = away /\ chain' = chain /\ hour' = hour
  BY DEF Shares!ListGrants
<1>2. SharesType /\ CallsHold /\ LocksHeld
  BY DEF UnsharingInv
<1>3. DOMAIN grants = Rows /\ Len(grants) \in Nat
  BY <1>2, RowFields
<1>4. op[c].before \subseteq Rows
  BY <1>1, <1>2 DEF CallsHold, CallHolds
<1>5. chain # c /\ \A h \in Rows : grants[h].row # c
  BY <1>1, <1>2, IdleHoldsNothing DEF Stmts_Work
<1>6. \A g \in Rows : g \notin matches => OutOfIt(g, away)
  <2>. SUFFICES ASSUME NEW g \in Rows, ~Shares!Live(g, hour, away, {}) PROVE OutOfIt(g, away)
    BY <1>3
  <2>1. grants[g].expires \in Nat \cup {None} /\ hour \in Nat
    BY <1>2, RowFields DEF SharesType
  <2>. QED
    BY <2>1, SharesFit DEF Shares!Live, OutOfIt
<1>7. matches \in SUBSET (1..Len(grants))
  BY <1>3 DEF Rows
<1>. HIDE DEF matches
<1>8. CASE matches = {}
  <2>1. /\ said' = [name |-> "unshare", before |-> op[c].before, out |-> away]
        /\ op' = [op EXCEPT ![c] = [stmt |-> "idle"]]
    BY <1>8 DEF Shares!ListGrants, matches, Shares!Idle
  <2>2. op'[c] = [stmt |-> "idle"]
    BY <1>2, <2>1 DEF SharesType
  <2>3. op'[c].stmt = "idle"
    BY <2>2
  <2>4. CallHolds(c, op[c])'
    BY <2>3 DEF CallHolds, Stmts_Work
  <2>5. SharesType' /\ CallsHold' /\ LocksHeld'
    BY <1>1, <1>2, <1>5, <2>1, <2>2, <2>3, <2>4, CallMovesOn
  <2>6. Shares!UnshareLasts'
    BY <1>1, <1>4, <1>6, <1>8, <2>1 DEF Shares!UnshareLasts, OutOfIt
  <2>7. Shares!AnswerIsTrue' /\ Shares!HalfWayWithoutStanding'
    BY <2>1 DEF Shares!AnswerIsTrue, Shares!HalfWayWithoutStanding
  <2>. QED
    BY <2>5, <2>6, <2>7 DEF UnsharingInv
<1>9. CASE matches # {}
  <2>. DEFINE l == [Shares!Started("unshare", s) EXCEPT !.before = op[c].before]
  <2>1. op' = [op EXCEPT ![c] = l] /\ said' = None
    BY <1>9 DEF Shares!ListGrants, matches
  <2>2. op'[c] = l
    BY <1>2, <2>1 DEF SharesType
  <2>3. /\ l.stmt = "decide" /\ l.name = "unshare" /\ l.todo = s /\ l.done = {} /\ l.held = FALSE
        /\ l.before = op[c].before /\ l.out = away /\ DOMAIN l = Fields_Work
    BY DEF Shares!Started, Fields_Work
  <2>4. s \in Seq(matches) /\ Ascends(matches, s) /\ DOMAIN s = 1..Len(s)
    BY <1>3, <1>7, InOrderAscends
  <2>. HIDE DEF l, s
  <2>5. s \in Seq(Nat) /\ s # <<>> /\ \A i \in 1..Len(s) : s[i] \in Rows
    <3>1. s # <<>>
      BY <1>9, <2>4 DEF Ascends
    <3>2. matches \subseteq Nat /\ matches \subseteq Rows
      BY <1>7 DEF Rows
    <3>3. Len(s) \in Nat /\ s \in [1..Len(s) -> matches]
      BY <2>4
    <3>4. s \in [1..Len(s) -> Nat]
      BY <3>2, <3>3
    <3>5. s \in Seq(Nat) /\ \A i \in 1..Len(s) : s[i] \in matches
      BY <3>3, <3>4
    <3>. QED
      BY <3>1, <3>2, <3>5
  <2>6. IsWork(l)
    BY <2>3, <2>5 DEF IsWork, Stmts_Work
  <2>7. RowsAhead(l)
    <3>1. \A g \in l.before : (\E i \in 1..Len(s) : s[i] = g) \/ OutOfIt(g, away)
      BY <1>4, <1>6, <2>3, <2>4 DEF Ascends
    <3>. QED
      BY <1>4, <2>3, <2>5, <3>1 DEF RowsAhead
  <2>8. LocksOf(c, l)
    BY <2>3, <2>5 DEF LocksOf
  <2>9. CallHolds(c, op[c])'
    <3>1. RowsAhead(op[c])' /\ LocksOf(c, op[c])'
      BY <1>1, <2>2, <2>3, <2>7, <2>8 DEF RowsAhead, LocksOf, OutOfIt, Rows
    <3>. QED
      BY <2>2, <2>3, <3>1 DEF CallHolds
  <2>10. SharesType' /\ CallsHold' /\ LocksHeld'
    BY <1>1, <1>2, <1>5, <2>1, <2>2, <2>6, <2>9, CallMovesOn
  <2>. QED
    BY <2>1, <2>10 DEF UnsharingInv, Shares!UnshareLasts, Shares!AnswerIsTrue,
       Shares!HalfWayWithoutStanding
<1>. QED
  BY <1>8, <1>9

LEMMA AtWork_Holds ==
  ASSUME UnsharingInv, NEW c \in Calls, op[c].stmt \in Stmts_Work
  PROVE  /\ IsWork(op[c]) /\ RowsAhead(op[c]) /\ LocksOf(c, op[c])
         /\ SharesType /\ CallsHold /\ LocksHeld
BY DEF UnsharingInv, CallsHold, CallHolds, SharesType, Stmts_Work

(* The steps of a transaction that leave the rows alone. *)
LEMMA WorkMovesOn ==
  ASSUME UnsharingInv, NEW c \in Calls, op[c].stmt \in Stmts_Work,
         grants' = grants, able' = able, away' = away, hour' = hour, said' = None,
         chain' = chain \/ (chain \in {None, c} /\ chain' = c),
         op' = [op EXCEPT ![c] = op'[c]], IsWork(op'[c]),
         op'[c].todo = op[c].todo, op'[c].done = op[c].done, op'[c].name = op[c].name,
         op'[c].before = op[c].before, op'[c].out = op[c].out,
         LocksOf(c, op[c])'
  PROVE  UnsharingInv'
<1>1. /\ RowsAhead(op[c]) /\ LocksOf(c, op[c])
      /\ SharesType /\ CallsHold /\ LocksHeld
  BY AtWork_Holds
<1>2. RowsAhead(op[c])'
  <2>1. Rows' = Rows /\ \A h, out : OutOfIt(h, out)' <=> OutOfIt(h, out)
    BY DEF Rows, OutOfIt
  <2>. QED
    BY <1>1, <2>1 DEF RowsAhead
<1>3. op'[c].stmt \in Stmts_Work
  BY DEF IsWork
<1>4. CallHolds(c, op[c])'
  BY <1>2, <1>3 DEF CallHolds, Stmts_Work
<1>5. \A g \in Rows : grants[g].row = c => g \in op'[c].done
  BY <1>1, SharesFit DEF LocksHeld
<1>6. SharesType' /\ CallsHold' /\ LocksHeld'
  BY <1>1, <1>3, <1>4, <1>5, CallMovesOn
<1>. QED
  BY <1>6 DEF UnsharingInv, Shares!UnshareLasts, Shares!AnswerIsTrue,
     Shares!HalfWayWithoutStanding

LEMMA StandingIsRead ==
  ASSUME UnsharingInv, NEW c \in Calls, Shares!Decide(c)
  PROVE  UnsharingInv'
<1>. DEFINE l == op[c]
<1>1. /\ l.stmt = "decide" /\ chain' = chain /\ said' = None
      /\ op' = [op EXCEPT ![c].stmt = IF Shares!Entitled(c) THEN "allow" ELSE "deny",
                          ![c].asked = away]
      /\ grants' = grants /\ able' = able /\ away' = away /\ hour' = hour
  BY DEF Shares!Decide
<1>2. l.stmt \in Stmts_Work /\ IsWork(l) /\ LocksOf(c, l) /\ SharesType
  BY <1>1, AtWork_Holds DEF Stmts_Work
<1>3. /\ op'[c].stmt = (IF Shares!Entitled(c) THEN "allow" ELSE "deny")
      /\ op'[c].asked = away /\ op'[c].todo = l.todo /\ op'[c].done = l.done
      /\ op'[c].name = l.name /\ op'[c].before = l.before /\ op'[c].out = l.out
      /\ op'[c].held = l.held
      /\ DOMAIN op'[c] = Fields_Work /\ op' = [op EXCEPT ![c] = op'[c]]
  <2>1. DOMAIN op = Calls /\ DOMAIN l = Fields_Work
    BY <1>2 DEF SharesType, IsWork
  <2>. QED
    BY <1>1, <2>1 DEF Fields_Work
<1>. HIDE DEF l
<1>4. IsWork(op'[c])
  BY <1>2, <1>3 DEF IsWork, Stmts_Work
<1>5. LocksOf(c, op[c])'
  <2>1. op'[c].stmt = "deny" => c \in op'[c].asked \/ c \notin able
    BY <1>3 DEF Shares!Entitled
  <2>2. op'[c].stmt \in {"allow", "deny"}
    BY <1>3
  <2>3. /\ \A g \in l.done : grants[g].revoked \/ grants[g].row = c
        /\ l.done # {} => chain = c
        /\ l.todo # <<>>
        /\ l.held => chain = c /\ c \in able
    BY <1>1, <1>2 DEF LocksOf
  <2>. QED
    BY <1>1, <1>3, <2>1, <2>2, <2>3 DEF LocksOf
<1>. QED
  BY <1>1, <1>2, <1>3, <1>4, <1>5, WorkMovesOn DEF l

LEMMA ChainIsTaken ==
  ASSUME UnsharingInv, NEW c \in Calls, Shares!Allow(c)
  PROVE  UnsharingInv'
<1>. DEFINE l == op[c]
            held == c \in able
<1>1. /\ l.stmt = "allow" /\ chain \in {None, c} /\ chain' = c /\ said' = None
      /\ op' = [op EXCEPT ![c].stmt = "update", ![c].held = held]
      /\ grants' = grants /\ able' = able /\ away' = away /\ hour' = hour
  BY DEF Shares!Allow
<1>2. l.stmt \in Stmts_Work /\ IsWork(l) /\ LocksOf(c, l) /\ SharesType
  BY <1>1, AtWork_Holds DEF Stmts_Work
<1>3. held \in BOOLEAN /\ (held => c \in able)
  OBVIOUS
<1>. HIDE DEF held
<1>4. /\ op'[c].stmt = "update"
      /\ op'[c].todo = l.todo /\ op'[c].done = l.done
      /\ op'[c].name = l.name /\ op'[c].before = l.before /\ op'[c].out = l.out
      /\ op'[c].held = held
      /\ DOMAIN op'[c] = Fields_Work /\ op' = [op EXCEPT ![c] = op'[c]]
  <2>1. DOMAIN op = Calls /\ DOMAIN l = Fields_Work
    BY <1>2 DEF SharesType, IsWork
  <2>. QED
    BY <1>1, <2>1 DEF Fields_Work
<1>. HIDE DEF l
<1>5. IsWork(op'[c])
  BY <1>2, <1>3, <1>4 DEF IsWork, Stmts_Work
<1>6. LocksOf(c, op[c])'
  <2>1. l.todo # <<>> /\ \A g \in l.done : grants[g].revoked \/ grants[g].row = c
    BY <1>1, <1>2 DEF LocksOf
  <2>. QED
    BY <1>1, <1>3, <1>4, <2>1 DEF LocksOf
<1>. QED
  BY <1>1, <1>2, <1>4, <1>5, <1>6, WorkMovesOn DEF l

LEMMA ReaderIsLookedUp ==
  ASSUME UnsharingInv, NEW c \in Calls, Shares!Probe(c)
  PROVE  UnsharingInv'
<1>. DEFINE l == op[c]
            can == Shares!Readable(l.at, away, l.done)
<1>1. /\ l.stmt = "probe" /\ chain' = chain /\ said' = None
      /\ op' = [op EXCEPT ![c].stmt = IF l.todo = <<>> THEN "commit" ELSE "decide",
                          ![c].asked = away, ![c].can = can]
      /\ grants' = grants /\ able' = able /\ away' = away /\ hour' = hour
  BY DEF Shares!Probe
<1>2. l.stmt \in Stmts_Work /\ IsWork(l) /\ LocksOf(c, l) /\ SharesType
  BY <1>1, AtWork_Holds DEF Stmts_Work
<1>. HIDE DEF can
<1>3. /\ op'[c].stmt = (IF l.todo = <<>> THEN "commit" ELSE "decide")
      /\ op'[c].todo = l.todo /\ op'[c].done = l.done
      /\ op'[c].name = l.name /\ op'[c].before = l.before /\ op'[c].out = l.out
      /\ op'[c].at = l.at /\ op'[c].asked = away /\ op'[c].can = can /\ op'[c].held = l.held
      /\ DOMAIN op'[c] = Fields_Work /\ op' = [op EXCEPT ![c] = op'[c]]
  <2>1. DOMAIN op = Calls /\ DOMAIN l = Fields_Work
    BY <1>2 DEF SharesType, IsWork
  <2>. QED
    BY <1>1, <2>1 DEF Fields_Work
<1>4. can = Shares!Readable(l.at, away, l.done) /\ grants' = grants /\ able' = able
      /\ chain' = chain
  BY <1>1 DEF can
<1>5. ASSUME NEW t, NEW out, NEW W PROVE Shares!Readable(t, out, W)' = Shares!Readable(t, out, W)
  BY <1>4, SightStands
<1>. HIDE DEF l
<1>6. IsWork(op'[c])
  BY <1>2, <1>3 DEF IsWork, Stmts_Work
<1>7. LocksOf(c, op[c])'
  <2>1. op'[c].can = Shares!Readable(op'[c].at, op'[c].asked, op'[c].done)
    BY <1>3, <1>4
  <2>2. op'[c].stmt = "commit" => op'[c].todo = <<>>
    BY <1>3
  <2>3. op'[c].stmt = "decide" => op'[c].todo # <<>>
    BY <1>3
  <2>4. op'[c].stmt \in {"commit", "decide"} /\ op'[c].done = l.done /\ op'[c].held = l.held
    BY <1>3
  <2>5. /\ \A g \in l.done : grants[g].revoked \/ grants[g].row = c
        /\ l.done # {} /\ chain = c
        /\ l.held => c \in able
    BY <1>1, <1>2 DEF LocksOf
  <2>. QED
    BY <1>4, <1>5, <2>1, <2>2, <2>3, <2>4, <2>5 DEF LocksOf
<1>. QED
  BY <1>1, <1>2, <1>3, <1>6, <1>7, WorkMovesOn DEF l

LEMMA RowIsUpdated ==
  ASSUME UnsharingInv, NEW c \in Calls, Shares!UpdateRow(c)
  PROVE  UnsharingInv'
<1>. DEFINE l == op[c]
            g == Head(op[c].todo)
<1>1. /\ l.stmt = "update" /\ grants[g].row = None /\ said' = None
      /\ grants' = IF grants[g].revoked THEN grants ELSE [grants EXCEPT ![g].row = c]
      /\ op' = [op EXCEPT ![c].stmt = "probe", ![c].todo = Tail(@), ![c].done = @ \cup {g}]
      /\ able' = able /\ away' = away /\ chain' = c /\ hour' = hour
  BY DEF Shares!UpdateRow
<1>2. /\ IsWork(l) /\ RowsAhead(l) /\ LocksOf(c, l)
      /\ SharesType /\ CallsHold /\ LocksHeld
  BY <1>1, AtWork_Holds DEF Stmts_Work
<1>3. l.todo \in Seq(Nat) /\ l.todo # <<>> /\ chain = c /\ (l.held => c \in able)
  BY <1>1, <1>2 DEF IsWork, LocksOf
<1>4. /\ Len(l.todo) \in Nat \ {0} /\ g = l.todo[1]
      /\ Tail(l.todo) \in Seq(Nat) /\ Len(Tail(l.todo)) = Len(l.todo) - 1
      /\ \A i \in 1..Len(Tail(l.todo)) : Tail(l.todo)[i] = l.todo[i + 1]
  BY <1>3
<1>5. g \in Rows /\ DOMAIN grants = Rows /\ Len(grants) \in Nat
  BY <1>2, <1>4, RowFields DEF RowsAhead
<1>6. /\ op'[c].stmt = "probe" /\ op'[c].todo = Tail(l.todo) /\ op'[c].done = l.done \cup {g}
      /\ op'[c].name = l.name /\ op'[c].before = l.before /\ op'[c].out = l.out
      /\ op'[c].held = l.held /\ DOMAIN op'[c] = Fields_Work
  <2>1. DOMAIN op = Calls /\ DOMAIN l = Fields_Work
    BY <1>2 DEF SharesType, IsWork
  <2>. HIDE DEF g
  <2>. QED
    BY <1>1, <2>1 DEF Fields_Work
<1>7. DOMAIN op' = Calls /\ OthersWait(c)
  BY <1>1, <1>2 DEF SharesType, OthersWait
<1>. HIDE DEF g
<1>8. /\ grants' \in [Rows -> GrantRow]
      /\ \A h \in Rows : /\ grants'[h].issuer = grants[h].issuer
                         /\ grants'[h].expires = grants[h].expires
                         /\ grants'[h].revoked = grants[h].revoked
                         /\ h # g => grants'[h].row = grants[h].row
      /\ grants'[g].revoked \/ grants'[g].row = c
      /\ grants'[g].row = None \/ grants'[g].row = c
  <2>1. grants \in [Rows -> GrantRow]
    BY <1>2, RowFields DEF SharesType, Rows
  <2>. HIDE DEF l
  <2>2. CASE grants[g].revoked
    BY <1>1, <1>5, <2>1, <2>2
  <2>3. CASE ~grants[g].revoked
    BY <1>1, <1>5, <2>1, <2>3 DEF GrantRow
  <2>. QED
    BY <2>2, <2>3
<1>9. grants' \in Seq(GrantRow) /\ Len(grants') = Len(grants) /\ Rows' = Rows
  BY <1>5, <1>8 DEF Rows
<1>10. IsWork(op'[c])
  BY <1>2, <1>4, <1>6 DEF IsWork, Stmts_Work
<1>11. SharesType'
  BY <1>1, <1>2, <1>7, <1>9, <1>10 DEF SharesType, OthersWait
<1>12. /\ \A i \in 1..Len(op'[c].todo) : i + 1 \in 1..Len(l.todo) /\ op'[c].todo[i] = l.todo[i + 1]
       /\ 1 \in 1..Len(l.todo) /\ l.todo[1] = g
       /\ \A i \in 1..Len(l.todo) : i = 1 \/ (i - 1 \in 1..Len(op'[c].todo) /\ op'[c].todo[i - 1] = l.todo[i])
  BY <1>4, <1>6
<1>13. RowsAhead(op[c])'
  <2>. HIDE DEF l
  <2>1. l.before \subseteq Rows /\ l.done \subseteq Rows
    BY <1>2 DEF RowsAhead
  <2>2. op'[c].done \subseteq Rows' /\ op'[c].before \subseteq Rows'
    BY <1>5, <1>6, <1>9, <2>1
  <2>3. \A i \in 1..Len(op'[c].todo) : op'[c].todo[i] \in Rows'
    BY <1>2, <1>9, <1>12 DEF RowsAhead
  <2>4. op'[c].name = "unshare" =>
          \A h \in op'[c].before :
            \/ h \in op'[c].done
            \/ \E i \in 1..Len(op'[c].todo) : op'[c].todo[i] = h
            \/ OutOfIt(h, op[c].out)'
    <3>. SUFFICES ASSUME l.name = "unshare", NEW h \in l.before
                  PROVE  \/ h \in op'[c].done
                         \/ \E i \in 1..Len(op'[c].todo) : op'[c].todo[i] = h
                         \/ OutOfIt(h, op[c].out)'
      BY <1>6
    <3>1. h \in l.done \/ (\E i \in 1..Len(l.todo) : l.todo[i] = h) \/ OutOfIt(h, l.out)
      BY <1>2 DEF RowsAhead
    <3>2. CASE OutOfIt(h, l.out)
      BY <1>1, <1>6, <1>8, <2>1, <3>2 DEF OutOfIt
    <3>3. CASE \E i \in 1..Len(l.todo) : l.todo[i] = h
      BY <1>6, <1>12, <3>3
    <3>. QED
      BY <1>6, <3>1, <3>2, <3>3
  <2>. QED
    BY <1>6, <2>2, <2>3, <2>4 DEF RowsAhead
<1>14. LocksOf(c, op[c])'
  <2>1. \A h \in op'[c].done : grants'[h].revoked \/ grants'[h].row = c
    BY <1>2, <1>6, <1>8 DEF LocksOf, RowsAhead
  <2>2. op'[c].done # {}
    BY <1>6
  <2>. QED
    BY <1>1, <1>3, <1>6, <2>1, <2>2 DEF LocksOf
<1>15. CallHolds(c, op[c])'
  BY <1>6, <1>13, <1>14 DEF CallHolds, Stmts_Work
<1>16. RowsGoOn(c) /\ ChainGoesOn(c)
  <2>1. \A h \in Rows, d \in Calls : d # c /\ grants[h].row = d => grants'[h].row = d
    BY <1>1, <1>8, SharesFit
  <2>. QED
    BY <1>1, <1>2, <1>3, <1>8, <1>9, <2>1 DEF RowsGoOn, ChainGoesOn, SharesType
<1>17. LocksGoOn(c)
  <2>1. op'[c].stmt \in Stmts_Work /\ g \in op'[c].done
    BY <1>6 DEF Stmts_Work
  <2>2. \A h \in Rows : h # g => grants[h].row # c \/ h \in op'[c].done
    BY <1>2, <1>6, SharesFit DEF LocksHeld
  <2>. QED
    BY <1>1, <1>8, <1>9, <2>1, <2>2 DEF LocksGoOn
<1>18. CallsHold' /\ LocksHeld'
  BY <1>2, <1>7, <1>11, <1>15, <1>16, <1>17, OneCallSteps
<1>. QED
  BY <1>1, <1>11, <1>18 DEF UnsharingInv, Shares!UnshareLasts, Shares!AnswerIsTrue,
     Shares!HalfWayWithoutStanding

(* The end of a transaction, which has the chain if it has rows: they are let go,
   revoked.                                                                 *)
LEMMA CallEnds ==
  ASSUME SharesType, CallsHold, LocksHeld, NEW c \in Calls,
         Shares!Committed(c), able' = able, away' = away, hour' = hour,
         LocksOf(c, op[c])
  PROVE  /\ SharesType' /\ CallsHold' /\ LocksHeld'
         /\ DOMAIN grants' = Rows /\ Rows' = Rows
         /\ \A g \in Rows : /\ grants'[g].issuer = grants[g].issuer
                            /\ grants'[g].expires = grants[g].expires
                            /\ grants'[g].revoked <=> (grants[g].revoked \/ grants[g].row = c)
<1>1. /\ chain' = (IF chain = c THEN None ELSE chain) /\ op' = [op EXCEPT ![c] = [stmt |-> "idle"]]
      /\ grants' = [g \in DOMAIN grants |->
                      IF grants[g].row = c THEN [grants[g] EXCEPT !.revoked = TRUE, !.row = None]
                      ELSE grants[g]]
  BY DEF Shares!Committed, Shares!Released, Shares!Idle
<1>2. DOMAIN grants = Rows /\ Len(grants) \in Nat /\ \A g \in Rows : grants[g] \in GrantRow
  BY RowFields
<1>3. /\ \A g \in Rows : grants'[g] \in GrantRow
      /\ grants' = [g \in Rows |-> grants'[g]]
  <2>1. \A g \in Rows :
          grants'[g] = IF grants[g].row = c THEN [grants[g] EXCEPT !.revoked = TRUE, !.row = None]
                       ELSE grants[g]
    BY <1>1, <1>2
  <2>2. \A g \in Rows : grants'[g] \in GrantRow
    BY <1>2, <2>1 DEF GrantRow
  <2>. QED
    BY <1>1, <1>2, <2>2
<1>4. ASSUME NEW g \in Rows
      PROVE  /\ grants'[g].issuer = grants[g].issuer
             /\ grants'[g].expires = grants[g].expires
             /\ grants[g].row # c => grants'[g] = grants[g]
             /\ grants[g].row = c => grants'[g].row = None /\ grants'[g].revoked
  <2>1. DOMAIN grants[g] = {"issuer", "expires", "revoked", "row"}
    BY <1>2 DEF GrantRow
  <2>2. CASE grants[g].row = c
    <3>1. grants'[g] = [grants[g] EXCEPT !.revoked = TRUE, !.row = None]
      BY <1>1, <1>2, <2>2
    <3>. QED
      BY <2>1, <2>2, <3>1
  <2>3. CASE grants[g].row # c
    <3>1. grants'[g] = grants[g]
      BY <1>1, <1>2, <2>3
    <3>. QED
      BY <2>3, <3>1
  <2>. QED
    BY <2>2, <2>3
<1>5. grants' \in [Rows -> GrantRow]
  BY <1>3
<1>6. grants' \in Seq(GrantRow) /\ Len(grants') = Len(grants) /\ Rows' = Rows
  BY <1>2, <1>5 DEF Rows
<1>7. \A g \in Rows : grants'[g].revoked <=> (grants[g].revoked \/ grants[g].row = c)
  <2>1. \A g \in Rows : grants[g].revoked \in BOOLEAN /\ grants'[g].revoked \in BOOLEAN
    BY <1>2, <1>3 DEF GrantRow
  <2>. QED
    BY <1>4, <2>1
<1>8. DOMAIN op' = Calls /\ op'[c] = [stmt |-> "idle"] /\ OthersWait(c)
  BY <1>1 DEF SharesType, OthersWait
<1>9. op'[c].stmt = "idle"
  BY <1>8
<1>10. SharesType'
  BY <1>1, <1>6, <1>8, <1>9 DEF SharesType, OthersWait
<1>11. CallHolds(c, op[c])'
  BY <1>9 DEF CallHolds, Stmts_Work
<1>12. chain = c \/ \A g \in Rows : grants[g].row # c
  BY SharesFit DEF LocksHeld, LocksOf
<1>13. RowsGoOn(c) /\ ChainGoesOn(c)
  <2>1. chain # c => chain' = chain
    BY <1>1
  <2>2. \A g \in Rows : grants[g].revoked => grants'[g].revoked
    BY <1>7
  <2>3. \A g \in Rows, d \in Calls : d # c /\ grants[g].row = d => grants'[g].row = d
    BY <1>4
  <2>4. RowsGoOn(c)
    BY <1>2, <1>4, <1>6, <2>2, <2>3 DEF RowsGoOn, SharesType
  <2>5. ASSUME NEW d \in Calls, d # c
        PROVE  /\ chain' = d => chain = d
               /\ chain = d => chain' = d /\ \A g \in Rows : grants'[g].revoked = grants[g].revoked
    BY <1>1, <1>4, <1>12, <2>5, SharesFit
  <2>6. ChainGoesOn(c)
    BY <1>6, <2>5 DEF ChainGoesOn
  <2>. QED
    BY <2>4, <2>6
<1>14. LocksGoOn(c)
  BY <1>1, <1>4, <1>6 DEF LocksGoOn
<1>15. CallsHold' /\ LocksHeld'
  BY <1>8, <1>10, <1>11, <1>13, <1>14, OneCallSteps
<1>16. DOMAIN grants' = Rows
  BY <1>1, <1>2
<1>. QED
  BY <1>4, <1>6, <1>7, <1>10, <1>15, <1>16

LEMMA RevocationCommits ==
  ASSUME UnsharingInv, NEW c \in Calls, Shares!Commit(c)
  PROVE  UnsharingInv'
<1>. DEFINE l == op[c]
<1>1. /\ l.stmt = "commit" /\ Shares!Committed(c)
      /\ said' = IF l.name = "unshare" THEN [name |-> "unshare", before |-> l.before, out |-> l.out]
                 ELSE [name |-> "revoke", can |-> l.can, at |-> l.at, asked |-> l.asked]
      /\ able' = able /\ away' = away /\ hour' = hour
  BY DEF Shares!Commit
<1>2. /\ RowsAhead(l) /\ LocksOf(c, l)
      /\ SharesType /\ CallsHold /\ LocksHeld
  BY <1>1, AtWork_Holds DEF Stmts_Work
<1>3. DOMAIN grants = Rows
  BY <1>2, RowFields
<1>4. /\ l.todo = <<>>
      /\ l.can = Shares!Readable(l.at, l.asked, l.done)
      /\ \A g \in l.done : grants[g].revoked \/ grants[g].row = c
      /\ \A g \in Rows : grants[g].row = c => g \in l.done
  BY <1>1, <1>2, SharesFit DEF LocksOf, LocksHeld
<1>5. /\ SharesType' /\ CallsHold' /\ LocksHeld'
      /\ DOMAIN grants' = Rows /\ Rows' = Rows
      /\ \A g \in Rows : /\ grants'[g].issuer = grants[g].issuer
                         /\ grants'[g].expires = grants[g].expires
                         /\ grants'[g].revoked <=> (grants[g].revoked \/ grants[g].row = c)
  BY <1>1, <1>2, CallEnds
<1>. HIDE DEF l
<1>6. \A g \in Rows : grants'[g].revoked <=> (grants[g].revoked \/ g \in l.done)
  BY <1>4, <1>5
<1>7. CASE l.name = "unshare"
  <2>1. said' = [name |-> "unshare", before |-> l.before, out |-> l.out]
    BY <1>1, <1>7
  <2>2. ASSUME NEW g \in l.before
        PROVE  \/ grants'[g].revoked
               \/ grants'[g].expires # None /\ grants'[g].expires <= hour'
               \/ l.out \cap {bob, grants'[g].issuer} # {}
    <3>1. g \in Rows
      BY <1>2 DEF RowsAhead
    <3>2. g \in l.done \/ OutOfIt(g, l.out)
      BY <1>2, <1>4, <1>7 DEF RowsAhead
    <3>3. CASE g \in l.done
      BY <1>6, <3>1, <3>3
    <3>4. CASE OutOfIt(g, l.out)
      BY <1>1, <1>5, <3>1, <3>4 DEF OutOfIt
    <3>. QED
      BY <3>2, <3>3, <3>4
  <2>3. Shares!UnshareLasts'
    BY <2>1, <2>2 DEF Shares!UnshareLasts
  <2>4. Shares!AnswerIsTrue' /\ Shares!HalfWayWithoutStanding'
    BY <2>1 DEF Shares!AnswerIsTrue, Shares!HalfWayWithoutStanding
  <2>. QED
    BY <1>5, <2>3, <2>4 DEF UnsharingInv
<1>8. CASE l.name # "unshare"
  <2>1. said' = [name |-> "revoke", can |-> l.can, at |-> l.at, asked |-> l.asked]
    BY <1>1, <1>8
  <2>2. ASSUME NEW t, NEW out
        PROVE  Shares!Readable(t, out, {})' = Shares!Readable(t, out, l.done)
    <3>1. \A g \in Rows : Shares!Live(g, t, out, {})' <=> Shares!Live(g, t, out, l.done)
      BY <1>5, <1>6 DEF Shares!Live
    <3>2. Shares!Readable(t, out, {})' <=> Shares!Readable(t, out, l.done)
      BY <1>1, <1>3, <1>5, <3>1 DEF Shares!Readable
    <3>. QED
      BY <3>2, Zenon DEF Shares!Readable
  <2>3. Shares!AnswerIsTrue'
    BY <1>4, <2>1, <2>2 DEF Shares!AnswerIsTrue
  <2>4. Shares!UnshareLasts' /\ Shares!HalfWayWithoutStanding'
    BY <2>1 DEF Shares!UnshareLasts, Shares!HalfWayWithoutStanding
  <2>. QED
    BY <1>5, <2>3, <2>4 DEF UnsharingInv
<1>. QED
  BY <1>7, <1>8

(* What was revoked by then is kept; the chain kept the caller's role. *)
LEMMA RefusalCommits ==
  ASSUME UnsharingInv, NEW c \in Calls, Shares!Refuse(c)
  PROVE  UnsharingInv'
<1>. DEFINE l == op[c]
<1>1. /\ l.stmt = "deny" /\ Shares!Committed(c)
      /\ said' = [name |-> "refused", by |-> c, done |-> l.done,
                   asked |-> l.asked, held |-> l.held]
      /\ able' = able /\ away' = away /\ hour' = hour
  BY DEF Shares!Refuse
<1>2. LocksOf(c, l) /\ SharesType /\ CallsHold /\ LocksHeld
  BY <1>1, AtWork_Holds DEF Stmts_Work
<1>3. SharesType' /\ CallsHold' /\ LocksHeld'
  BY <1>1, <1>2, CallEnds
<1>. HIDE DEF l
<1>4. l.done # {} /\ l.held => c \in l.asked
  BY <1>1, <1>2 DEF LocksOf
<1>5. Shares!HalfWayWithoutStanding'
  BY <1>1, <1>4 DEF Shares!HalfWayWithoutStanding
<1>6. Shares!UnshareLasts' /\ Shares!AnswerIsTrue'
  BY <1>1 DEF Shares!UnshareLasts, Shares!AnswerIsTrue
<1>. QED
  BY <1>3, <1>5, <1>6 DEF UnsharingInv

LEMMA UnsharingStep == UnsharingInv /\ Shares!UnsharingNext => UnsharingInv'
<1>. SUFFICES ASSUME UnsharingInv, Shares!UnsharingNext PROVE UnsharingInv'
  OBVIOUS
<1>1. CASE \E i \in Issuers, e \in Lifetimes : Shares!Share(i, e)
  BY <1>1, SharesGrow
<1>2. CASE (\E p \in Calls \cup {bob} : Shares!ChangeRole(p)) \/ Shares!Tick \/ \E a \in Switched : Shares!Suspend(a)
  BY <1>2, SwitchesAndTime
<1>3. ASSUME NEW c \in Calls,
             \/ c \in Revokers /\ \E g \in DOMAIN grants : Shares!BeginRevoke(c, g)
             \/ Shares!FindActor(c) \/ Shares!MayList(c) \/ Shares!ListGrants(c)
             \/ Shares!Decide(c) \/ Shares!Allow(c) \/ Shares!Refuse(c)
             \/ Shares!UpdateRow(c) \/ Shares!Probe(c) \/ Shares!Commit(c)
      PROVE  UnsharingInv'
  BY <1>3, RevokeBegins, UnshareBegins, ListingIsDecided, GrantsAreListed, StandingIsRead,
     ChainIsTaken, RowIsUpdated, ReaderIsLookedUp, RevocationCommits, RefusalCommits
<1>. QED
  BY <1>1, <1>2, <1>3 DEF Shares!UnsharingNext

LEMMA UnsharingStands == UnsharingInv /\ UNCHANGED shares => UnsharingInv'
<1>. SUFFICES ASSUME UnsharingInv, UNCHANGED shares PROVE UnsharingInv'
  OBVIOUS
<1>1. /\ grants' = grants /\ able' = able /\ away' = away /\ chain' = chain
      /\ op' = op /\ hour' = hour /\ said' = said
  BY DEF shares
<1>2. SharesType' = SharesType /\ LocksHeld' = LocksHeld /\ Rows' = Rows
  BY <1>1 DEF SharesType, LocksHeld, Rows
<1>3. ASSUME NEW t, NEW out, NEW W PROVE Shares!Readable(t, out, W)' = Shares!Readable(t, out, W)
  BY <1>1, SightStands
<1>4. CallsHold'
  <2>1. \A h, out : OutOfIt(h, out)' <=> OutOfIt(h, out)
    BY <1>1 DEF OutOfIt
  <2>2. ASSUME NEW c \in Calls PROVE CallHolds(c, op[c])'
    <3>1. CallHolds(c, op[c]) /\ op'[c] = op[c]
      BY <1>1 DEF UnsharingInv, CallsHold
    <3>2. RowsAhead(op[c]) => RowsAhead(op[c])'
      BY <1>1, <1>2, <2>1 DEF RowsAhead
    <3>3. LocksOf(c, op[c]) => LocksOf(c, op[c])'
      BY <1>1, <1>2, <1>3 DEF LocksOf
    <3>. QED
      BY <1>2, <3>1, <3>2, <3>3 DEF CallHolds
  <2>. QED
    BY <2>2 DEF CallsHold
<1>5. Shares!UnshareLasts' /\ Shares!AnswerIsTrue' /\ Shares!HalfWayWithoutStanding'
  BY <1>1, <1>3 DEF UnsharingInv, Shares!UnshareLasts, Shares!AnswerIsTrue,
     Shares!HalfWayWithoutStanding
<1>. QED
  BY <1>2, <1>4, <1>5 DEF UnsharingInv

(* Who has a row has the chain, and so has who is about to take one. *)
LEMMA RowsAreFree == UnsharingInv => Shares!RowsBehindTheChain
<1>. SUFFICES ASSUME UnsharingInv, NEW c \in Calls, op[c].stmt = "update"
              PROVE  grants[Head(op[c].todo)].row \in {None, c}
  BY DEF Shares!RowsBehindTheChain
<1>. DEFINE g == Head(op[c].todo)
<1>1. IsWork(op[c]) /\ RowsAhead(op[c]) /\ LocksOf(c, op[c]) /\ SharesType /\ LocksHeld
  BY AtWork_Holds DEF Stmts_Work
<1>2. chain = c /\ op[c].todo \in Seq(Nat) /\ op[c].todo # <<>>
  BY <1>1 DEF IsWork, LocksOf
<1>3. g \in Rows
  BY <1>1, <1>2 DEF RowsAhead
<1>. HIDE DEF g
<1>4. ASSUME NEW d \in Calls, grants[g].row = d PROVE d = c
  <2>1. op[d].stmt \in Stmts_Work /\ g \in op[d].done
    BY <1>1, <1>3, <1>4, SharesFit DEF LocksHeld
  <2>2. chain = d
    BY <2>1, AtWork_Holds DEF LocksOf
  <2>. QED
    BY <1>2, <2>2
<1>. QED
  BY <1>1, <1>3, <1>4, RowFields DEF g

(* An unshare leaves nothing that its caller could see; what a revocation says of
   the reader is so; one that stops half way has a caller without standing; and
   nobody waits for a row, for who has one has the chain first -- however many
   callers, grants and issuers there are (simple.ts, unshare; filelayer.ts,
   revokeFor and #revokeOne).                                               *)
THEOREM UnsharingLasts == Spec => []UnsharingIsFinal
<1>. DEFINE I == part = "unshare" => UnsharingInv
<1>1. Init => I
  BY SharesBegin
<1>2. I /\ [Next]_vars => I'
  <2>. SUFFICES ASSUME I, [Next]_vars, part' = "unshare" PROVE UnsharingInv'
    OBVIOUS
  <2>1. part = "unshare" /\ UnsharingInv
    BY PartStands
  <2>2. CASE Shares!UnsharingNext
    BY <2>1, <2>2, UnsharingStep
  <2>3. CASE UNCHANGED shares
    BY <2>1, <2>3, UnsharingStands
  <2>. QED
    BY <2>1, <2>2, <2>3 DEF Next, vars, services, others, shares
<1>3. I => UnsharingIsFinal
  BY RowsAreFree DEF UnsharingIsFinal, UnsharingInv
<1>. QED
  BY <1>1, <1>2, <1>3, PTL DEF Spec
=============================================================================
