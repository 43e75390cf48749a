------------------------------ MODULE Delivery ------------------------------
(***************************************************************************)
(* From a download request to the last of its bytes: the range it asks     *)
(* for, the reservation under a grant, the choice between a stream through *)
(* this process and a redirect to a presigned URL, the object opened after *)
(* the transaction, and the loop that copies it to a client who may leave  *)
(* at any moment.  One file, one grant on it; whether the grant's issuer,  *)
(* subject and scope are alive is in Sharing, and `revoked' stands for it. *)
(* A grant of a link is delivered as one of an actor is.                   *)
(***************************************************************************)
EXTENDS Integers, FiniteSets

CONSTANTS Requests, None,
          Numbers, MaxSafe,   \* numbers in a Range header, the last safe integer
          Sizes,              \* how long the object may be
          Caps,               \* max_downloads of the grant, None among them
          TtlsAskedFor, MaxTtl,      \* MAX_REDIRECT_TTL_SECONDS
          Asks,               \* who may come, and how
          MaxTime             \* bound for the model checker

(* A Range header: none, or not a single range of bytes; or one of three forms. *)
Raws ==
  {[form |-> "none"]}
  \cup [form : {"suffix"}, n : Numbers]
  \cup [form : {"from"}, a : Numbers]
  \cup [form : {"between"}, a : Numbers, b : Numbers]

(* A Node handler writes to a response, a Fetch handler returns one; authority
   comes from a role or through the grant.                                 *)
AllAsks == [pull : {"node", "fetch"}, head : BOOLEAN, byGrant : BOOLEAN, mode : {"auto", "proxy"}]

DeliveryConstants ==
  /\ Numbers \subseteq Nat /\ MaxSafe \in Nat /\ Sizes \subseteq 0..MaxSafe
  /\ Caps \subseteq Nat \cup {None} /\ None \notin Nat
  /\ Asks \subseteq AllAsks
  /\ TtlsAskedFor \subseteq Nat \ {0} /\ MaxTtl \in Nat \ {0} /\ MaxTime \in Nat

VARIABLES clock, grant, object,
          config,    \* the resolved redirect configuration, if there is one
          req,       \* the requests
          urls       \* presigned URLs, and the caches that hold their 302

deliveryVars == <<clock, grant, object, config, req, urls>>

-----------------------------------------------------------------------------
(* The Range header, and what it asks for. *)

From(a) == [start |-> a, end |-> None]

(* Mutant: an end before the start is taken. *)
ParseRange_Reversed(raw) ==
  CASE raw.form = "suffix" -> IF raw.n > MaxSafe \/ raw.n = 0 THEN None ELSE [suffix |-> raw.n]
    [] raw.form = "from" /\ raw.a <= MaxSafe -> From(raw.a)
    [] raw.form = "between" /\ raw.a <= MaxSafe ->
         IF raw.b > MaxSafe THEN From(raw.a) ELSE [start |-> raw.a, end |-> raw.b]
    [] OTHER -> None

(* parseRangeHeader: a range it cannot make sense of is no range at all. *)
ParseRange(raw) ==
  CASE raw.form = "suffix" -> IF raw.n > MaxSafe \/ raw.n = 0 THEN None ELSE [suffix |-> raw.n]
    [] raw.form = "from" /\ raw.a <= MaxSafe -> From(raw.a)
    [] raw.form = "between" /\ raw.a <= MaxSafe ->
         IF raw.b > MaxSafe THEN From(raw.a)
         ELSE IF raw.b < raw.a THEN None ELSE [start |-> raw.a, end |-> raw.b]
    [] OTHER -> None

IsSuffix(r) == "suffix" \in DOMAIN r

SmallerOf(a, b) == IF a < b THEN a ELSE b
LargerOf(a, b)  == IF a < b THEN b ELSE a

ResolveTtl(asked) == SmallerOf(asked, MaxTtl)

Configs ==
  {None} \cup [ttl : {ResolveTtl(t) : t \in TtlsAskedFor},
               scope : {"anonymous-grants-only", "all-grants"}]

DeliveryInit ==
  /\ clock = 0
  /\ grant \in [via : {"actor", "anonymous"}, cap : Caps, used : {0}, revoked : {None}]
  /\ object \in [there : {TRUE}, size : Sizes]
  /\ config \in Configs
  /\ req = [q \in Requests |-> [stage |-> "new"]]
  /\ urls = {}

Capped == grant.cap # None
Usable == grant.revoked = None /\ (Capped => grant.used < grant.cap)

-----------------------------------------------------------------------------
(* The transaction. *)

(* A route took the request: who asks, how, and for which bytes. *)
Arrive(q, ask, raw) ==
  /\ req[q].stage = "new"
  /\ req' = [req EXCEPT ![q] =
       [pull |-> ask.pull, head |-> ask.head, byGrant |-> ask.byGrant, mode |-> ask.mode,
        stage |-> "decide", raw |-> raw, range |-> ParseRange(raw), reserved |-> None,
        status |-> None, lo |-> 0, hi |-> -1, sent |-> 0, open |-> FALSE, there |-> TRUE]]
  /\ UNCHANGED <<clock, grant, object, config, urls>>

(* A link opened with GET or POST. *)
ShareRoute(q, ask, raw) ==
  ask.pull = "node" /\ ask.byGrant /\ ~ask.head /\ Arrive(q, ask, raw)

(* A file by its id, for whoever the host says is asking. *)
FileRoute(q, ask, raw) == ask.pull = "node" /\ Arrive(q, ask, raw)

(* Both, behind a Fetch handler. *)
FetchRoute(q, ask, raw) == ask.pull = "fetch" /\ Arrive(q, ask, raw)

Replies(q, status) == [req EXCEPT ![q].stage = "returned", ![q].status = status]

(* The decision: by role, or by the grant as this statement reads it. *)
Decide(q) ==
  /\ req[q].stage = "decide"
  /\ req' = IF req[q].byGrant /\ ~Usable THEN Replies(q, 404)
            ELSE [req EXCEPT ![q].stage = "reserve"]
  /\ UNCHANGED <<clock, grant, object, config, urls>>

(* Mutant: no download of one's own: the decision is trusted. *)
Consumed_Trusting(q) == TRUE

(* consume_download looks again, under the locks of the rows. *)
Consumed(q) == req[q].byGrant => Usable

(* A copy that is counted is a whole copy. *)
EffectiveRange(q) == IF req[q].byGrant /\ Capped THEN None ELSE req[q].range

RedirectEligible(q) ==
  /\ req[q].mode = "auto" /\ config # None
  /\ EffectiveRange(q) = None
  /\ req[q].byGrant
  /\ config.scope = "anonymous-grants-only" => grant.via = "anonymous"

(* Mutant: the store's own default lifetime. *)
Presigned_Default ==
  [signed |-> clock, expires |-> clock + MaxTtl + 1, ttl |-> config.ttl,
   cacheable |-> grant.via = "anonymous", fresh |-> None]

(* A URL signed now, and the 302 that carries it. *)
Presigned ==
  [signed |-> clock, expires |-> clock + config.ttl, ttl |-> config.ttl,
   cacheable |-> grant.via = "anonymous", fresh |-> None]

Reserve(q) ==
  /\ req[q].stage = "reserve" /\ Consumed(q)
  /\ grant' = IF req[q].byGrant THEN [grant EXCEPT !.used = @ + 1] ELSE grant
  /\ IF RedirectEligible(q)
     THEN /\ urls' = urls \cup {Presigned}
          /\ req' = [Replies(q, 302) EXCEPT ![q].reserved = clock]
     ELSE /\ urls' = urls
          /\ req' = [req EXCEPT ![q].stage = "fetch", ![q].reserved = clock,
                                ![q].range = EffectiveRange(q)]
  /\ UNCHANGED <<clock, object, config>>

(* Somebody spent it, or took it away, since the decision. *)
RefuseReservation(q) ==
  /\ req[q].stage = "reserve" /\ ~Consumed(q)
  /\ req' = Replies(q, 404)
  /\ UNCHANGED <<clock, grant, object, config, urls>>

-----------------------------------------------------------------------------
(* After the transaction: what was reserved is spent, whatever follows. *)

(* A suffix needs the length of the object first. *)
ResolveSuffix(q) ==
  LET k == req[q]
  IN  /\ k.stage = "fetch" /\ k.range # None /\ IsSuffix(k.range)
      /\ req' = IF ~object.there THEN Replies(q, 404)
                ELSE IF object.size = 0 THEN Replies(q, 416)
                ELSE [req EXCEPT ![q].range =
                        [start |-> LargerOf(0, object.size - k.range.suffix),
                         end |-> object.size - 1]]
      /\ UNCHANGED <<clock, grant, object, config, urls>>

LastByte(r) ==
  IF r = None \/ r.end = None THEN object.size - 1 ELSE SmallerOf(r.end, object.size - 1)

FirstByte(r) == IF r = None THEN 0 ELSE r.start

Satisfiable(r) == r # None => FirstByte(r) <= LastByte(r)

(* storage.stream: the object as it is now, held open. *)
OpenObject(q) ==
  LET k == req[q]
  IN  /\ k.stage = "fetch" /\ (k.range # None => ~IsSuffix(k.range))
      /\ object.there /\ Satisfiable(k.range)
      /\ req' = [req EXCEPT ![q].stage = IF k.pull = "fetch" /\ k.head THEN "returned" ELSE "reading",
                            ![q].status = IF k.range = None THEN 200 ELSE 206,
                            ![q].lo = FirstByte(k.range), ![q].hi = LastByte(k.range),
                            ![q].open = TRUE]
      /\ UNCHANGED <<clock, grant, object, config, urls>>

(* There is nothing to stream: no object, or not those bytes of it. *)
NothingToOpen(q) ==
  LET k == req[q]
  IN  /\ k.stage = "fetch" /\ (k.range # None => ~IsSuffix(k.range))
      /\ ~object.there \/ ~Satisfiable(k.range)
      /\ req' = IF k.range = None THEN Replies(q, 404)
                ELSE [req EXCEPT ![q].stage = "which"]
      /\ UNCHANGED <<clock, grant, object, config, urls>>

(* head tells one from the other. *)
HeadAgain(q) ==
  /\ req[q].stage = "which"
  /\ req' = Replies(q, IF object.there THEN 416 ELSE 404)
  /\ UNCHANGED <<clock, grant, object, config, urls>>

StorageFails(q) ==
  /\ req[q].stage \in {"fetch", "which"}
  /\ req' = Replies(q, 500)
  /\ UNCHANGED <<clock, grant, object, config, urls>>

-----------------------------------------------------------------------------
(* The copy.  A Node handler reads and writes in turns, and waits for `drain'
   or `close' when a write returns false; a Fetch runtime pulls by itself and
   cancels when its client is gone.                                        *)

Length(k) == k.hi - k.lo + 1

(* Mutant: the streams are let go of, not cancelled. *)
Cancelled_ReleaseOnly(k) == k.open

(* reader.cancel() in the finally, or the runtime's own. *)
Cancelled(k) == FALSE

Finishes(q) ==
  [req EXCEPT ![q].stage = "returned",
              ![q].open = IF req[q].sent = Length(req[q]) THEN FALSE ELSE Cancelled(req[q])]

(* Mutant: the end of the stream is not noticed. *)
ReadChunk_Again(q) ==
  /\ req[q].stage = "reading"
  /\ req' = [req EXCEPT ![q].stage = "writing",
                        ![q].sent = SmallerOf(@ + 1, Length(req[q]))]
  /\ UNCHANGED <<clock, grant, object, config, urls>>

(* The next chunk, or the end of the stream. *)
ReadChunk(q) ==
  /\ req[q].stage = "reading"
  /\ req' = IF req[q].sent = Length(req[q]) THEN Finishes(q)
            ELSE [req EXCEPT ![q].stage = "writing", ![q].sent = @ + 1]
  /\ UNCHANGED <<clock, grant, object, config, urls>>

(* The object store breaks the stream: the connection is destroyed. *)
ReadFails(q) ==
  /\ req[q].stage = "reading"
  /\ req' = [req EXCEPT ![q].stage = "returned", ![q].open = Cancelled(req[q])]
  /\ UNCHANGED <<clock, grant, object, config, urls>>

(* res.write: true while there is room -- of a HEAD the body is dropped, and
   there always is -- and false, for ever, once the connection is gone.    *)
WriteTakes(q) ==
  /\ req[q].stage = "writing" /\ req[q].there
  /\ req' = [req EXCEPT ![q].stage = "reading"]
  /\ UNCHANGED <<clock, grant, object, config, urls>>

WriteIsFull(q) ==
  /\ req[q].stage = "writing" /\ req[q].pull = "node"
  /\ req[q].there => ~req[q].head
  /\ req' = [req EXCEPT ![q].stage = "waiting"]
  /\ UNCHANGED <<clock, grant, object, config, urls>>

(* The runtime notices that its client is gone, between two chunks. *)
RuntimeCancels(q) ==
  /\ req[q].stage \in {"reading", "writing"} /\ req[q].pull = "fetch" /\ ~req[q].there
  /\ req' = Finishes(q)
  /\ UNCHANGED <<clock, grant, object, config, urls>>

Drain(q) ==
  /\ req[q].stage = "waiting" /\ req[q].there
  /\ req' = [req EXCEPT ![q].stage = "reading"]
  /\ UNCHANGED <<clock, grant, object, config, urls>>

(* The connection goes, and `close' is emitted, once: it is heard by a handler
   that waits for it now.                                                  *)
ClientLeaves(q) ==
  /\ req[q].stage \notin {"new", "returned"} /\ req[q].there
  /\ req' = IF req[q].stage = "waiting"
            THEN [Finishes(q) EXCEPT ![q].there = FALSE]
            ELSE [req EXCEPT ![q].there = FALSE]
  /\ UNCHANGED <<clock, grant, object, config, urls>>

-----------------------------------------------------------------------------
(* What goes on around it. *)

Revoke ==
  /\ grant.revoked = None
  /\ grant' = [grant EXCEPT !.revoked = clock]
  /\ UNCHANGED <<clock, object, config, req, urls>>

RemoveObject ==
  /\ object.there
  /\ object' = [object EXCEPT !.there = FALSE]
  /\ UNCHANGED <<clock, grant, config, req, urls>>

(* Mutant: cacheable for as long as the URL is signed for. *)
MaxAge_Whole(ttl) == ttl

(* Half the life of the URL, but a second at least. *)
MaxAge(ttl) == LargerOf(1, ttl \div 2)

(* A 302 that may be kept reaches a cache, some time after it was made. *)
Cache(u) ==
  /\ u.cacheable /\ u.fresh = None
  /\ urls' = (urls \ {u}) \cup {[u EXCEPT !.fresh = clock + MaxAge(u.ttl)]}
  /\ UNCHANGED <<clock, grant, object, config, req>>

Tick ==
  /\ clock < MaxTime
  /\ clock' = clock + 1
  /\ UNCHANGED <<grant, object, config, req, urls>>

Handle(q) ==
  \/ Decide(q) \/ Reserve(q) \/ RefuseReservation(q)
  \/ ResolveSuffix(q) \/ OpenObject(q) \/ NothingToOpen(q) \/ HeadAgain(q) \/ StorageFails(q)
  \/ ReadChunk(q) \/ ReadFails(q) \/ WriteTakes(q) \/ WriteIsFull(q) \/ RuntimeCancels(q)

DeliveryNext ==
  \/ \E q \in Requests :
       \/ \E ask \in Asks, raw \in Raws :
            ShareRoute(q, ask, raw) \/ FileRoute(q, ask, raw) \/ FetchRoute(q, ask, raw)
       \/ Handle(q) \/ Drain(q) \/ ClientLeaves(q)
  \/ Revoke \/ RemoveObject \/ Tick
  \/ \E u \in urls : Cache(u)

(* The process goes on with every request; a client may do nothing for ever. *)
DeliverySpec ==
  /\ DeliveryInit /\ [][DeliveryNext]_deliveryVars
  /\ \A q \in Requests : WF_deliveryVars(Handle(q))

-----------------------------------------------------------------------------
(* Properties. *)

(* The bytes a Range header names, as RFC 9110 has it: an interval may be cut
   at the end, and a suffix at the start.                                  *)
BytesNamed(raw, size) ==
  CASE raw.form = "suffix"  -> {i \in 0..(size - 1) : i >= size - raw.n}
    [] raw.form = "from"    -> {i \in 0..(size - 1) : i >= raw.a}
    [] raw.form = "between" -> {i \in 0..(size - 1) : raw.a <= i /\ i <= raw.b}
    [] OTHER -> {}

(* A 206 carries the bytes that were asked for and no others, a 200 the whole
   object, and a 416 is said of a range that names no byte.  A header without
   meaning is answered with the whole, never with a part.                  *)
RangeIsHonest ==
  \A q \in Requests : LET k == req[q] IN
    k.stage # "new" =>
      /\ k.status = 206 => k.lo..k.hi = BytesNamed(k.raw, object.size) /\ k.lo <= k.hi
      /\ k.status = 200 => k.lo..k.hi = 0..(object.size - 1)
      /\ k.status = 416 => /\ BytesNamed(k.raw, object.size) = {}
                           /\ k.raw.form = "between" => k.raw.a <= k.raw.b

(* A cap of n is n copies at most, through any path and by any method, and a
   copy that counts is whole (filelayer.ts, #reserve: "A cap of 3 means the
   bytes leave at most 3 times").                                          *)
CopiesWithinCap ==
  Capped =>
    LET delivered == {q \in Requests : req[q].stage # "new" /\ req[q].byGrant
                                       /\ req[q].status \in {200, 206, 302}}
    IN  /\ Cardinality(delivered) <= grant.used /\ grant.used <= grant.cap
        /\ \A q \in delivered : req[q].status # 206

(* A revocation is final for whatever was not reserved before it, and for what
   was redirected after the ttl: no URL lives longer, no cached redirect leads
   anywhere (delivery.ts: "immediate at DECISION time, plus up to `ttlSeconds`
   of in-flight window").                                                  *)
RevocationWindow ==
  grant.revoked # None =>
    /\ \A q \in Requests : req[q].stage # "new" /\ req[q].byGrant /\ req[q].reserved # None
                           => req[q].reserved <= grant.revoked
    /\ \A u \in urls : u.signed <= grant.revoked
                       /\ u.expires <= grant.revoked + SmallerOf(config.ttl, MaxTtl)

(* A redirect that a cache got before half of its URL's life was over is never
   served dead (delivery.ts, redirectHeaders).  A ttl of one second has no
   half: the second the header rounds up to is the whole of it.            *)
CachedRedirectsLive ==
  \A u \in urls :
    /\ u.fresh # None /\ u.ttl > 1 /\ clock < u.fresh
    /\ 2 * (u.fresh - MaxAge(u.ttl) - u.signed) < u.ttl
    => clock < u.expires

(* When a request is over its object is closed, but for a HEAD answered through
   the Fetch handler, whose stream is dropped and never cancelled.         *)
StreamsAreReleased ==
  \A q \in Requests :
    req[q].stage = "returned" /\ req[q].open => req[q].pull = "fetch" /\ req[q].head

(* Every request comes to its end or to a client who does not read on. *)
HandlersGoOn ==
  \A q \in Requests : req[q].stage = "decide" ~> req[q].stage \in {"returned", "waiting"}

(* A handler whose client is gone returns (delivery.ts, sendNodeStream, which
   waits "for `drain` OR FOR THE CLIENT TO GO AWAY").                      *)
HandlersReturn ==
  \A q \in Requests :
    req[q].stage \notin {"new", "returned"} /\ ~req[q].there ~> req[q].stage = "returned"
=============================================================================
